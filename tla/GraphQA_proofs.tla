--------------------------- MODULE GraphQA_proofs ---------------------------
(***************************************************************************)
(* Proofs about the graph pipeline for every ontology, plan, reply of the  *)
(* model and intensity: the engines emit what the validator accepts, no    *)
(* node is lost in the merge, rewiring preserves the degrees, the ontology *)
(* judge sees what the violation family did, and a fixture is about its    *)
(* graph and does not contradict itself.                                   *)
(***************************************************************************)
EXTENDS GraphQA, TLAPS, FiniteSetTheorems, WellFoundedInduction

IsPair(id) == id = <<id[1], id[2]>>

IsSeq(s) == \E S : s \in Seq(S)

IsEdge(e) == e = [id |-> e.id, type |-> e.type, source |-> e.source, target |-> e.target]
IsEdges(es) == IsSeq(es) /\ \A i \in DOMAIN es : IsEdge(es[i])

IsGraph(g) ==
  /\ g = [nodes |-> g.nodes, edges |-> g.edges]
  /\ \A id \in DOMAIN g.nodes : IsPair(id)
  /\ IsEdges(g.edges)

\* Node ids are pairs and edges a list in every graph.
Shaped ==
  /\ spec \in Specs /\ plan \in Plans
  /\ pc \in {"engine", "fill", "edges", "constrain"} => Len(store) < Len(plan)
  /\ IsGraph(shard) /\ IsGraph(dataset)
  /\ \E S : store \in Seq(S)
  /\ \A k \in DOMAIN store : IsGraph(store[k].graph)

\* Perturbation and sampling start when the dataset is assembled.
Phases ==
  pc \notin {"done", "perturbed"} => job = NoJob /\ qa = "idle"

\* What the violation family selected is flagged.
Flagged ==
  job.family = "violation" =>
    /\ \A id \in job.nodes : JudgeFlagsNode(dataset, spec.ontology, id)
    /\ \A i \in job.edges : JudgeFlagsEdge(dataset, spec.ontology, dataset.edges[i])

\* An item that denies a relation denies one its node has no neighbour over.
Honest(item) ==
  item.answer = <<"exists", FALSE>> => TypedNeighbors(StartOf(item.path), item.relation) = {}

Denials ==
  /\ \E S : items \in Seq(S)
  /\ qa = "idle" => items = <<>>
  /\ \A j \in DOMAIN items : Honest(items[j])

\* Edge e joins nodes of the types its relation is declared for.
Fits(g, o, e) ==
  LET et == EdgeTypeOf(o, e.type)
  IN /\ et # None
     /\ e.source \in DOMAIN g.nodes /\ e.target \in DOMAIN g.nodes
     /\ g.nodes[e.source].type = et.source_type
     /\ g.nodes[e.target].type = et.target_type

AllFit(g, o) == \A i \in DOMAIN g.edges : Fits(g, o, g.edges[i])

\* The requests whose engine keeps to the ontology.
Conforming(s) == s.method = "llm" \/ PlainOntology(s.ontology)

\* Ids tell types, so that nodes of one id have one type in all shards.
Labelled(g) == \A id \in DOMAIN g.nodes : g.nodes[id].type = id[1]

MadeWell(s, g) ==
  Labelled(g) /\ (s.method = "topology" => IntegersInRange(g, s.ontology))

StoredWell(s, x) ==
  LET g == x.graph
  IN /\ MadeWell(s, g)
     /\ x.injected \in Nat
     /\ s.inject = 0 => x.injected = 0
     /\ Conforming(s) =>
          \A i \in DOMAIN g.edges : Fits(g, s.ontology, g.edges[i]) <=> i <= Len(g.edges) - x.injected

\* The requests whose shards are as large as their share of the plan, and the
\* ids of such a share.
Sized(s) == s.method # "llm" /\ (s.model = "sbm" => s.blocks = <<>>)

InShare(g, share) ==
  /\ IsFiniteSet(DOMAIN g.nodes)
  /\ \A id \in DOMAIN g.nodes : id[2] \in share.start..(share.start + Budget(share) - 1)

ShardWell ==
  /\ pc = "fill" => spec.method = "hybrid"
  /\ MadeWell(spec, shard)
  /\ Conforming(spec) => AllFit(shard, spec.ontology)
  /\ Sized(spec) => InShare(shard, plan[Len(store) + 1])

StoreWell ==
  \A k \in DOMAIN store :
    /\ StoredWell(spec, store[k])
    /\ Sized(spec) => k \in DOMAIN plan /\ InShare(store[k].graph, plan[k])

DatasetWell ==
  pc = "done" /\ spec.inject = 0 /\ Conforming(spec) => AllFit(dataset, spec.ontology)

\* Edge e carries hop k of the path.
Hop(o, e, path, k) ==
  LET from == path.hops[k][1]
      to == IF k = Len(path.hops) THEN path.terminal ELSE path.hops[k + 1][1]
  IN /\ e.id = path.hops[k][2]
     /\ \/ e.source = from /\ e.target = to
        \/ e.target = from /\ e.source = to /\ ~DirectedOf(o, e.type)

\* A simple path of graph g.
WellPath(g, o, path) ==
  /\ IsSeq(path.hops)
  /\ PathNodes(path) \subseteq DOMAIN g.nodes
  /\ \A k \in DOMAIN path.hops : \E e \in ToSet(g.edges) : Hop(o, e, path, k)
  /\ \A j, k \in DOMAIN path.hops : path.hops[j][1] = path.hops[k][1] => j = k
  /\ \A k \in DOMAIN path.hops : path.hops[k][1] # path.terminal

\* An item about such a path, whose answer names nodes of the graph.
WellItem(g, o, item) ==
  /\ WellPath(g, o, item.path) /\ item.path.hops # <<>>
  /\ EdgeIdsUnique(g.edges) /\ (\A e \in ToSet(g.edges) : ~Dangling(g, e)) =>
       \/ item.nodes # {} /\ item.nodes \subseteq DOMAIN g.nodes
       \/ item.answer = <<"exists", FALSE>>

WalkWell ==
  qa = "walk" =>
    /\ walk = [hops |-> walk.hops, at |-> walk.at, len |-> walk.len]
    /\ WellPath(dataset, spec.ontology, [hops |-> walk.hops, terminal |-> walk.at])
    /\ walk.len \in MinHops..MaxHops /\ Len(walk.hops) <= walk.len

PathsWell ==
  /\ qa = "idle" => paths = <<>>
  /\ IsSeq(paths)
  /\ \A j \in DOMAIN paths :
       WellPath(dataset, spec.ontology, paths[j]) /\ Len(paths[j].hops) \in MinHops..MaxHops
  /\ \A j, k \in DOMAIN paths : paths[j] = paths[k] => j = k

ItemsWell == \A j \in DOMAIN items : WellItem(dataset, spec.ontology, items[j])

Fixture == WalkWell /\ PathsWell /\ ItemsWell

Generation == ShardWell /\ StoreWell /\ DatasetWell /\ NoNodeLost

GraphInv == Shaped /\ Generation /\ Phases /\ Flagged /\ DegreesPreserved /\ Denials /\ Fixture

-----------------------------------------------------------------------------
(* Selecting in a sequence.                                                *)

\* A set of natural numbers has a least element.
LEMMA LeastElement ==
    ASSUME NEW T, T \subseteq Nat, T # {}
    PROVE  \E x \in T : \A y \in T : x <= y
<1> DEFINE R == OpToRel(<, Nat)
<1>1. IsWellFoundedOn(R, Nat)
  BY NatLessThanWellFounded, Zenon
<1>2. \A x, y \in Nat : <<y, x>> \in R <=> y < x
  BY DEF OpToRel
<1> HIDE DEF R
<1>3. \E x \in T : \A y \in T : ~(<<y, x>> \in R)
  BY <1>1, WFMin
<1>4. PICK x \in T : \A y \in T : ~(<<y, x>> \in R)
  BY <1>3
<1>5. \A y \in T : ~(y < x)
  BY <1>2, <1>4
<1>6. \A y \in T : x <= y
  BY <1>5
<1> QED
  BY <1>6

LEMMA MinIsIn ==
    ASSUME NEW I, I \subseteq Nat, I # {}
    PROVE  Min(I) \in I
  BY LeastElement DEF Min

\* The type found under a name is declared under it.
LEMMA FirstFound ==
    ASSUME NEW s, NEW name, First(s, name) # None
    PROVE  \E i \in 1..Len(s) : s[i] = First(s, name) /\ s[i].name = name
<1> DEFINE named == {i \in 1..Len(s) : s[i].name = name}
<1>1. First(s, name) = IF named = {} THEN None ELSE s[Min(named)]
  <2>1. SelectInSeq(s, LAMBDA x : x.name = name) = IF named = {} THEN 0 ELSE Min(named)
    BY DEF SelectInSeq
  <2>2. named \subseteq Nat /\ 0 \notin named
    OBVIOUS
  <2> HIDE DEF named
  <2>3. named # {} => Min(named) # 0
    BY <2>2, MinIsIn
  <2> QED
    BY <2>1, <2>3 DEF First
<1>2. named # {} /\ First(s, name) = s[Min(named)]
  BY <1>1
<1>3. named \subseteq Nat
  OBVIOUS
<1>4. Min(named) \in named
  <2> HIDE DEF named
  <2> QED
    BY <1>2, <1>3, MinIsIn
<1> QED
  BY <1>2, <1>4

\* Induction over natural numbers, with the property as a set.
LEMMA NatSteps ==
    ASSUME NEW Good, 0 \in Good, \A n \in Nat : n \in Good => n + 1 \in Good
    PROVE  Nat \subseteq Good
<1> SUFFICES ASSUME Nat \ Good # {} PROVE FALSE
  OBVIOUS
<1>1. PICK x \in Nat \ Good : \A y \in Nat \ Good : x <= y
  BY LeastElement
<1>2. x # 0 /\ x - 1 \in Nat
  OBVIOUS
<1>3. x - 1 \in Good
  BY <1>1, <1>2
<1> QED
  BY <1>2, <1>3

\* A nonempty set of positions has a greatest one.
LEMMA MaxIsIn ==
    ASSUME NEW n \in Nat, NEW s \in SUBSET (1..n), s # {}
    PROVE  Max(s) \in s /\ \A y \in s : Max(s) >= y
<1> DEFINE T == {n - x : x \in s}
<1>1. T \subseteq Nat /\ T # {}
  <2>1. \A x \in s : x \in 1..n /\ n - x \in Nat
    OBVIOUS
  <2>2. T \subseteq Nat
    BY <2>1
  <2>3. T # {}
    OBVIOUS
  <2> QED
    BY <2>2, <2>3
<1>2. PICK t \in T : \A y \in T : t <= y
  BY <1>1, LeastElement
<1>3. PICK x \in s : t = n - x
  OBVIOUS
<1>4. \A y \in s : x >= y
  <2> SUFFICES ASSUME NEW y \in s PROVE x >= y
    OBVIOUS
  <2>1. n - y \in T
    OBVIOUS
  <2>2. n - x <= n - y
    BY <1>2, <1>3, <2>1
  <2>3. x \in 1..n /\ y \in 1..n
    OBVIOUS
  <2> HIDE DEF T
  <2> QED
    BY <2>2, <2>3
<1> HIDE DEF T
<1> QED
  BY <1>4 DEF Max

LEMMA WithoutMax ==
    ASSUME NEW m \in Nat, NEW s \in SUBSET (1..(m + 1)), s # {}
    PROVE  s \ {Max(s)} \in SUBSET (1..m)
<1>1. Max(s) \in s /\ \A y \in s : Max(s) >= y
  <2>1. m + 1 \in Nat
    OBVIOUS
  <2> QED
    BY <2>1, MaxIsIn
<1> SUFFICES ASSUME NEW y \in s, y # Max(s) PROVE y \in 1..m
  OBVIOUS
<1>2. Max(s) \in 1..(m + 1) /\ y \in 1..(m + 1) /\ Max(s) >= y
  BY <1>1
<1> QED
  BY <1>2

-----------------------------------------------------------------------------
(* FoldLeft.  It recurses over the positions, the last one first.          *)

\* I folds the positions 1..n with the steps h.
FoldsUp(I, n, base, h) ==
  I = [s \in SUBSET (1..n) |-> IF s = {} THEN base ELSE h[<<I[s \ {Max(s)}], Max(s)>>]]

\* The recursion has a solution, if each step stays within a set.
LEMMA FoldExists ==
    ASSUME NEW n \in Nat, NEW T, NEW base \in T, NEW h \in [T \X (1..n) -> T]
    PROVE  \E I : FoldsUp(I, n, base, h)
<1> DEFINE Body(g, m) == [s \in SUBSET (1..m) |->
                            IF s = {} THEN base ELSE h[<<g[s \ {Max(s)}], Max(s)>>]]
           Good == {m \in Nat : \E g : g = Body(g, m)}
<1>1. 0 \in Good
  <2> DEFINE g == [s \in SUBSET (1..0) |-> base]
  <2>1. g = Body(g, 0)
    OBVIOUS
  <2> QED
    BY <2>1
<1>2. ASSUME NEW m \in Nat, m \in Good
      PROVE  m + 1 \in Good
  <2>1. PICK f : f = Body(f, m)
    BY <1>2
  <2> DEFINE g == [s \in SUBSET (1..(m + 1)) |->
                     IF s \in SUBSET (1..m) THEN f[s] ELSE h[<<f[s \ {Max(s)}], Max(s)>>]]
  <2>2. ASSUME NEW s \in SUBSET (1..(m + 1)), s # {}
        PROVE  s \ {Max(s)} \in SUBSET (1..m)
    BY <2>2, WithoutMax
  <2>3. ASSUME NEW s \in SUBSET (1..(m + 1))
        PROVE  g[s] = IF s = {} THEN base ELSE h[<<g[s \ {Max(s)}], Max(s)>>]
    <3>1. CASE s = {}
      BY <2>1, <3>1
    <3>2. CASE s # {}
      <4>1. g[s \ {Max(s)}] = f[s \ {Max(s)}]
        BY <2>2, <3>2
      <4>2. g[s] = h[<<f[s \ {Max(s)}], Max(s)>>]
        BY <2>1, <3>2
      <4> HIDE DEF g
      <4> QED
        BY <3>2, <4>1, <4>2
    <3> QED
      BY <3>1, <3>2
  <2>4. g = Body(g, m + 1)
    BY <2>3
  <2>5. \E q : q = Body(q, m + 1)
    <3> HIDE DEF Body, g
    <3> QED
      BY <2>4
  <2> HIDE DEF Body
  <2> QED
    BY <2>5
<1>3. n \in Good
  <2> HIDE DEF Good
  <2> QED
    BY <1>1, <1>2, NatSteps
<1> QED
  BY <1>3 DEF FoldsUp

\* What holds at first and is kept by every step holds of every part.
LEMMA FoldStays ==
    ASSUME NEW n \in Nat, NEW F, NEW T, F[{}] \in T,
           \A s \in SUBSET (1..n) : s # {} /\ F[s \ {Max(s)}] \in T => F[s] \in T
    PROVE  \A s \in SUBSET (1..n) : F[s] \in T
<1> DEFINE Good == {m \in Nat : \A s \in SUBSET (1..n) : s \subseteq 1..m => F[s] \in T}
<1>1. 0 \in Good
  <2>1. \A s \in SUBSET (1..n) : s \subseteq 1..0 => s = {}
    OBVIOUS
  <2> QED
    BY <2>1
<1>2. ASSUME NEW m \in Nat, m \in Good
      PROVE  m + 1 \in Good
  <2> SUFFICES ASSUME NEW s \in SUBSET (1..n), s \subseteq 1..(m + 1) PROVE F[s] \in T
    OBVIOUS
  <2>1. CASE s = {}
    BY <2>1
  <2>2. CASE s # {}
    <3>1. s \ {Max(s)} \in SUBSET (1..n) /\ s \ {Max(s)} \subseteq 1..m
      BY <2>2, WithoutMax
    <3> QED
      BY <1>2, <2>2, <3>1
  <2> QED
    BY <2>1, <2>2
<1>3. n \in Good
  <2> HIDE DEF Good
  <2> QED
    BY <1>1, <1>2, NatSteps
<1> QED
  BY <1>3

\* The last of the first k positions.
LEMMA LastOfPrefix ==
    ASSUME NEW k \in Nat \ {0}
    PROVE  Max(1..k) = k /\ (1..k) \ {Max(1..k)} = 1..(k - 1)
<1>1. Max(1..k) \in 1..k /\ Max(1..k) >= k
  <2>1. 1..k # {} /\ k \in 1..k
    OBVIOUS
  <2> QED
    BY <2>1, MaxIsIn
<1> QED
  BY <1>1

-----------------------------------------------------------------------------
(* The folds of the model: each stays within a set that its step keeps.    *)

\* r are the sums of the first elements of s.
SumsUp(r, s, n) ==
  r \in [0..n -> Nat] /\ r[0] = 0 /\ \A k \in 1..n : r[k] = r[k - 1] + s[k]

\* A sum of natural numbers adds one after the other.
LEMMA SumRuns ==
    ASSUME NEW s, NEW n \in Nat, DOMAIN s = 1..n, \A i \in 1..n : s[i] \in Nat
    PROVE  \E r : SumsUp(r, s, n) /\ SeqSum(s) = r[n]
<1> DEFINE T == Nat
           step(x, i) == x + s[i]
           h == [q \in T \X (1..n) |-> step(q[1], q[2])]
           Body(g) == [u \in SUBSET (1..n) |->
                         IF u = {} THEN 0 ELSE step(g[u \ {Max(u)}], Max(u))]
<1>1. \A x \in T : \A i \in 1..n : step(x, i) \in T
  OBVIOUS
<1>2. 0 \in T
  OBVIOUS
<1>3. h \in [T \X (1..n) -> T]
  <2>1. \A q \in T \X (1..n) : step(q[1], q[2]) \in T
    BY <1>1
  <2> HIDE DEF step, T
  <2> QED
    BY <2>1
<1>4. PICK I : FoldsUp(I, n, 0, h)
  <2> HIDE DEF h, T
  <2> QED
    BY <1>2, <1>3, FoldExists
<1>5. \A u \in SUBSET (1..n) : I[u] \in T
  <2>1. \A u \in SUBSET (1..n) : u # {} /\ I[u \ {Max(u)}] \in T => I[u] \in T
    <3> HIDE DEF h, T
    <3> QED
      BY <1>3, <1>4, MaxIsIn DEF FoldsUp
  <2> HIDE DEF T
  <2> QED
    BY <1>2, <1>4, <2>1, FoldStays DEF FoldsUp
<1>6. I = Body(I)
  <2>1. ASSUME NEW u \in SUBSET (1..n), u # {}
        PROVE  h[<<I[u \ {Max(u)}], Max(u)>>] = step(I[u \ {Max(u)}], Max(u))
    <3>1. I[u \ {Max(u)}] \in T /\ Max(u) \in 1..n
      BY <1>5, <2>1, MaxIsIn
    <3> HIDE DEF step, T
    <3> QED
      BY <3>1
  <2> HIDE DEF h, step, T
  <2> QED
    BY <1>4, <2>1 DEF FoldsUp
<1> DEFINE F == CHOOSE g : g = Body(g)
<1>7. F = Body(F)
  <2> HIDE DEF Body
  <2> QED
    BY <1>6
<1>8. SeqSum(s) = F[1..n]
  BY DEF SeqSum, FoldLeft, MapThenFoldSet
<1>9. \A u \in SUBSET (1..n) : F[u] \in T
  <2>1. \A u \in SUBSET (1..n) : u # {} /\ F[u \ {Max(u)}] \in T => F[u] \in T
    <3> HIDE DEF F, step, T
    <3> QED
      BY <1>1, <1>7, MaxIsIn
  <2>2. F[{}] \in T
    <3> HIDE DEF F, step, T
    <3> QED
      BY <1>2, <1>7
  <2> HIDE DEF T, F
  <2> QED
    BY <2>1, <2>2, FoldStays
<1> DEFINE r == [k \in 0..n |-> F[1..k]]
<1>10. ASSUME NEW k \in 1..n
       PROVE  r[k] = r[k - 1] + s[k]
  <2>1. Max(1..k) = k /\ (1..k) \ {Max(1..k)} = 1..(k - 1) /\ 1..k # {}
    <3>1. k \in Nat \ {0}
      OBVIOUS
    <3>2. k \in 1..k
      BY <3>1
    <3> QED
      BY <3>1, <3>2, LastOfPrefix
  <2>2. 1..k \in SUBSET (1..n) /\ k \in 0..n /\ k - 1 \in 0..n
    OBVIOUS
  <2>3. F[1..k] = F[1..(k - 1)] + s[k]
    <3>1. F[1..k] = step(F[(1..k) \ {Max(1..k)}], Max(1..k))
      <4> HIDE DEF F, step
      <4> QED
        BY <1>7, <2>1, <2>2
    <3> HIDE DEF F
    <3> QED
      BY <2>1, <3>1
  <2> HIDE DEF F
  <2> QED
    BY <2>2, <2>3
<1>11. r[0] = 0
  <2>1. 1..0 = {} /\ {} \in SUBSET (1..n)
    OBVIOUS
  <2>2. F[{}] = 0
    <3> HIDE DEF F, step
    <3> QED
      BY <1>7, <2>1
  <2> HIDE DEF F
  <2> QED
    BY <2>1, <2>2
<1>12. r \in [0..n -> Nat]
  <2>1. \A k \in 0..n : 1..k \in SUBSET (1..n)
    OBVIOUS
  <2> HIDE DEF F
  <2> QED
    BY <1>9, <2>1
<1>13. SeqSum(s) = r[n]
  <2> HIDE DEF F
  <2> QED
    BY <1>8
<1> HIDE DEF r
<1> QED
  BY <1>10, <1>11, <1>12, <1>13 DEF SumsUp

LEMMA SumStays ==
    ASSUME NEW s, NEW n \in Nat, DOMAIN s = 1..n, \A i \in 1..n : s[i] \in Nat
    PROVE  SeqSum(s) \in Nat /\ (n = 0 => SeqSum(s) = 0)
<1>1. PICK r : SumsUp(r, s, n) /\ SeqSum(s) = r[n]
  BY SumRuns
<1> QED
  BY <1>1 DEF SumsUp

\* An edge that is added is one of a set that has it under every number.
LEMMA AddStays ==
    ASSUME NEW E, NEW es \in Seq(E), NEW type, NEW source, NEW target,
           \A m \in Nat : [id |-> <<type, m>>, type |-> type, source |-> source, target |-> target] \in E
    PROVE  AddEdge(es, type, source, target) \in Seq(E)
<1>1. Len(es) \in Nat
  OBVIOUS
<1>2. [id |-> <<type, Len(es)>>, type |-> type, source |-> source, target |-> target] \in E
  BY <1>1
<1> QED
  BY <1>2 DEF AddEdge

\* Merging adds edges of the shard only.
LEMMA MergeStays ==
    ASSUME NEW E, NEW es \in Seq(E), NEW fs, NEW n \in Nat, fs \in [1..n -> E]
    PROVE  MergeEdges(es, fs) \in Seq(E)
<1> DEFINE T == Seq(E)
           step(x, i) == IF \E j \in DOMAIN x : SameSignature(x[j], fs[i]) THEN x ELSE Append(x, fs[i])
           h == [q \in T \X (1..n) |-> step(q[1], q[2])]
           Body(g) == [s \in SUBSET (1..n) |->
                         IF s = {} THEN es ELSE step(g[s \ {Max(s)}], Max(s))]
<1>1. \A x \in T : \A i \in 1..n : step(x, i) \in T
  OBVIOUS
<1>2. es \in T
  OBVIOUS
<1>3. h \in [T \X (1..n) -> T]
  <2>1. \A q \in T \X (1..n) : step(q[1], q[2]) \in T
    BY <1>1
  <2> HIDE DEF step, T
  <2> QED
    BY <2>1
<1>4. PICK I : FoldsUp(I, n, es, h)
  <2> HIDE DEF h, T
  <2> QED
    BY <1>2, <1>3, FoldExists
<1>5. \A s \in SUBSET (1..n) : I[s] \in T
  <2>1. \A s \in SUBSET (1..n) : s # {} /\ I[s \ {Max(s)}] \in T => I[s] \in T
    <3> HIDE DEF h, T
    <3> QED
      BY <1>3, <1>4, MaxIsIn DEF FoldsUp
  <2> HIDE DEF T
  <2> QED
    BY <1>2, <1>4, <2>1, FoldStays DEF FoldsUp
<1>6. I = Body(I)
  <2>1. ASSUME NEW s \in SUBSET (1..n), s # {}
        PROVE  h[<<I[s \ {Max(s)}], Max(s)>>] = step(I[s \ {Max(s)}], Max(s))
    <3>1. I[s \ {Max(s)}] \in T /\ Max(s) \in 1..n
      BY <1>5, <2>1, MaxIsIn
    <3> HIDE DEF step, T
    <3> QED
      BY <3>1
  <2> HIDE DEF h, step, T
  <2> QED
    BY <1>4, <2>1 DEF FoldsUp
<1> DEFINE F == CHOOSE g : g = Body(g)
<1>7. F = Body(F)
  <2> HIDE DEF Body
  <2> QED
    BY <1>6
<1>8. MergeEdges(es, fs) = F[1..n]
  BY DEF MergeEdges, FoldLeft, MapThenFoldSet
<1>9. \A s \in SUBSET (1..n) : F[s] \in T
  <2>1. \A s \in SUBSET (1..n) : s # {} /\ F[s \ {Max(s)}] \in T => F[s] \in T
    <3> HIDE DEF F, step, T
    <3> QED
      BY <1>1, <1>7, MaxIsIn
  <2>2. F[{}] \in T
    <3> HIDE DEF F, step, T
    <3> QED
      BY <1>2, <1>7
  <2> HIDE DEF T, F
  <2> QED
    BY <2>1, <2>2, FoldStays
<1> QED
  <2> HIDE DEF F
  <2> QED
    BY <1>8, <1>9

\* The assembled edges are edges of the shards.
LEMMA AssembledStays ==
    ASSUME NEW E, NEW st, NEW n \in Nat, DOMAIN st = 1..n,
           \A k \in 1..n : st[k].graph.edges \in Seq(E)
    PROVE  FoldLeft(LAMBDA es, s : MergeEdges(es, s.graph.edges), <<>>, st) \in Seq(E)
<1> DEFINE T == Seq(E)
           step(x, i) == MergeEdges(x, st[i].graph.edges)
           h == [q \in T \X (1..n) |-> step(q[1], q[2])]
           Body(g) == [s \in SUBSET (1..n) |->
                         IF s = {} THEN <<>> ELSE step(g[s \ {Max(s)}], Max(s))]
<1>1. \A x \in T : \A i \in 1..n : step(x, i) \in T
  <2>1. ASSUME NEW x \in T, NEW i \in 1..n
        PROVE  step(x, i) \in T
    <3> DEFINE fs == st[i].graph.edges
    <3>1. Len(fs) \in Nat /\ fs \in [1..Len(fs) -> E]
      OBVIOUS
    <3> HIDE DEF fs
    <3>2. MergeEdges(x, fs) \in Seq(E)
      BY <3>1, MergeStays
    <3> QED
      BY <3>2 DEF fs
  <2> QED
    BY <2>1
<1>2. <<>> \in T
  OBVIOUS
<1>3. h \in [T \X (1..n) -> T]
  <2>1. \A q \in T \X (1..n) : step(q[1], q[2]) \in T
    BY <1>1
  <2> HIDE DEF step, T
  <2> QED
    BY <2>1
<1>4. PICK I : FoldsUp(I, n, <<>>, h)
  <2> HIDE DEF h, T
  <2> QED
    BY <1>2, <1>3, FoldExists
<1>5. \A s \in SUBSET (1..n) : I[s] \in T
  <2>1. \A s \in SUBSET (1..n) : s # {} /\ I[s \ {Max(s)}] \in T => I[s] \in T
    <3> HIDE DEF h, T
    <3> QED
      BY <1>3, <1>4, MaxIsIn DEF FoldsUp
  <2> HIDE DEF T
  <2> QED
    BY <1>2, <1>4, <2>1, FoldStays DEF FoldsUp
<1>6. I = Body(I)
  <2>1. ASSUME NEW s \in SUBSET (1..n), s # {}
        PROVE  h[<<I[s \ {Max(s)}], Max(s)>>] = step(I[s \ {Max(s)}], Max(s))
    <3>1. I[s \ {Max(s)}] \in T /\ Max(s) \in 1..n
      BY <1>5, <2>1, MaxIsIn
    <3> HIDE DEF step, T
    <3> QED
      BY <3>1
  <2> HIDE DEF h, step, T
  <2> QED
    BY <1>4, <2>1 DEF FoldsUp
<1> DEFINE F == CHOOSE g : g = Body(g)
<1>7. F = Body(F)
  <2> HIDE DEF Body
  <2> QED
    BY <1>6
<1>8. FoldLeft(LAMBDA es, s : MergeEdges(es, s.graph.edges), <<>>, st) = F[1..n]
  BY DEF FoldLeft, MapThenFoldSet
<1>9. \A s \in SUBSET (1..n) : F[s] \in T
  <2>1. \A s \in SUBSET (1..n) : s # {} /\ F[s \ {Max(s)}] \in T => F[s] \in T
    <3> HIDE DEF F, step, T
    <3> QED
      BY <1>1, <1>7, MaxIsIn
  <2>2. F[{}] \in T
    <3> HIDE DEF F, step, T
    <3> QED
      BY <1>2, <1>7
  <2> HIDE DEF T, F
  <2> QED
    BY <2>1, <2>2, FoldStays
<1> QED
  <2> HIDE DEF F
  <2> QED
    BY <1>8, <1>9

\* SetToSeq lists a finite set.
LEMMA Listing ==
    ASSUME NEW P, IsFiniteSet(P)
    PROVE  Cardinality(P) \in Nat /\ SetToSeq(P) \in [1..Cardinality(P) -> P]
<1>1. Cardinality(P) \in Nat /\ ExistsBijection(1..Cardinality(P), P)
  BY FS_CardinalityType
<1>2. PICK f : f \in Bijection(1..Cardinality(P), P)
  BY <1>1 DEF ExistsBijection
<1>3. f \in [1..Cardinality(P) -> P] /\ IsInjective(f)
  BY <1>2 DEF Bijection, Injection, IsInjective
<1>4. \E g \in [1..Cardinality(P) -> P] : IsInjective(g)
  BY <1>3
<1> QED
  BY <1>1, <1>4 DEF SetToSeq

\* What map_edges makes of each pair, it makes of all.
LEMMA MapStays ==
    ASSUME NEW E, NEW ids, NEW types, NEW pairs, NEW n \in Nat, EdgeOrder(pairs) \in [1..n -> pairs],
           \A es \in Seq(E) : \A p \in pairs : MapEdge(es, ids, types, p[1], p[2]) \in Seq(E)
    PROVE  MapEdges(ids, types, pairs) \in Seq(E)
<1> DEFINE T == Seq(E)
           step(x, i) == MapEdge(x, ids, types, EdgeOrder(pairs)[i][1], EdgeOrder(pairs)[i][2])
           h == [q \in T \X (1..n) |-> step(q[1], q[2])]
           Body(g) == [s \in SUBSET (1..n) |->
                         IF s = {} THEN <<>> ELSE step(g[s \ {Max(s)}], Max(s))]
<1>1. \A x \in T : \A i \in 1..n : step(x, i) \in T
  OBVIOUS
<1>2. <<>> \in T
  OBVIOUS
<1>3. h \in [T \X (1..n) -> T]
  <2>1. \A q \in T \X (1..n) : step(q[1], q[2]) \in T
    BY <1>1
  <2> HIDE DEF step, T
  <2> QED
    BY <2>1
<1>4. PICK I : FoldsUp(I, n, <<>>, h)
  <2> HIDE DEF h, T
  <2> QED
    BY <1>2, <1>3, FoldExists
<1>5. \A s \in SUBSET (1..n) : I[s] \in T
  <2>1. \A s \in SUBSET (1..n) : s # {} /\ I[s \ {Max(s)}] \in T => I[s] \in T
    <3> HIDE DEF h, T
    <3> QED
      BY <1>3, <1>4, MaxIsIn DEF FoldsUp
  <2> HIDE DEF T
  <2> QED
    BY <1>2, <1>4, <2>1, FoldStays DEF FoldsUp
<1>6. I = Body(I)
  <2>1. ASSUME NEW s \in SUBSET (1..n), s # {}
        PROVE  h[<<I[s \ {Max(s)}], Max(s)>>] = step(I[s \ {Max(s)}], Max(s))
    <3>1. I[s \ {Max(s)}] \in T /\ Max(s) \in 1..n
      BY <1>5, <2>1, MaxIsIn
    <3> HIDE DEF step, T
    <3> QED
      BY <3>1
  <2> HIDE DEF h, step, T
  <2> QED
    BY <1>4, <2>1 DEF FoldsUp
<1> DEFINE F == CHOOSE g : g = Body(g)
<1>7. F = Body(F)
  <2> HIDE DEF Body
  <2> QED
    BY <1>6
<1>8. MapEdges(ids, types, pairs) = F[1..n]
  BY DEF MapEdges, FoldLeft, MapThenFoldSet
<1>9. \A s \in SUBSET (1..n) : F[s] \in T
  <2>1. \A s \in SUBSET (1..n) : s # {} /\ F[s \ {Max(s)}] \in T => F[s] \in T
    <3> HIDE DEF F, step, T
    <3> QED
      BY <1>1, <1>7, MaxIsIn
  <2>2. F[{}] \in T
    <3> HIDE DEF F, step, T
    <3> QED
      BY <1>2, <1>7
  <2> HIDE DEF T, F
  <2> QED
    BY <2>1, <2>2, FoldStays
<1> QED
  <2> HIDE DEF F
  <2> QED
    BY <1>8, <1>9

\* What one swap keeps, all keep.
LEMMA SwappedStays ==
    ASSUME NEW es, NEW k \in Nat, NEW U, es \in U,
           \A f \in U : \A p \in (DOMAIN es) \X (DOMAIN es) : Swap(f, p[1], p[2]) \in U
    PROVE  Swapped(es, k) \subseteq U
<1> DEFINE T == SUBSET U
           step(x, i) == UNION {{Swap(f, p[1], p[2]) :
                                       p \in {q \in (DOMAIN es) \X (DOMAIN es) : q[1] # q[2]}} : f \in x}
           h == [q \in T \X (1..k) |-> step(q[1], q[2])]
           Body(g) == [s \in SUBSET (1..k) |->
                         IF s = {} THEN {es} ELSE step(g[s \ {Max(s)}], Max(s))]
<1>1. \A x \in T : \A i \in 1..k : step(x, i) \in T
  OBVIOUS
<1>2. {es} \in T
  OBVIOUS
<1>3. h \in [T \X (1..k) -> T]
  <2>1. \A q \in T \X (1..k) : step(q[1], q[2]) \in T
    BY <1>1
  <2> HIDE DEF step, T
  <2> QED
    BY <2>1
<1>4. PICK I : FoldsUp(I, k, {es}, h)
  <2> HIDE DEF h, T
  <2> QED
    BY <1>2, <1>3, FoldExists
<1>5. \A s \in SUBSET (1..k) : I[s] \in T
  <2>1. \A s \in SUBSET (1..k) : s # {} /\ I[s \ {Max(s)}] \in T => I[s] \in T
    <3> HIDE DEF h, T
    <3> QED
      BY <1>3, <1>4, MaxIsIn DEF FoldsUp
  <2> HIDE DEF T
  <2> QED
    BY <1>2, <1>4, <2>1, FoldStays DEF FoldsUp
<1>6. I = Body(I)
  <2>1. ASSUME NEW s \in SUBSET (1..k), s # {}
        PROVE  h[<<I[s \ {Max(s)}], Max(s)>>] = step(I[s \ {Max(s)}], Max(s))
    <3>1. I[s \ {Max(s)}] \in T /\ Max(s) \in 1..k
      BY <1>5, <2>1, MaxIsIn
    <3> HIDE DEF step, T
    <3> QED
      BY <3>1
  <2> HIDE DEF h, step, T
  <2> QED
    BY <1>4, <2>1 DEF FoldsUp
<1> DEFINE F == CHOOSE g : g = Body(g)
<1>7. F = Body(F)
  <2> HIDE DEF Body
  <2> QED
    BY <1>6
<1>8. Swapped(es, k) = F[1..k]
  BY DEF Swapped, FoldLeft, MapThenFoldSet
<1>9. \A s \in SUBSET (1..k) : F[s] \in T
  <2>1. ASSUME NEW s \in SUBSET (1..k), s # {}, F[s \ {Max(s)}] \in T
        PROVE  F[s] \in T
    <3>1. Max(s) \in 1..k
      BY <2>1, MaxIsIn
    <3> HIDE DEF F, step, T
    <3>2. F[s] = step(F[s \ {Max(s)}], Max(s))
      BY <1>7, <2>1
    <3> QED
      BY <1>1, <2>1, <3>1, <3>2
  <2>2. F[{}] \in T
    <3> HIDE DEF F, step, T
    <3> QED
      BY <1>2, <1>7
  <2> HIDE DEF T, F
  <2> QED
    BY <2>1, <2>2, FoldStays
<1> QED
  <2> HIDE DEF F
  <2> QED
    BY <1>8, <1>9

-----------------------------------------------------------------------------
(* Lists.                                                                  *)

LEMMA SeqParts ==
    ASSUME NEW s, IsSeq(s)
    PROVE  Len(s) \in Nat /\ DOMAIN s = 1..Len(s)
  BY DEF IsSeq

LEMMA EmptySeqIs == IsSeq(<<>>)
<1>1. <<>> \in Seq({})
  OBVIOUS
<1> QED
  BY <1>1 DEF IsSeq

\* A function over the first positions is a list.
LEMMA FunctionSeq ==
    ASSUME NEW f, NEW n \in Nat, f = [i \in 1..n |-> f[i]]
    PROVE  IsSeq(f) /\ Len(f) = n
<1> DEFINE S == {f[i] : i \in 1..n}
<1>1. f \in [1..n -> S]
  OBVIOUS
<1>2. f \in Seq(S) /\ Len(f) = n
  <2> HIDE DEF S
  <2> QED
    BY <1>1
<1> QED
  BY <1>2 DEF IsSeq

LEMMA ConcatSeq ==
    ASSUME NEW s, NEW t, IsSeq(s), IsSeq(t)
    PROVE  /\ IsSeq(s \o t) /\ Len(s \o t) = Len(s) + Len(t)
           /\ \A i \in DOMAIN (s \o t) :
                (s \o t)[i] = IF i <= Len(s) THEN s[i] ELSE t[i - Len(s)]
<1>1. PICK S : s \in Seq(S)
  BY DEF IsSeq
<1>2. PICK T : t \in Seq(T)
  BY DEF IsSeq
<1>3. s \in Seq(S \cup T) /\ t \in Seq(S \cup T)
  BY <1>1, <1>2
<1>4. s \o t \in Seq(S \cup T)
  BY <1>3
<1> QED
  BY <1>3, <1>4 DEF IsSeq

-----------------------------------------------------------------------------
(* The topology engine.                                                    *)

\* What map_edges adds for two nodes with a relation between their types.
Links(types) ==
  {q \in (DOMAIN types) \X (DOMAIN types) : EdgeIndex(types[q[1]], types[q[2]]) # None}
LinkEdge(ids, types, q, m) ==
  LET t == EdgeIndex(types[q[1]], types[q[2]]).name
  IN [id |-> <<t, m>>, type |-> t, source |-> ids[q[1]], target |-> ids[q[2]]]
LinkEdges(ids, types) == {LinkEdge(ids, types, q, m) : q \in Links(types), m \in Nat}

LEMMA SizeIsNat ==
    ASSUME spec \in Specs, NEW count \in Nat \ {0}
    PROVE  TopologySize(count) \in Nat
<1>1. CASE spec.model # "sbm"
  BY <1>1 DEF TopologySize
<1>2. CASE spec.model = "sbm" /\ spec.blocks # <<>>
  <2>1. spec.blocks \in Seq(Nat \ {0})
    BY SpecsAssumption
  <2>2. Len(spec.blocks) \in Nat /\ DOMAIN spec.blocks = 1..Len(spec.blocks)
        /\ \A i \in 1..Len(spec.blocks) : spec.blocks[i] \in Nat
    BY <2>1
  <2>3. SeqSum(spec.blocks) \in Nat
    BY <2>2, SumStays
  <2> QED
    BY <1>2, <2>3 DEF TopologySize, SbmSizes
<1>3. CASE spec.model = "sbm" /\ spec.blocks = <<>>
  <2> DEFINE b == IF count < 3 THEN count ELSE 3
             sizes == [i \in 1..b |-> (count \div b) + (IF i <= count % b THEN 1 ELSE 0)]
  <2>1. b \in Nat \ {0}
    OBVIOUS
  <2>2. \A i \in 1..b : sizes[i] \in Nat
    <3> HIDE DEF b
    <3> QED
      BY <2>1
  <2>3. SeqSum(sizes) \in Nat
    <3>1. DOMAIN sizes = 1..b
      OBVIOUS
    <3> HIDE DEF sizes, b
    <3> QED
      BY <2>1, <2>2, <3>1, SumStays
  <2> QED
    BY <1>3, <2>3 DEF TopologySize, SbmSizes
<1> QED
  BY <1>1, <1>2, <1>3

LEMMA AssignedNodes ==
    ASSUME NEW count, NEW types \in Assignments(count)
    PROVE  DOMAIN types = 0..(TopologySize(count) - 1)
<1>1. CASE spec.model = "sbm"
  BY <1>1 DEF Assignments
<1>2. CASE spec.model = "lfr"
  BY <1>2 DEF Assignments
<1>3. CASE spec.model \notin {"sbm", "lfr"}
  BY <1>3 DEF Assignments
<1> QED
  BY <1>1, <1>2, <1>3

\* Every edge of the topology engine is the edge of such a pair.
LEMMA TopologyEdges ==
    ASSUME spec \in Specs, NEW count \in Nat \ {0}, NEW types \in Assignments(count),
           NEW pairs \in SUBSET Pairs(TopologySize(count)), NEW ids
    PROVE  MapEdges(ids, types, pairs) \in Seq(LinkEdges(ids, types))
<1> DEFINE N == TopologySize(count)
           E == LinkEdges(ids, types)
<1>1. N \in Nat /\ DOMAIN types = 0..(N - 1)
  BY SizeIsNat, AssignedNodes
<1> HIDE DEF N
<1>2. IsFiniteSet(pairs)
  <2>1. IsFiniteSet(0..(N - 1))
    BY <1>1, FS_Interval
  <2>2. IsFiniteSet((0..(N - 1)) \X (0..(N - 1)))
    BY <2>1, FS_Product
  <2> QED
    BY <2>2, FS_Subset DEF Pairs, N
<1>3. Cardinality(pairs) \in Nat /\ EdgeOrder(pairs) \in [1..Cardinality(pairs) -> pairs]
  BY <1>2, Listing DEF EdgeOrder
<1>4. ASSUME NEW es \in Seq(E), NEW u \in DOMAIN types, NEW v \in DOMAIN types,
             EdgeIndex(types[u], types[v]) # None
      PROVE  AddEdge(es, EdgeIndex(types[u], types[v]).name, ids[u], ids[v]) \in Seq(E)
  <2> DEFINE t == EdgeIndex(types[u], types[v]).name
  <2>1. <<u, v>> \in Links(types)
    BY <1>4 DEF Links
  <2>2. ASSUME NEW m \in Nat
        PROVE  [id |-> <<t, m>>, type |-> t, source |-> ids[u], target |-> ids[v]] \in E
    <3>1. LinkEdge(ids, types, <<u, v>>, m)
            = [id |-> <<t, m>>, type |-> t, source |-> ids[u], target |-> ids[v]]
      BY DEF LinkEdge
    <3> QED
      BY <2>1, <3>1 DEF LinkEdges
  <2> HIDE DEF t, E
  <2>3. AddEdge(es, t, ids[u], ids[v]) \in Seq(E)
    BY <2>2, AddStays
  <2> QED
    BY <2>3 DEF t
<1>5. ASSUME NEW es \in Seq(E), NEW p \in pairs
      PROVE  MapEdge(es, ids, types, p[1], p[2]) \in Seq(E)
  <2>1. p[1] \in DOMAIN types /\ p[2] \in DOMAIN types
    BY <1>1 DEF Pairs, N
  <2> HIDE DEF E
  <2> QED
    BY <1>4, <2>1 DEF MapEdge
<1> HIDE DEF E
<1>6. MapEdges(ids, types, pairs) \in Seq(E)
  BY <1>3, <1>5, MapStays
<1> QED
  BY <1>6 DEF E

-----------------------------------------------------------------------------
(* Lists of edges.                                                         *)

LEMMA SomeEdges ==
    ASSUME NEW E, NEW es \in Seq(E), \A e \in E : IsEdge(e)
    PROVE  IsEdges(es)
<1>1. \A i \in DOMAIN es : es[i] \in E
  OBVIOUS
<1> QED
  BY <1>1 DEF IsEdges, IsSeq

LEMMA NoEdges == IsEdges(<<>>)
  BY EmptySeqIs DEF IsEdges

LEMMA RetargetedEdges ==
    ASSUME NEW es, NEW targets, IsEdges(es)
    PROVE  IsEdges(Retarget(es, targets))
<1>1. Len(es) \in Nat /\ DOMAIN es = 1..Len(es)
  BY SeqParts DEF IsEdges
<1>2. \A i \in DOMAIN es : IsEdge(Retarget(es, targets)[i])
  BY DEF Retarget, IsEdge, IsEdges
<1>3. DOMAIN Retarget(es, targets) = DOMAIN es
  BY DEF Retarget
<1>4. Retarget(es, targets) = [i \in 1..Len(es) |-> Retarget(es, targets)[i]]
  BY <1>1 DEF Retarget
<1>5. IsSeq(Retarget(es, targets))
  BY <1>1, <1>4, FunctionSeq
<1> QED
  BY <1>2, <1>3, <1>5 DEF IsEdges

\* Every position up to its size is the rank of a member.
LEMMA Ranked ==
    ASSUME NEW I, IsFiniteSet(I), I \subseteq Nat
    PROVE  \A k \in 1..Cardinality(I) : \E i \in I : Cardinality({j \in I : j <= i}) = k
<1> DEFINE Upto(i) == {j \in I : j <= i}
           rank == [i \in I |-> Cardinality(Upto(i))]
           R == {rank[i] : i \in I}
<1>1. Cardinality(I) \in Nat
  BY FS_CardinalityType
<1>2. \A i \in I : IsFiniteSet(Upto(i)) /\ Cardinality(Upto(i)) \in Nat
                   /\ Cardinality(Upto(i)) <= Cardinality(I) /\ Cardinality(Upto(i)) # 0
  <2> SUFFICES ASSUME NEW i \in I
               PROVE  /\ IsFiniteSet(Upto(i)) /\ Cardinality(Upto(i)) \in Nat
                      /\ Cardinality(Upto(i)) <= Cardinality(I) /\ Cardinality(Upto(i)) # 0
    OBVIOUS
  <2>1. Upto(i) \in SUBSET I /\ i \in Upto(i)
    OBVIOUS
  <2> HIDE DEF Upto
  <2>2. IsFiniteSet(Upto(i)) /\ Cardinality(Upto(i)) <= Cardinality(I)
    BY <2>1, FS_Subset
  <2> QED
    BY <2>1, <2>2, FS_CardinalityType, FS_EmptySet
<1>3. \A i, j \in I : i < j => Cardinality(Upto(i)) # Cardinality(Upto(j))
  <2> SUFFICES ASSUME NEW i \in I, NEW j \in I, i < j, Cardinality(Upto(i)) = Cardinality(Upto(j))
               PROVE  FALSE
    OBVIOUS
  <2>0. i < j
    OBVIOUS
  <2>1. Upto(i) \in SUBSET Upto(j) /\ j \in Upto(j) /\ j \notin Upto(i)
    <3>1. i \in Nat /\ j \in Nat /\ \A q \in I : q \in Nat
      OBVIOUS
    <3>2. \A q \in I : q <= i => q <= j
      BY <2>0, <3>1
    <3>3. j \in Upto(j) /\ j \notin Upto(i)
      BY <2>0, <3>1
    <3> QED
      BY <3>2, <3>3
  <2>2. Upto(j) = Upto(i)
    <3> HIDE DEF Upto
    <3> QED
      BY <1>2, <2>1, FS_Subset
  <2> QED
    BY <2>1, <2>2
<1>4. \A i, j \in I : rank[i] = rank[j] => i = j
  <2> HIDE DEF Upto
  <2> QED
    BY <1>3, I \subseteq Nat
<1>5. rank \in Bijection(I, R)
  <2>1. rank \in [I -> R]
    BY Zenon
  <2>2. \A y \in R : \E i \in I : rank[i] = y
    BY Zenon
  <2> HIDE DEF rank, R
  <2> QED
    BY <1>4, <2>1, <2>2 DEF Bijection, Injection, Surjection, IsInjective
<1>6. IsFiniteSet(R) /\ Cardinality(R) = Cardinality(I)
  <2> HIDE DEF rank, R
  <2> QED
    BY <1>5, FS_Bijection DEF ExistsBijection
<1>7. R \subseteq 1..Cardinality(I)
  <2> HIDE DEF Upto
  <2> QED
    BY <1>1, <1>2
<1>8. IsFiniteSet(1..Cardinality(I)) /\ Cardinality(1..Cardinality(I)) = Cardinality(I)
  BY <1>1, FS_Interval
<1>9. R = 1..Cardinality(I)
  <2> HIDE DEF R
  <2> QED
    BY <1>6, <1>7, <1>8, FS_Subset
<1> QED
  BY <1>9

LEMMA ChosenEdges ==
    ASSUME NEW es, IsEdges(es), NEW I \in SUBSET DOMAIN es
    PROVE  IsEdges(Entries(es, I))
<1>1. Len(es) \in Nat /\ DOMAIN es = 1..Len(es)
  BY SeqParts DEF IsEdges
<1>2. IsFiniteSet(I)
  <2>1. IsFiniteSet(1..Len(es))
    BY <1>1, FS_Interval
  <2> QED
    BY <1>1, <2>1, FS_Subset
<1>3. Cardinality(I) \in Nat /\ ExistsBijection(1..Cardinality(I), I)
  BY <1>2, FS_CardinalityType
<1>4. Entries(es, I) = [k \in 1..Cardinality(I) |-> Entries(es, I)[k]]
  BY DEF Entries
<1>5. IsSeq(Entries(es, I))
  BY <1>3, <1>4, FunctionSeq
<1>6. ASSUME NEW k \in DOMAIN Entries(es, I)
      PROVE  IsEdge(Entries(es, I)[k])
  <2>1. \E i \in I : Cardinality({j \in I : j <= i}) = k
    <3>1. I \subseteq Nat
      BY <1>1
    <3>2. k \in 1..Cardinality(I)
      BY <1>4
    <3>3. \A m \in 1..Cardinality(I) : \E i \in I : Cardinality({j \in I : j <= i}) = m
      BY <1>2, <3>1, Ranked
    <3> QED
      BY <3>2, <3>3
  <2>2. \E i \in I : Entries(es, I)[k] = es[i]
    BY <2>1 DEF Entries
  <2> QED
    BY <2>2 DEF IsEdges
<1> QED
  BY <1>5, <1>6 DEF IsEdges

LEMMA AddedIs ==
    ASSUME NEW es, IsEdges(es), NEW type, NEW source, NEW target
    PROVE  \A i \in DOMAIN AddEdge(es, type, source, target) :
             LET f == AddEdge(es, type, source, target)[i]
             IN \/ \E j \in DOMAIN es : f = es[j]
                \/ f.type = type /\ f.source = source /\ f.target = target
<1> DEFINE e == [id |-> <<type, Len(es)>>, type |-> type, source |-> source, target |-> target]
<1>1. e.type = type /\ e.source = source /\ e.target = target
  OBVIOUS
<1>2. AddEdge(es, type, source, target) \in {es, Append(es, e)}
  BY DEF AddEdge
<1> HIDE DEF e
<1>3. PICK S : es \in Seq(S)
  BY DEF IsEdges, IsSeq
<1>4. es \in Seq(S \cup {e}) /\ Append(es, e) \in Seq(S \cup {e})
  BY <1>3
<1>5. \A i \in DOMAIN Append(es, e) : (i \in DOMAIN es /\ Append(es, e)[i] = es[i]) \/ Append(es, e)[i] = e
  BY <1>4
<1> QED
  BY <1>1, <1>2, <1>5

LEMMA AddedEdges ==
    ASSUME NEW es, IsEdges(es), NEW type, NEW source, NEW target
    PROVE  IsEdges(AddEdge(es, type, source, target))
<1> DEFINE e == [id |-> <<type, Len(es)>>, type |-> type, source |-> source, target |-> target]
<1>1. IsEdge(e)
  BY DEF IsEdge
<1>2. AddEdge(es, type, source, target) \in {es, Append(es, e)}
  BY DEF AddEdge
<1> HIDE DEF e
<1>3. PICK S : es \in Seq(S)
  BY DEF IsEdges, IsSeq
<1>4. es \in Seq(S \cup {e}) /\ Append(es, e) \in Seq(S \cup {e})
  BY <1>3
<1>5. \A i \in DOMAIN Append(es, e) : (i \in DOMAIN es /\ Append(es, e)[i] = es[i]) \/ Append(es, e)[i] = e
  BY <1>4
<1>6. IsEdges(Append(es, e))
  BY <1>1, <1>4, <1>5 DEF IsEdges, IsSeq
<1> QED
  BY <1>2, <1>6

-----------------------------------------------------------------------------
(* Degree-preserving rewiring.                                             *)

\* How many elements satisfy a condition does not change when two are swapped.
LEMMA SwappedCount ==
    ASSUME NEW D, IsFiniteSet(D), NEW a \in D, NEW b \in D,
           NEW I \in SUBSET D, NEW J \in SUBSET D,
           \A i \in D : i \in J <=> (IF i = a THEN b ELSE IF i = b THEN a ELSE i) \in I
    PROVE  Cardinality(J) = Cardinality(I)
<1> DEFINE other(i) == IF i = a THEN b ELSE IF i = b THEN a ELSE i
           f == [i \in J |-> other(i)]
<1>1. \A i \in D : other(i) \in D /\ other(other(i)) = i
  OBVIOUS
<1>2. f \in [J -> I]
  OBVIOUS
<1>3. \A y \in I : other(y) \in J /\ f[other(y)] = y
  <2> SUFFICES ASSUME NEW y \in I PROVE other(y) \in J /\ f[other(y)] = y
    OBVIOUS
  <2>1. other(y) \in D /\ other(other(y)) = y
    BY <1>1
  <2>2. other(y) \in J
    BY <2>1
  <2> QED
    BY <2>1, <2>2
<1>4. \A x, y \in J : f[x] = f[y] => x = y
  OBVIOUS
<1>5. f \in Bijection(J, I)
  <2> HIDE DEF f, other
  <2> QED
    BY <1>2, <1>3, <1>4 DEF Bijection, Injection, Surjection, IsInjective
<1>6. IsFiniteSet(J)
  BY FS_Subset
<1> QED
  <2> HIDE DEF f
  <2> QED
    BY <1>5, <1>6, FS_Bijection DEF ExistsBijection

\* The edges of es with the targets of others.
Crossed(es) ==
  {[id |-> es[i].id, type |-> es[i].type, source |-> es[i].source, target |-> es[j].target] :
     i \in DOMAIN es, j \in DOMAIN es}

\* The lists that differ from es in their targets only, and give every node the
\* in-degree es gives it.
AlikeEdges(es) ==
  {f \in [DOMAIN es -> Crossed(es)] :
     /\ \A i \in DOMAIN es : f[i].id = es[i].id /\ f[i].type = es[i].type /\ f[i].source = es[i].source
     /\ \A node : InDegree(f, node) = InDegree(es, node)}

LEMMA SwapAlike ==
    ASSUME NEW es, IsEdges(es), NEW f \in AlikeEdges(es), NEW a \in DOMAIN es, NEW b \in DOMAIN es
    PROVE  Swap(f, a, b) \in AlikeEdges(es)
<1> DEFINE D == DOMAIN es
           other(i) == IF i = a THEN b ELSE IF i = b THEN a ELSE i
           g == Swap(f, a, b)
<1>1. /\ f \in [D -> Crossed(es)]
      /\ \A i \in D : f[i].id = es[i].id /\ f[i].type = es[i].type /\ f[i].source = es[i].source
      /\ \A node : InDegree(f, node) = InDegree(es, node)
  BY DEF AlikeEdges
<1>2. \A i \in D : \E j \in D : f[i] = [id |-> es[i].id, type |-> es[i].type,
                                     source |-> es[i].source, target |-> es[j].target]
  <2> SUFFICES ASSUME NEW i \in D
               PROVE  \E j \in D : f[i] = [id |-> es[i].id, type |-> es[i].type,
                                         source |-> es[i].source, target |-> es[j].target]
    OBVIOUS
  <2>1. f[i] \in Crossed(es)
    BY <1>1
  <2>2. PICK k \in D, j \in D : f[i] = [id |-> es[k].id, type |-> es[k].type,
                                       source |-> es[k].source, target |-> es[j].target]
    BY <2>1 DEF Crossed
  <2>3. f[i].id = es[i].id /\ f[i].type = es[i].type /\ f[i].source = es[i].source
    BY <1>1
  <2>4. es[k].id = es[i].id /\ es[k].type = es[i].type /\ es[k].source = es[i].source
    BY <2>2, <2>3
  <2> QED
    BY <2>2, <2>4
<1>3. DOMAIN g = D /\ \A i \in D : g[i] = [id |-> es[i].id, type |-> es[i].type,
                                         source |-> es[i].source, target |-> f[other(i)].target]
  <2>1. DOMAIN f = D
    BY <1>1
  <2>2. DOMAIN g = D
    BY <2>1 DEF Swap
  <2> SUFFICES ASSUME NEW i \in D
               PROVE  g[i] = [id |-> es[i].id, type |-> es[i].type,
                              source |-> es[i].source, target |-> f[other(i)].target]
    BY <2>2
  <2>3. PICK j \in D : f[i] = [id |-> es[i].id, type |-> es[i].type,
                              source |-> es[i].source, target |-> es[j].target]
    BY <1>2
  <2>4. g[i] = IF i \in {a, b} THEN [f[i] EXCEPT !.target = f[other(i)].target] ELSE f[i]
    <3>1. CASE i = b
      BY <2>1, <3>1 DEF Swap
    <3>2. CASE i # b
      BY <2>1, <3>2 DEF Swap
    <3> QED
      BY <3>1, <3>2
  <2> HIDE DEF g
  <2> QED
    BY <2>3, <2>4
<1>4. \A i \in D : other(i) \in D
  OBVIOUS
<1>5. \A i \in D : \E j \in D : f[i].target = es[j].target
  <2> SUFFICES ASSUME NEW i \in D PROVE \E j \in D : f[i].target = es[j].target
    OBVIOUS
  <2>1. PICK j \in D : f[i] = [id |-> es[i].id, type |-> es[i].type,
                              source |-> es[i].source, target |-> es[j].target]
    BY <1>2
  <2> QED
    BY <2>1
<1>6. \A i \in D : g[i] \in Crossed(es)
  <2> SUFFICES ASSUME NEW i \in D PROVE g[i] \in Crossed(es)
    OBVIOUS
  <2>1. PICK j \in D : f[other(i)].target = es[j].target
    BY <1>4, <1>5
  <2> HIDE DEF g, other
  <2> QED
    BY <1>3, <2>1 DEF Crossed
<1>7. g \in [D -> Crossed(es)]
  <2>1. g = [i \in D |-> g[i]]
    BY <1>1 DEF Swap
  <2> HIDE DEF g
  <2> QED
    BY <1>6, <2>1
<1>8. IsFiniteSet(D)
  <2>1. Len(es) \in Nat /\ D = 1..Len(es)
    BY SeqParts DEF IsEdges
  <2> QED
    BY <2>1, FS_Interval
<1>9. ASSUME NEW node
      PROVE  InDegree(g, node) = InDegree(f, node)
  <2> DEFINE I == {i \in D : f[i].target = node}
             J == {i \in D : g[i].target = node}
  <2>1. \A i \in D : i \in J <=> other(i) \in I
    <3> HIDE DEF g, other
    <3> QED
      BY <1>3, <1>4
  <2>2. I \in SUBSET D /\ J \in SUBSET D
    OBVIOUS
  <2> HIDE DEF I, J, g
  <2>3. Cardinality(J) = Cardinality(I)
    BY <1>8, <2>1, <2>2, SwappedCount
  <2>4. DOMAIN f = D /\ DOMAIN g = D
    BY <1>1, <1>3
  <2> QED
    BY <2>3, <2>4 DEF InDegree, I, J
<1>10. \A node : InDegree(g, node) = InDegree(es, node)
  <2> HIDE DEF g
  <2> QED
    BY <1>1, <1>9
<1>11. \A i \in D : g[i].id = es[i].id /\ g[i].type = es[i].type /\ g[i].source = es[i].source
  <2> HIDE DEF g
  <2> QED
    BY <1>3
<1> HIDE DEF g
<1>12. g \in AlikeEdges(es)
  BY <1>7, <1>10, <1>11 DEF AlikeEdges
<1> QED
  BY <1>12 DEF g

LEMMA SwapsAlike ==
    ASSUME NEW es, IsEdges(es), NEW k \in Nat
    PROVE  Swapped(es, k) \subseteq AlikeEdges(es)
<1>1. es \in AlikeEdges(es)
  <2>1. \A i \in DOMAIN es : es[i] \in Crossed(es)
    BY DEF Crossed, IsEdges, IsEdge
  <2>2. es = [i \in DOMAIN es |-> es[i]]
    BY DEF IsEdges, IsSeq
  <2>3. es \in [DOMAIN es -> Crossed(es)]
    BY <2>1, <2>2
  <2> QED
    BY <2>3 DEF AlikeEdges
<1>2. \A f \in AlikeEdges(es) : \A p \in (DOMAIN es) \X (DOMAIN es) :
        Swap(f, p[1], p[2]) \in AlikeEdges(es)
  BY SwapAlike
<1> QED
  BY <1>1, <1>2, SwappedStays

LEMMA AlikeParts ==
    ASSUME NEW es, IsEdges(es), NEW f \in AlikeEdges(es)
    PROVE  /\ IsEdges(f) /\ DOMAIN f = DOMAIN es
           /\ \A node : InDegree(f, node) = InDegree(es, node)
           /\ \A node : OutEdges(f, node) = OutEdges(es, node)
<1>1. Len(es) \in Nat /\ DOMAIN es = 1..Len(es)
  BY SeqParts DEF IsEdges
<1>2. f \in [1..Len(es) -> Crossed(es)]
  BY <1>1 DEF AlikeEdges
<1>3. f \in Seq(Crossed(es))
  BY <1>1, <1>2
<1>4. \A e \in Crossed(es) : IsEdge(e)
  BY DEF Crossed, IsEdge
<1>5. IsEdges(f)
  BY <1>3, <1>4, SomeEdges
<1>6. \A i \in DOMAIN es : f[i].source = es[i].source
  BY DEF AlikeEdges
<1>7. DOMAIN f = DOMAIN es
  BY <1>1, <1>2
<1>8. \A node : {i \in DOMAIN f : f[i].source = node} = {i \in DOMAIN es : es[i].source = node}
  BY <1>6, <1>7
<1>9. \A node : OutEdges(f, node) = OutEdges(es, node)
  BY <1>8 DEF OutEdges
<1> QED
  BY <1>5, <1>7, <1>9 DEF AlikeEdges

\* The share of the items a perturbation affects is a number of items.
LEMMA AffectedIsNat ==
    ASSUME NEW q \in Intensities, NEW total \in Nat
    PROVE  NAffected(q, total) \in Nat
<1>1. Clamp(q) \in 0..4
  BY IntensitiesAssumption DEF Clamp
<1> DEFINE x == Clamp(q) * total
<1>2. x \in Nat
  <2>1. Clamp(q) \in {0, 1, 2, 3, 4}
    BY <1>1
  <2> HIDE DEF Clamp
  <2>2. CASE Clamp(q) = 0
    BY <2>2
  <2>3. CASE Clamp(q) = 1
    BY <2>3
  <2>4. CASE Clamp(q) = 2
    BY <2>4
  <2>5. CASE Clamp(q) = 3
    BY <2>5
  <2>6. CASE Clamp(q) = 4
    BY <2>6
  <2> QED
    BY <2>1, <2>2, <2>3, <2>4, <2>5, <2>6
<1> HIDE DEF x
<1>3. x \div 4 \in Nat
  BY <1>2
<1> QED
  BY <1>3 DEF NAffected, x

\* What degree-preserving rewiring makes.
LEMMA RewiredAlike ==
    ASSUME IsGraph(dataset), NEW q \in Intensities, RewireDegreePreserving(q)
    PROVE  \E f \in AlikeEdges(dataset.edges) :
             Perturbed([dataset EXCEPT !.edges = f],
                       [family |-> "degree_preserving", nodes |-> {}, edges |-> {}])
<1> DEFINE es == dataset.edges
           k == IF Len(es) < 2 THEN 0 ELSE NAffected(q, Len(es))
<1>1. IsEdges(es) /\ Len(es) \in Nat
  BY SeqParts DEF IsGraph, IsEdges
<1>2. k \in Nat
  BY <1>1, AffectedIsNat
<1>3. PICK f \in Swapped(es, k) :
         Perturbed([dataset EXCEPT !.edges = f],
                   [family |-> "degree_preserving", nodes |-> {}, edges |-> {}])
  BY DEF RewireDegreePreserving
<1> HIDE DEF k
<1>4. f \in AlikeEdges(es)
  BY <1>1, <1>2, SwapsAlike
<1> QED
  BY <1>3, <1>4

-----------------------------------------------------------------------------
(* What the engines emit.                                                  *)

LEMMA FitsIs ==
    ASSUME NEW g, NEW o
    PROVE  EdgeViolations(g, o) = {i \in DOMAIN g.edges : ~Fits(g, o, g.edges[i])}
  BY DEF EdgeViolations, EdgeViolation, Fits

\* What is found under a name is declared.
LEMMA FirstDeclared ==
    ASSUME NEW s, NEW name, First(s, name) # None
    PROVE  \E i \in 1..Len(s) : s[i] = First(s, name)
  BY FirstFound

\* A declared name is found.
LEMMA FirstExists ==
    ASSUME NEW s, NEW i \in 1..Len(s), s[i].name # "none"
    PROVE  First(s, s[i].name) # None
<1> DEFINE name == s[i].name
           named == {j \in 1..Len(s) : s[j].name = name}
<1>1. named # {} /\ named \subseteq Nat
  OBVIOUS
<1>2. Min(named) \in named
  BY <1>1, MinIsIn
<1>3. SelectInSeq(s, LAMBDA x : x.name = name) = Min(named)
  BY <1>1 DEF SelectInSeq
<1>4. Min(named) # 0 /\ s[Min(named)].name = name
  BY <1>2
<1> HIDE DEF named
<1>5. First(s, name) = s[Min(named)]
  BY <1>3, <1>4 DEF First
<1> QED
  BY <1>4, <1>5 DEF None

\* The edge type of two node types is declared for them, either way round.
LEMMA EdgeIndexFound ==
    ASSUME NEW a, NEW b, EdgeIndex(a, b) # None
    PROVE  LET ets == spec.ontology.edge_types
           IN \E i \in 1..Len(ets) :
                /\ ets[i] = EdgeIndex(a, b)
                /\ \/ ets[i].source_type = a /\ ets[i].target_type = b
                   \/ ~ets[i].directed /\ ets[i].source_type = b /\ ets[i].target_type = a
<1> DEFINE ets == spec.ontology.edge_types
           fit == {i \in 1..Len(ets) :
                     \/ ets[i].source_type = a /\ ets[i].target_type = b
                     \/ ~ets[i].directed /\ ets[i].source_type = b /\ ets[i].target_type = a}
<1>1. EdgeIndex(a, b) = IF fit = {} THEN None ELSE ets[Min(fit)]
  <2>1. SelectInSeq(ets, LAMBDA et : \/ et.source_type = a /\ et.target_type = b
                                     \/ ~et.directed /\ et.source_type = b /\ et.target_type = a)
          = IF fit = {} THEN 0 ELSE Min(fit)
    BY DEF SelectInSeq
  <2>2. fit \subseteq Nat /\ 0 \notin fit
    OBVIOUS
  <2> HIDE DEF fit
  <2>3. fit # {} => Min(fit) # 0
    BY <2>2, MinIsIn
  <2> QED
    BY <2>1, <2>3 DEF EdgeIndex
<1>2. fit # {} /\ Min(fit) \in fit
  <2>1. fit \subseteq Nat
    OBVIOUS
  <2> HIDE DEF fit
  <2> QED
    BY <1>1, <2>1, MinIsIn
<1> HIDE DEF ets
<1>3. \A i \in fit : /\ i \in 1..Len(ets)
                   /\ \/ ets[i].source_type = a /\ ets[i].target_type = b
                      \/ ~ets[i].directed /\ ets[i].source_type = b /\ ets[i].target_type = a
  OBVIOUS
<1> HIDE DEF fit
<1> QED
  BY <1>1, <1>2, <1>3 DEF ets

\* In a plain ontology it is declared from the one to the other, and found under
\* its name.
LEMMA PlainEdgeType ==
    ASSUME spec \in Specs, PlainOntology(spec.ontology), NEW a, NEW b, EdgeIndex(a, b) # None
    PROVE  LET et == EdgeIndex(a, b)
           IN et.source_type = a /\ et.target_type = b /\ EdgeTypeOf(spec.ontology, et.name) = et
<1> DEFINE ets == spec.ontology.edge_types
<1>1. DOMAIN ets = 1..Len(ets) /\ \A i \in 1..Len(ets) : ets[i].name # "none"
  BY OntologiesAssumption
<1>2. PICK i \in 1..Len(ets) :
        /\ ets[i] = EdgeIndex(a, b)
        /\ \/ ets[i].source_type = a /\ ets[i].target_type = b
           \/ ~ets[i].directed /\ ets[i].source_type = b /\ ets[i].target_type = a
  BY EdgeIndexFound
<1>3. ets[i].directed
  BY <1>1 DEF PlainOntology
<1>4. First(ets, ets[i].name) # None
  BY <1>1, FirstExists
<1>5. PICK j \in 1..Len(ets) : ets[j] = First(ets, ets[i].name) /\ ets[j].name = ets[i].name
  BY <1>4, FirstFound
<1>6. j = i
  BY <1>1, <1>5 DEF PlainOntology
<1> QED
  BY <1>2, <1>3, <1>5, <1>6 DEF EdgeTypeOf

\* Every node of the block model is in a block.
LEMMA InABlock ==
    ASSUME NEW sizes \in Seq(Nat), NEW i \in Nat, i < SeqSum(sizes)
    PROVE  BlockOf(sizes, i) \in 1..Len(sizes)
<1> DEFINE n == Len(sizes)
           S(b) == SeqSum(SubSeq(sizes, 1, b))
           T == {b \in 1..n : i < S(b)}
<1>1. n \in Nat /\ DOMAIN sizes = 1..n
  OBVIOUS
<1>2. ASSUME NEW b \in 0..n
      PROVE  S(b) \in Nat /\ (b = 0 => S(b) = 0)
  <2> DEFINE t == SubSeq(sizes, 1, b)
  <2>1. b \in Nat /\ DOMAIN t = 1..b /\ \A j \in 1..b : t[j] \in Nat
    OBVIOUS
  <2> HIDE DEF t
  <2>2. SeqSum(t) \in Nat /\ (b = 0 => SeqSum(t) = 0)
    BY <2>1, SumStays
  <2> QED
    BY <2>2 DEF t
<1>3. S(n) = SeqSum(sizes)
  <2>1. SubSeq(sizes, 1, n) = sizes
    OBVIOUS
  <2> QED
    BY <2>1
<1> HIDE DEF S
<1>4. n \in T
  <2>1. n # 0
    BY <1>1, <1>2, <1>3
  <2> QED
    BY <1>1, <1>3, <2>1
<1>5. PICK b \in T : \A c \in T : b <= c
  <2>1. T \subseteq Nat /\ T # {}
    BY <1>4
  <2> HIDE DEF T
  <2> QED
    BY <2>1, LeastElement
<1>6. b \in 1..n /\ i < S(b) /\ b - 1 \notin T /\ b - 1 \in 0..n
  BY <1>1, <1>5
<1>7. S(b - 1) <= i
  <2>1. S(b - 1) \in Nat /\ (b - 1 = 0 => S(b - 1) = 0)
    BY <1>2, <1>6
  <2>2. b - 1 # 0 => b - 1 \in 1..n
    BY <1>1, <1>6
  <2>3. b - 1 # 0 => ~(i < S(b - 1))
    BY <1>6, <2>2
  <2> QED
    BY <2>1, <2>3
<1>8. \E c \in DOMAIN sizes : SeqSum(SubSeq(sizes, 1, c - 1)) <= i /\ i < SeqSum(SubSeq(sizes, 1, c))
  BY <1>1, <1>6, <1>7 DEF S
<1> QED
  BY <1>1, <1>8, Zenon DEF BlockOf

\* The blocks are a list of sizes.
LEMMA SizesAre ==
    ASSUME spec \in Specs, NEW count \in Nat \ {0}
    PROVE  SbmSizes(spec.blocks, count) \in Seq(Nat)
<1>1. CASE spec.blocks # <<>>
  <2>1. spec.blocks \in Seq(Nat \ {0})
    BY SpecsAssumption
  <2> QED
    BY <1>1, <2>1 DEF SbmSizes
<1>2. CASE spec.blocks = <<>>
  <2> DEFINE b == IF count < 3 THEN count ELSE 3
             size(i) == (count \div b) + (IF i <= count % b THEN 1 ELSE 0)
  <2>1. b \in Nat \ {0}
    OBVIOUS
  <2>2. \A i \in 1..b : size(i) \in Nat
    <3> HIDE DEF b
    <3> QED
      BY <2>1
  <2>3. SbmSizes(spec.blocks, count) = [i \in 1..b |-> size(i)]
    BY <1>2 DEF SbmSizes
  <2> HIDE DEF b, size
  <2> QED
    BY <2>1, <2>2, <2>3
<1> QED
  BY <1>1, <1>2

\* The type of a node is the name of a node type.
LEMMA AssignedTypes ==
    ASSUME spec \in Specs, NEW count \in Nat \ {0}, NEW types \in Assignments(count), NEW i \in DOMAIN types
    PROVE  LET nts == spec.ontology.node_types
           IN \E k \in 1..Len(nts) : types[i] = nts[k].name
<1> DEFINE nts == spec.ontology.node_types
           N == TopologySize(count)
<1>1. Len(nts) \in Nat \ {0}
  <2>1. nts \in Seq(ToSet(nts)) /\ nts # <<>>
    BY SpecsAssumption, OntologiesAssumption
  <2> HIDE DEF nts
  <2> QED
    BY <2>1
<1>2. \A c \in Nat : \E k \in 1..Len(nts) : TypeAt(c) = nts[k].name
  <2> SUFFICES ASSUME NEW c \in Nat PROVE \E k \in 1..Len(nts) : TypeAt(c) = nts[k].name
    OBVIOUS
  <2> DEFINE n == Len(nts)
  <2>1. (c % n) + 1 \in 1..n
    <3>1. n \in Nat \ {0}
      BY <1>1
    <3> HIDE DEF n
    <3>2. c % n \in 0..(n - 1)
      BY <3>1
    <3> QED
      BY <3>1, <3>2
  <2> QED
    BY <2>1 DEF TypeAt
<1>3. N \in Nat /\ DOMAIN types = 0..(N - 1)
  BY SizeIsNat, AssignedNodes
<1>4. i \in Nat /\ i < N
  BY <1>3
<1>5. \E c \in Nat : types[i] = TypeAt(c)
  <2>1. CASE spec.model = "sbm"
    <3> DEFINE sizes == SbmSizes(spec.blocks, count)
    <3>1. types = [j \in 0..(N - 1) |-> TypeAt(BlockOf(sizes, j) - 1)]
      BY <2>1 DEF Assignments
    <3>2. N = SeqSum(sizes) /\ sizes \in Seq(Nat)
      BY <2>1, SizesAre DEF TopologySize
    <3> HIDE DEF N, sizes
    <3>3. BlockOf(sizes, i) \in 1..Len(sizes)
      BY <1>4, <3>2, InABlock
    <3>4. BlockOf(sizes, i) - 1 \in Nat
      BY <3>2, <3>3
    <3> QED
      BY <1>3, <3>1, <3>4
  <2>2. CASE spec.model = "lfr"
    <3>1. PICK c \in Communities(N) : types = [j \in 0..(N - 1) |-> TypeAt(c[j])]
      BY <2>2 DEF Assignments
    <3> HIDE DEF N
    <3>2. c[i] \in Nat
      BY <1>3 DEF Communities
    <3> QED
      BY <1>3, <3>1, <3>2
  <2>3. CASE spec.model \notin {"sbm", "lfr"}
    <3>1. types = [j \in 0..(N - 1) |-> TypeAt(j)]
      BY <2>3 DEF Assignments
    <3> HIDE DEF N
    <3> QED
      BY <1>3, <1>4, <3>1
  <2> QED
    BY <2>1, <2>2, <2>3
<1> QED
  BY <1>2, <1>5

\* A property has at most one lower and one upper bound, each a number or a
\* string that reads as one.
Bounded(p) ==
  /\ \A b \in p.min \cup p.max : IsBound(b)
  /\ \A x, y \in p.min : x = y
  /\ \A x, y \in p.max : x = y

\* A plain integer property whose bounds leave a value.
IntegerProperty(p) ==
  p.datatype = "integer" /\ ~p.pii /\ p.choices = {} /\ Satisfiable(p)

\* Every property of a request's ontology is bounded so.
LEMMA PropertiesBounded ==
    ASSUME NEW s \in Specs, NEW k \in 1..Len(s.ontology.node_types),
           NEW j \in DOMAIN s.ontology.node_types[k].properties
    PROVE  Bounded(s.ontology.node_types[k].properties[j])
<1> DEFINE nts == s.ontology.node_types
<1>1. \A i \in 1..Len(nts) : \A m \in DOMAIN nts[i].properties :
           LET p == nts[i].properties[m]
           IN /\ \A b \in p.min \cup p.max : IsBound(b)
              /\ \A x, y \in p.min : x = y
              /\ \A x, y \in p.max : x = y
  BY OntologiesAssumption, Zenon
<1> HIDE DEF nts
<1> SUFFICES Bounded(nts[k].properties[j])
  BY DEF nts
<1>2. k \in 1..Len(nts) /\ j \in DOMAIN nts[k].properties
  BY DEF nts
<1> QED
  BY <1>1, <1>2 DEF Bounded

\* int() cuts at most a half.
LEMMA Truncated ==
    ASSUME NEW h \in Int
    PROVE  Trunc(h) \in Int /\ 2 * Trunc(h) <= h + 1
<1>1. CASE h < 0
  <2> DEFINE q == (-h) \div 2
  <2>1. q \in Int /\ -h <= 2 * q + 1
    BY <1>1
  <2>2. Trunc(h) = -q
    BY <1>1 DEF Trunc
  <2> HIDE DEF q
  <2> QED
    BY <2>1, <2>2
<1>2. CASE h >= 0
  <2> DEFINE q == h \div 2
  <2>1. q \in Int /\ 2 * q <= h
    BY <1>2
  <2>2. Trunc(h) = q
    BY <1>2 DEF Trunc
  <2> HIDE DEF q
  <2> QED
    BY <2>1, <2>2
<1> QED
  BY <1>1, <1>2

\* An integer the topology engine synthesizes keeps the bounds.
LEMMA SynthesizedInRange ==
    ASSUME NEW p, IntegerProperty(p), Bounded(p), NEW v \in TopologyValues(p)
    PROVE  PropertyViolation(v, p) = {}
<1> USE DEF IntegerProperty, Bounded
<1> DEFINE low == Low(p)
           high == High(p)
           top == IF high > low + 1 THEN high - 1 ELSE low
<1>1. v \in {IntVal(low), IntVal(top)}
  BY DEF TopologyValues, Synthesized
<1>2. \A b \in p.min \cup p.max : b.num \in Int
  BY DEF IsBound
<1>3. low \in Int
  <2>1. CASE p.min = {}
    BY <2>1 DEF Low
  <2>2. CASE p.min # {}
    <3> DEFINE b == CHOOSE lo \in p.min : TRUE
    <3>1. b \in p.min /\ low = Trunc(b.num)
      BY <2>2 DEF Low
    <3> QED
      BY <1>2, <3>1, Truncated
  <2> QED
    BY <2>1, <2>2
<1>4. high \in Int /\ \A hi \in p.max : 2 * high <= hi.num + 1
  <2>1. CASE p.max = {}
    BY <2>1 DEF High
  <2>2. CASE p.max # {}
    <3> DEFINE b == CHOOSE hi \in p.max : TRUE
    <3>1. b \in p.max /\ high = Trunc(b.num)
      BY <2>2 DEF High
    <3>2. \A hi \in p.max : hi = b
      BY <3>1
    <3> HIDE DEF b
    <3> QED
      BY <1>2, <3>1, <3>2, Truncated
  <2> QED
    BY <2>1, <2>2
<1>5. /\ \A lo \in p.min : lo.num <= 2 * low
      /\ \A hi \in p.max : 2 * low <= hi.num
  BY DEF Satisfiable
<1> HIDE DEF low, high
<1>6. top \in Int /\ low <= top
  BY <1>3, <1>4
<1>7. \A hi \in p.max : hi.num \in Int /\ 2 * top <= hi.num
  BY <1>2, <1>3, <1>4, <1>5
<1> HIDE DEF top
<1>8. PICK n \in Int : v = IntVal(n) /\ low <= n /\ \A hi \in p.max : 2 * n <= hi.num
  BY <1>1, <1>3, <1>5, <1>6, <1>7
<1>9. v.kind = "int" /\ v.num = 2 * n /\ v # Null
  BY <1>8 DEF IntVal, Null
<1>10. ~Below(v, p.min)
  BY <1>2, <1>3, <1>5, <1>8, <1>9 DEF Below
<1>11. ~Above(v, p.max)
  BY <1>2, <1>8, <1>9 DEF Above
<1> DEFINE numeric == p.datatype \in {"integer", "float"}
           breach == [missing_required |-> v = Null /\ ~p.nullable,
                      not_in_choices |-> v # Null /\ \E c \in p.choices : c # {} /\ v \notin c,
                      wrong_type |-> numeric /\ v.kind = "text",
                      below_min |-> numeric /\ FloatReads(v) /\ Below(v, p.min),
                      above_max |-> numeric /\ FloatReads(v) /\ Above(v, p.max)]
<1>12. PropertyViolation(v, p) = {k \in DOMAIN breach : breach[k]}
  BY DEF PropertyViolation
<1>13. DOMAIN breach = {"missing_required", "not_in_choices", "wrong_type", "below_min", "above_max"}
  OBVIOUS
<1>14. ~breach["missing_required"] /\ ~breach["not_in_choices"] /\ ~breach["wrong_type"]
       /\ ~breach["below_min"] /\ ~breach["above_max"]
  BY <1>9, <1>10, <1>11
<1> HIDE DEF breach
<1> QED
  BY <1>12, <1>13, <1>14

-----------------------------------------------------------------------------
(* The validator and the judge.                                            *)

\* A value the validator rejects does not pass the judge, if the bounds are
\* numbers.
LEMMA RejectedFails ==
    ASSUME NEW v, NEW p, PropertyViolation(v, p) # {},
           \A b \in p.min \cup p.max : Numeric(b)
    PROVE  ~JudgePasses(v, p)
<1>1. \/ v = Null /\ ~p.nullable
      \/ v # Null /\ \E c \in p.choices : c # {} /\ v \notin c
      \/ p.datatype \in {"integer", "float"} /\ v.kind = "text"
      \/ /\ p.datatype \in {"integer", "float"} /\ FloatReads(v)
         /\ Below(v, p.min) \/ Above(v, p.max)
  <2> DEFINE numeric == p.datatype \in {"integer", "float"}
             breach == [missing_required |-> v = Null /\ ~p.nullable,
                        not_in_choices |-> v # Null /\ \E c \in p.choices : c # {} /\ v \notin c,
                        wrong_type |-> numeric /\ v.kind = "text",
                        below_min |-> numeric /\ FloatReads(v) /\ Below(v, p.min),
                        above_max |-> numeric /\ FloatReads(v) /\ Above(v, p.max)]
  <2>1. PICK k \in DOMAIN breach : breach[k]
    BY DEF PropertyViolation
  <2>2. k \in {"missing_required", "not_in_choices", "wrong_type", "below_min", "above_max"}
    BY <2>1
  <2>3. CASE k = "missing_required"
    BY <2>1, <2>3
  <2>4. CASE k = "not_in_choices"
    BY <2>1, <2>4
  <2>5. CASE k = "wrong_type"
    BY <2>1, <2>5
  <2>6. CASE k = "below_min"
    BY <2>1, <2>6
  <2>7. CASE k = "above_max"
    BY <2>1, <2>7
  <2> QED
    BY <2>2, <2>3, <2>4, <2>5, <2>6, <2>7
<1>2. Null.kind = "null"
  BY DEF Null
<1>3. p.datatype \in {"integer", "float"} /\ v # Null /\ JudgePasses(v, p) => Numeric(v)
  BY DEF JudgePasses, DatatypeOk, Numeric
<1>4. Numbers(p.min) = p.min /\ Numbers(p.max) = p.max
  BY DEF Numbers
<1>5. CASE v = Null
  BY <1>1, <1>2, <1>5 DEF JudgePasses, FloatReads
<1>6. CASE v # Null
  <2> SUFFICES ASSUME JudgePasses(v, p) PROVE FALSE
    OBVIOUS
  <2>1. /\ \A c \in p.choices : v \in c
        /\ Numeric(v) => ~Below(v, p.min) /\ ~Above(v, p.max)
    BY <1>4, <1>6 DEF JudgePasses, ConstraintsOk
  <2> QED
    BY <1>1, <1>3, <1>6, <2>1 DEF Numeric
<1> QED
  BY <1>5, <1>6

\* A node the validator rejects is flagged by the judge.
LEMMA RejectedFlagged ==
    ASSUME NEW g, NEW o, NEW id, NodeViolations(g, o, id) # {}, NumericBounds(o)
    PROVE  JudgeFlagsNode(g, o, id)
<1> DEFINE nt == NodeTypeOf(o, g.nodes[id].type)
<1>1. CASE nt = None
  BY <1>1 DEF JudgeFlagsNode
<1>2. CASE nt # None
  <2>1. PICK j \in DOMAIN nt.properties :
           PropertyViolation(PropertyOf(g.nodes[id], nt.properties[j]), nt.properties[j]) # {}
    BY <1>2 DEF NodeViolations
  <2>2. PICK i \in 1..Len(o.node_types) : o.node_types[i] = nt
    BY <1>2, FirstFound DEF NodeTypeOf
  <2>3. \A b \in nt.properties[j].min \cup nt.properties[j].max : Numeric(b)
    BY <2>1, <2>2 DEF NumericBounds
  <2> HIDE DEF nt
  <2>4. ~JudgePasses(PropertyOf(g.nodes[id], nt.properties[j]), nt.properties[j])
    BY <2>1, <2>3, RejectedFails
  <2> QED
    BY <2>4 DEF JudgeFlagsNode, nt
<1> QED
  BY <1>1, <1>2

\* The judge flags an edge exactly if the validator does.
LEMMA EdgesAgree ==
    ASSUME NEW g, NEW o, NEW i \in DOMAIN g.edges
    PROVE  JudgeFlagsEdge(g, o, g.edges[i]) <=> i \in EdgeViolations(g, o)
  BY DEF JudgeFlagsEdge, EdgeViolations, EdgeViolation

-----------------------------------------------------------------------------
(* The violation family.                                                   *)

\* A property that was set has its value; one that was stripped has none.
LEMMA SetValue ==
    ASSUME NEW node, NEW p, NEW v
    PROVE  /\ SetProperty(node, p, v).type = node.type
           /\ PropertyOf(SetProperty(node, p, v), p) = v
  BY DEF SetProperty, PropertyOf, With

LEMMA StrippedValue ==
    ASSUME NEW node, NEW p
    PROVE  /\ Stripped(node, p).type = node.type
           /\ PropertyOf(Stripped(node, p), p) = Null
  BY DEF Stripped, PropertyOf, Restrict

\* A node with a property the judge does not pass is flagged.
LEMMA FailureFlagged ==
    ASSUME NEW g, NEW id, NEW node, NEW p \in Breakable(node), NEW v,
           g.nodes[id].type = node.type, PropertyOf(g.nodes[id], p) = v,
           ~JudgePasses(v, p)
    PROVE  JudgeFlagsNode(g, spec.ontology, id)
<1> DEFINE nt == NodeTypeOf(spec.ontology, node.type)
<1>1. nt # None /\ \E j \in DOMAIN nt.properties : p = nt.properties[j]
  BY DEF Breakable, ToSet
<1> HIDE DEF nt
<1> QED
  BY <1>1 DEF JudgeFlagsNode, nt

\* What the assumption says of a property the family may break.
LEMMA BreakableProperty ==
    ASSUME spec \in Specs, NEW node, NEW p \in Breakable(node)
    PROVE  /\ \A b \in p.min \cup p.max : b.num \in Int
           /\ \A c \in p.choices : Text(-1) \notin c
<1> DEFINE nt == NodeTypeOf(spec.ontology, node.type)
<1>1. nt # None /\ \E j \in DOMAIN nt.properties : p = nt.properties[j]
  BY DEF Breakable, ToSet
<1>2. PICK i \in 1..Len(spec.ontology.node_types) : spec.ontology.node_types[i] = nt
  BY <1>1, FirstFound DEF NodeTypeOf
<1>3. \A b \in p.min \cup p.max : b.num \in Int
  BY <1>1, <1>2, OntologiesAssumption DEF IsBound
<1>4. \A c \in p.choices : Text(-1) \notin c
  BY <1>1, <1>2, ViolationsAssumption
<1> HIDE DEF nt
<1> QED
  BY <1>3, <1>4

\* The judge does not pass a value out of range.
LEMMA BeyondFails ==
    ASSUME NEW p, \A b \in p.min \cup p.max : b.num \in Int,
           Numbers(p.max) # {} \/ Numbers(p.min) # {}
    PROVE  ~JudgePasses(Beyond(p), p)
<1>1. CASE Numbers(p.max) # {}
  <2> DEFINE hi == CHOOSE x \in Numbers(p.max) : TRUE
             v == Shifted(hi, 1000)
  <2>1. hi \in Numbers(p.max) /\ hi.num \in Int /\ Numeric(hi)
    BY <1>1 DEF Numbers
  <2>2. Beyond(p) = v
    BY <1>1 DEF Beyond
  <2> HIDE DEF hi
  <2>3. v.kind = hi.kind /\ v.num = hi.num + 2000
    BY DEF Shifted
  <2> HIDE DEF v
  <2>4. v # Null /\ Numeric(v) /\ Above(v, Numbers(p.max))
    BY <2>1, <2>3 DEF Numeric, Null, Above
  <2> QED
    BY <2>2, <2>4 DEF JudgePasses, ConstraintsOk
<1>2. CASE Numbers(p.max) = {}
  <2> DEFINE lo == CHOOSE x \in Numbers(p.min) : TRUE
             v == Shifted(lo, -1000)
  <2>1. lo \in Numbers(p.min) /\ lo.num \in Int /\ Numeric(lo)
    BY <1>2 DEF Numbers
  <2>2. Beyond(p) = v
    BY <1>2 DEF Beyond
  <2> HIDE DEF lo
  <2>3. v.kind = lo.kind /\ v.num = lo.num - 2000
    BY <2>1 DEF Shifted
  <2> HIDE DEF v
  <2>4. v # Null /\ Numeric(v) /\ Below(v, Numbers(p.min))
    BY <2>1, <2>3 DEF Numeric, Null, Below
  <2> QED
    BY <2>2, <2>4 DEF JudgePasses, ConstraintsOk
<1> QED
  BY <1>1, <1>2

\* The judge does not pass a value of another datatype.
LEMMA WrongTypeFails ==
    ASSUME NEW p,
           p.datatype \in {"integer", "float", "boolean", "string", "datetime"}
    PROVE  ~JudgePasses(WrongType(p), p)
<1> DEFINE v == WrongType(p)
<1>1. IntVal(1234567).kind = "int" /\ Text(-2).kind = "text" /\ Null.kind = "null"
  BY DEF IntVal, Text, Null
<1>2. CASE p.datatype \in {"string", "datetime"}
  <2>1. v.kind = "int"
    BY <1>1, <1>2 DEF WrongType
  <2> HIDE DEF v
  <2>2. v # Null /\ ~DatatypeOk(v, p)
    BY <1>1, <1>2, <2>1, SMT DEF DatatypeOk
  <2> QED
    BY <2>2 DEF JudgePasses, v
<1>3. CASE p.datatype \in {"integer", "float", "boolean"}
  <2>1. v.kind = "text"
    BY <1>1, <1>3 DEF WrongType
  <2> HIDE DEF v
  <2>2. v # Null /\ ~DatatypeOk(v, p)
    BY <1>1, <1>3, <2>1, SMT DEF DatatypeOk, Numeric
  <2> QED
    BY <2>2 DEF JudgePasses, v
<1> QED
  BY <1>2, <1>3

\* Whatever a node was, the judge flags what the family makes of it.
LEMMA ViolatedFlagged ==
    ASSUME spec \in Specs, NEW g, NEW id, NEW node,
           g.nodes[id] \in ViolatedNodes(node)
    PROVE  JudgeFlagsNode(g, spec.ontology, id)
<1> DEFINE ps == Breakable(node)
           w == g.nodes[id]
<1>1. CASE \E p \in Ranged(ps) : w = SetProperty(node, p, Beyond(p))
  <2>1. PICK p \in Ranged(ps) : w = SetProperty(node, p, Beyond(p))
    BY <1>1
  <2>2. p \in Breakable(node) /\ (Numbers(p.max) # {} \/ Numbers(p.min) # {})
    BY DEF Ranged
  <2>3. ~JudgePasses(Beyond(p), p)
    BY <2>2, BreakableProperty, BeyondFails
  <2>4. w.type = node.type /\ PropertyOf(w, p) = Beyond(p)
    BY <2>1, SetValue
  <2> QED
    BY <2>2, <2>3, <2>4, FailureFlagged
<1>2. CASE \E p \in Listed(ps) : w = SetProperty(node, p, Text(-1))
  <2>1. PICK p \in Listed(ps) : w = SetProperty(node, p, Text(-1))
    BY <1>2
  <2>2. p \in Breakable(node) /\ p.choices # {}
    BY DEF Listed
  <2>3. ~JudgePasses(Text(-1), p)
    BY <2>2, BreakableProperty DEF JudgePasses, ConstraintsOk, Text, Null
  <2> QED
    BY <2>1, <2>2, <2>3, SetValue, FailureFlagged
<1>3. CASE \E p \in Required(ps) : w = Stripped(node, p)
  <2>1. PICK p \in Required(ps) : w = Stripped(node, p)
    BY <1>3
  <2>2. p \in Breakable(node) /\ ~JudgePasses(Null, p)
    BY DEF Required, JudgePasses
  <2> QED
    BY <2>1, <2>2, StrippedValue, FailureFlagged
<1>4. CASE \E p \in Typed(ps) : w = SetProperty(node, p, WrongType(p))
  <2>1. PICK p \in Typed(ps) : w = SetProperty(node, p, WrongType(p))
    BY <1>4
  <2>2. p \in Breakable(node) /\ ~JudgePasses(WrongType(p), p)
    BY WrongTypeFails DEF Typed
  <2>3. w.type = node.type /\ PropertyOf(w, p) = WrongType(p)
    BY <2>1, SetValue
  <2> QED
    BY <2>2, <2>3, FailureFlagged
<1>5. CASE w = [type |-> "undeclared", properties |-> node.properties]
  <2>1. w.type = "undeclared"
    BY <1>5
  <2>2. NodeTypeOf(spec.ontology, "undeclared") = None
    BY FirstFound, ViolationsAssumption DEF NodeTypeOf
  <2> HIDE DEF w
  <2> QED
    BY <2>1, <2>2 DEF JudgeFlagsNode, w
<1> QED
  BY <1>1, <1>2, <1>3, <1>4, <1>5, Zenon DEF ViolatedNodes

\* An edge the family repointed is flagged.
LEMMA RepointedFlagged ==
    ASSUME NEW g, IsGraph(g), NEW e, NEW target \in WrongTargets(g.nodes, e),
           NEW f, f.type = e.type, f.target = target
    PROVE  JudgeFlagsEdge(g, spec.ontology, f)
<1> DEFINE et == EdgeTypeOf(spec.ontology, e.type)
           wrong == {id \in DOMAIN g.nodes : et # None /\ g.nodes[id].type # et.target_type}
<1>1. CASE target \in wrong
  BY <1>1 DEF JudgeFlagsEdge
<1>2. CASE target = MissingEndpoint
  <2>1. MissingEndpoint \notin DOMAIN g.nodes
    <3>1. ~IsPair(MissingEndpoint)
      BY DEF IsPair, MissingEndpoint
    <3> QED
      BY <3>1 DEF IsGraph
  <2> QED
    BY <1>2, <2>1 DEF JudgeFlagsEdge
<1> QED
  BY <1>1, <1>2 DEF WrongTargets

\* What the violation family did: N and S are what it selected, nodes are the
\* nodes after it, targets the new targets.
Broke(N, S, nodes, targets) ==
  /\ N \subseteq DOMAIN dataset.nodes /\ S \subseteq DOMAIN dataset.edges
  /\ DOMAIN nodes = DOMAIN dataset.nodes /\ DOMAIN targets = S
  /\ \A id \in N : nodes[id] \in ViolatedNodes(dataset.nodes[id])
  /\ \A i \in S : targets[i] \in WrongTargets(nodes, dataset.edges[i])
  /\ Perturbed([nodes |-> nodes, edges |-> Retarget(dataset.edges, targets)],
               [family |-> "violation", nodes |-> N, edges |-> S])

LEMMA ViolationParts ==
    ASSUME NEW q, OntologyViolation(q)
    PROVE  \E N, S, nodes, targets : Broke(N, S, nodes, targets)
<1> DEFINE es == dataset.edges
           After(N, broken) ==
             [id \in DOMAIN dataset.nodes |-> IF id \in N THEN broken[id] ELSE dataset.nodes[id]]
           Done(N, S, broken, targets) ==
             /\ \A i \in S : targets[i] \in WrongTargets(After(N, broken), es[i])
             /\ Perturbed([nodes |-> After(N, broken), edges |-> Retarget(es, targets)],
                          [family |-> "violation", nodes |-> N, edges |-> S])
<1>1. PICK N \in SUBSET DOMAIN dataset.nodes : \E S \in SUBSET DOMAIN es : \E broken :
        /\ \A id \in N : broken[id] \in ViolatedNodes(dataset.nodes[id])
        /\ \E targets : DOMAIN targets = S /\ Done(N, S, broken, targets)
  BY DEF OntologyViolation, Select
<1>2. PICK S \in SUBSET DOMAIN es : \E broken :
        /\ \A id \in N : broken[id] \in ViolatedNodes(dataset.nodes[id])
        /\ \E targets : DOMAIN targets = S /\ Done(N, S, broken, targets)
  BY <1>1
<1>3. PICK broken :
        /\ \A id \in N : broken[id] \in ViolatedNodes(dataset.nodes[id])
        /\ \E targets : DOMAIN targets = S /\ Done(N, S, broken, targets)
  BY <1>2
<1>4. PICK targets : DOMAIN targets = S /\ Done(N, S, broken, targets)
  BY <1>3
<1>5. Broke(N, S, After(N, broken), targets)
  BY <1>3, <1>4 DEF Broke
<1> QED
  BY <1>5

\* The violation family flags what it selects.
LEMMA ViolationFlags ==
    ASSUME NEW q, spec \in Specs, IsGraph(dataset), OntologyViolation(q)
    PROVE  Flagged'
<1>1. PICK N, S, nodes, targets : Broke(N, S, nodes, targets)
  BY ViolationParts
<1> DEFINE g == [nodes |-> nodes, edges |-> Retarget(dataset.edges, targets)]
<1>2. dataset' = g /\ spec' = spec /\ job'.nodes = N /\ job'.edges = S
  BY <1>1 DEF Broke, Perturbed
<1>3. ASSUME NEW id \in N
      PROVE  JudgeFlagsNode(g, spec.ontology, id)
  <2>1. g.nodes[id] \in ViolatedNodes(dataset.nodes[id])
    BY <1>1 DEF Broke
  <2> HIDE DEF g
  <2> QED
    BY <2>1, ViolatedFlagged
<1>4. ASSUME NEW i \in S
      PROVE  JudgeFlagsEdge(g, spec.ontology, g.edges[i])
  <2>1. IsGraph(g)
    BY <1>1, RetargetedEdges DEF Broke, IsGraph
  <2>2. targets[i] \in WrongTargets(g.nodes, dataset.edges[i])
    BY <1>1 DEF Broke
  <2>3. g.edges[i].type = dataset.edges[i].type /\ g.edges[i].target = targets[i]
    BY <1>1 DEF Broke, Retarget
  <2> HIDE DEF g
  <2> QED
    BY <2>1, <2>2, <2>3, RepointedFlagged
<1> HIDE DEF g
<1> QED
  BY <1>2, <1>3, <1>4 DEF Flagged

-----------------------------------------------------------------------------
(* The steps.                                                              *)

\* What a sequence has after an element was appended.
LEMMA Appended ==
    ASSUME NEW s, NEW x, \E S : s \in Seq(S)
    PROVE  /\ \E S : Append(s, x) \in Seq(S)
           /\ \A k \in DOMAIN Append(s, x) :
                (k \in DOMAIN s /\ Append(s, x)[k] = s[k]) \/ Append(s, x)[k] = x
<1>1. PICK S : s \in Seq(S)
  OBVIOUS
<1>2. s \in Seq(S \cup {x})
  BY <1>1
<1>3. Append(s, x) \in Seq(S \cup {x})
  BY <1>2
<1> QED
  BY <1>2, <1>3

\* An engine works before the dataset is assembled.
LEMMA EnginePhases ==
    GenNext => pc \notin {"done", "perturbed"} /\ spec' = spec
  BY DEF GenNext, GenerateTopology, Fill, TakeNode, EndNodes, BadReply, TakeEdge, EndEdges,
         StoreShard, Assemble

LEMMA PerturbPhases ==
    PtbNext => /\ pc \in {"done", "perturbed"} /\ pc' = "perturbed"
               /\ UNCHANGED <<spec, plan, shard, store>>
  BY DEF PtbNext, Rewire, RewireDegreePreserving, Dropout, OntologyViolation, Perturbed

\* The shard under construction is one of the plan.
LEMMA CurrentShard ==
    ASSUME Shaped, pc = "engine"
    PROVE  Current \in [start : Nat, count : Nat] /\ Budget(Current) \in Nat \ {0}
<1> DEFINE S == [start : Nat, count : Nat]
<1>1. plan \in Seq(S) /\ Len(store) < Len(plan)
  BY PlansAssumption DEF Shaped
<1>2. Len(store) \in Nat
  BY DEF Shaped
<1> HIDE DEF S
<1>3. Len(plan) \in Nat /\ plan \in [1..Len(plan) -> S] /\ Len(store) + 1 \in 1..Len(plan)
  BY <1>1, <1>2
<1>4. Current \in S
  BY <1>3 DEF Current
<1>5. Budget(Current) \in Nat \ {0}
  <2>1. Current.count \in Nat
    BY <1>4 DEF S
  <2> QED
    BY <2>1 DEF Budget
<1> QED
  BY <1>4, <1>5 DEF S

\* The topology engine makes a graph.
LEMMA TopologyShape ==
    ASSUME Shaped, pc = "engine", NEW types \in Assignments(Budget(Current)), NEW maps,
           NEW pairs \in SUBSET Pairs(TopologySize(Budget(Current))), NEW ids \in {NodeIds(Current.start, types)}
    PROVE  IsGraph([nodes |-> NodesOf(ids, types, maps), edges |-> MapEdges(ids, types, pairs)])
<1>1. \A id \in DOMAIN NodesOf(ids, types, maps) : IsPair(id)
  BY DEF NodesOf, NodeIds, IsPair
<1>2. MapEdges(ids, types, pairs) \in Seq(LinkEdges(ids, types))
  BY CurrentShard, TopologyEdges DEF Shaped
<1>3. \A e \in LinkEdges(ids, types) : IsEdge(e)
  BY DEF LinkEdges, LinkEdge, IsEdge
<1>4. IsEdges(MapEdges(ids, types, pairs))
  BY <1>2, <1>3, SomeEdges
<1> QED
  BY <1>1, <1>4 DEF IsGraph

\* A graph h with the edges of g and then n whose targets are missing.
Dangles(h, g, n, templates) ==
  LET N == Len(g.edges)
  IN /\ IsGraph(h) /\ h.nodes = g.nodes
     /\ N \in Nat /\ Len(h.edges) = N + n
     /\ \A i \in 1..N : h.edges[i] = g.edges[i]
     /\ \A i \in 1..n : h.edges[N + i].target = <<"__missing__", i - 1>>
                       /\ h.edges[N + i].type = g.edges[templates[i]].type

\* The injected edges follow those of the shard.
LEMMA InjectedParts ==
    ASSUME NEW g, IsGraph(g), NEW n \in Nat, NEW templates \in [1..n -> DOMAIN g.edges]
    PROVE  Dangles(Injected(g, templates), g, n, templates)
<1> DEFINE h == Injected(g, templates)
           N == Len(g.edges)
           Bad(i) == [id |-> <<"__violation__", i - 1>>, type |-> g.edges[templates[i]].type,
                      source |-> g.edges[templates[i]].source, target |-> <<"__missing__", i - 1>>]
           bad == [i \in 1..n |-> Bad(i)]
<1>1. h = [nodes |-> g.nodes, edges |-> g.edges \o bad]
  <2>1. DOMAIN templates = 1..n
    OBVIOUS
  <2>2. h = [g EXCEPT !.edges = g.edges \o bad]
    BY <2>1, Zenon DEF Injected
  <2> DEFINE es == g.edges \o bad
  <2>3. g = [nodes |-> g.nodes, edges |-> g.edges]
    BY DEF IsGraph
  <2> HIDE DEF h, es, bad
  <2>4. [g EXCEPT !.edges = es] = [nodes |-> g.nodes, edges |-> es]
    BY <2>3
  <2> QED
    BY <2>2, <2>4 DEF es
<1>2. IsSeq(g.edges) /\ N \in Nat /\ DOMAIN g.edges = 1..N /\ \A i \in 1..N : IsEdge(g.edges[i])
  BY SeqParts DEF IsGraph, IsEdges
<1>3. \A i \in 1..n : IsEdge(bad[i]) /\ bad[i].target = <<"__missing__", i - 1>>
                     /\ bad[i].type = g.edges[templates[i]].type
  BY DEF IsEdge
<1>4. bad = [i \in 1..n |-> bad[i]]
  OBVIOUS
<1> HIDE DEF bad
<1>5. IsSeq(bad) /\ Len(bad) = n
  BY <1>4, FunctionSeq
<1> DEFINE both == g.edges \o bad
<1>6. /\ IsSeq(both) /\ Len(both) = N + n
      /\ \A i \in DOMAIN both : both[i] = IF i <= N THEN g.edges[i] ELSE bad[i - N]
  BY <1>2, <1>5, ConcatSeq
<1>7. DOMAIN both = 1..(N + n)
  BY <1>6, SeqParts
<1> HIDE DEF both, N
<1>8. /\ \A i \in 1..N : both[i] = g.edges[i]
      /\ \A i \in 1..n : both[N + i] = bad[i]
  <2>1. \A i \in 1..N : i \in DOMAIN both /\ i <= N
    BY <1>2, <1>7
  <2>2. \A i \in 1..n : N + i \in DOMAIN both /\ ~(N + i <= N) /\ (N + i) - N = i
    BY <1>2, <1>7
  <2> QED
    BY <1>6, <2>1, <2>2
<1>9. \A i \in DOMAIN both : IsEdge(both[i])
  <2> SUFFICES ASSUME NEW i \in DOMAIN both PROVE IsEdge(both[i])
    OBVIOUS
  <2>1. i \in 1..N \/ (i - N \in 1..n /\ ~(i <= N))
    BY <1>2, <1>7
  <2> QED
    BY <1>2, <1>3, <1>6, <2>1
<1>10. IsGraph(h) /\ h.nodes = g.nodes /\ h.edges = both
  BY <1>1, <1>6, <1>9 DEF IsGraph, IsEdges, both
<1> QED
  BY <1>2, <1>3, <1>6, <1>8, <1>10 DEF N, Dangles

\* The assembled edges are edges of shards.
LEMMA AssembledEdges ==
    ASSUME Shaped
    PROVE  LET es == FoldLeft(LAMBDA fs, s : MergeEdges(fs, s.graph.edges), <<>>, store)
           IN /\ IsEdges(es)
              /\ \A i \in DOMAIN es : \E k \in DOMAIN store : \E j \in DOMAIN store[k].graph.edges :
                   es[i] = store[k].graph.edges[j]
<1> DEFINE E == UNION {{store[k].graph.edges[j] : j \in DOMAIN store[k].graph.edges} : k \in DOMAIN store}
<1>1. Len(store) \in Nat /\ DOMAIN store = 1..Len(store)
  BY DEF Shaped
<1>2. ASSUME NEW k \in DOMAIN store
      PROVE  store[k].graph.edges \in Seq(E)
  <2> DEFINE es == store[k].graph.edges
             S == {es[j] : j \in DOMAIN es}
  <2>1. Len(es) \in Nat /\ DOMAIN es = 1..Len(es) /\ IsSeq(es)
    BY SeqParts DEF Shaped, IsGraph, IsEdges
  <2>2. \A j \in DOMAIN es : es[j] \in E
    OBVIOUS
  <2> HIDE DEF es, E
  <2>3. es \in Seq(E)
    BY <2>1, <2>2 DEF IsSeq
  <2> QED
    BY <2>3 DEF es
<1> HIDE DEF E
<1> DEFINE all == FoldLeft(LAMBDA es, s : MergeEdges(es, s.graph.edges), <<>>, store)
<1>3. all \in Seq(E)
  BY <1>1, <1>2, AssembledStays
<1> HIDE DEF all
<1>4. \A e \in E : \E k \in DOMAIN store : \E j \in DOMAIN store[k].graph.edges :
        e = store[k].graph.edges[j]
  BY DEF E
<1>5. \A e \in E : IsEdge(e)
  BY <1>4 DEF Shaped, IsGraph, IsEdges
<1>6. IsEdges(all)
  BY <1>3, <1>5, SomeEdges
<1>7. \A i \in DOMAIN all : all[i] \in E
  BY <1>3
<1> QED
  BY <1>4, <1>6, <1>7 DEF all

\* What the topology engine makes conforms to the ontology.
LEMMA TopologyWell ==
    ASSUME Shaped, pc = "engine", spec.method \in {"topology", "hybrid"},
           NEW types \in Assignments(Budget(Current)), NEW ids \in {NodeIds(Current.start, types)},
           NEW pairs \in SUBSET Pairs(TopologySize(Budget(Current))),
           NEW maps, DOMAIN maps = {types[i] : i \in DOMAIN types},
           \A t \in DOMAIN maps : maps[t] \in TopologyMaps(Latest(spec.ontology.node_types, t)),
           NEW g, g = [nodes |-> NodesOf(ids, types, maps), edges |-> MapEdges(ids, types, pairs)]
    PROVE  MadeWell(spec, g) /\ (Conforming(spec) => AllFit(g, spec.ontology))
<1> DEFINE o == spec.ontology
<1>0. spec \in Specs /\ Budget(Current) \in Nat \ {0}
  BY CurrentShard DEF Shaped
<1>1. \A i \in DOMAIN types : ids[i] = <<types[i], Current.start + i>>
  BY DEF NodeIds
<1>2. DOMAIN ids = DOMAIN types
  BY DEF NodeIds
<1>3. \A i \in DOMAIN types : ids[i] \in DOMAIN g.nodes /\ ids[i][1] = types[i]
  BY <1>1, <1>2 DEF NodesOf
<1>4. ASSUME NEW id \in DOMAIN g.nodes
      PROVE  \E i \in DOMAIN types : ids[i] = id /\ g.nodes[id] = [type |-> types[i], properties |-> maps[types[i]]]
  <2>1. \E i \in DOMAIN ids : ids[i] = id
    BY DEF NodesOf
  <2> DEFINE i == CHOOSE i \in DOMAIN ids : ids[i] = id
  <2>2. i \in DOMAIN ids /\ ids[i] = id
    BY <2>1
  <2>3. g.nodes[id] = [type |-> types[i], properties |-> maps[types[i]]]
    BY DEF NodesOf
  <2> HIDE DEF i
  <2> QED
    BY <1>2, <2>2, <2>3
<1>5. Labelled(g)
  BY <1>3, <1>4 DEF Labelled
<1>6. ASSUME Conforming(spec)
      PROVE  AllFit(g, o)
  <2>1. PlainOntology(o)
    BY <1>6 DEF Conforming
  <2>2. MapEdges(ids, types, pairs) \in Seq(LinkEdges(ids, types))
    BY <1>0, TopologyEdges
  <2>3. ASSUME NEW e \in LinkEdges(ids, types)
        PROVE  Fits(g, o, e)
    <3>1. PICK q \in Links(types), m \in Nat : e = LinkEdge(ids, types, q, m)
      BY DEF LinkEdges
    <3> DEFINE a == types[q[1]]
               b == types[q[2]]
               et == EdgeIndex(a, b)
    <3>2. q[1] \in DOMAIN types /\ q[2] \in DOMAIN types /\ et # None
      BY DEF Links
    <3>3. e.type = et.name /\ e.source = ids[q[1]] /\ e.target = ids[q[2]]
      BY <3>1 DEF LinkEdge
    <3>4. et.source_type = a /\ et.target_type = b /\ EdgeTypeOf(o, et.name) = et
      BY <1>0, <2>1, <3>2, PlainEdgeType
    <3>5. /\ e.source \in DOMAIN g.nodes /\ g.nodes[e.source].type = a
          /\ e.target \in DOMAIN g.nodes /\ g.nodes[e.target].type = b
      BY <1>3, <1>5, <3>2, <3>3 DEF Labelled
    <3> HIDE DEF et, a, b, o
    <3> QED
      BY <3>2, <3>3, <3>4, <3>5 DEF Fits
  <2>4. \A i \in DOMAIN g.edges : g.edges[i] \in LinkEdges(ids, types)
    <3>1. g.edges = MapEdges(ids, types, pairs)
      OBVIOUS
    <3>2. g.edges \in Seq(LinkEdges(ids, types))
      BY <2>2, <3>1
    <3> QED
      BY <3>2
  <2> QED
    BY <2>3, <2>4 DEF AllFit
<1>7. IntegersInRange(g, o)
  <2> SUFFICES ASSUME NEW id \in DOMAIN g.nodes,
                      NEW j \in DOMAIN NodeTypeOf(o, g.nodes[id].type).properties,
                      NEW p, p = NodeTypeOf(o, g.nodes[id].type).properties[j],
                      p.datatype = "integer", ~p.pii, p.choices = {}, Satisfiable(p),
                      EngineReads(o, g.nodes[id].type, p)
               PROVE  PropertyViolation(PropertyOf(g.nodes[id], p), p) = {}
    BY DEF IntegersInRange, Served
  <2>1. PICK i \in DOMAIN types : g.nodes[id] = [type |-> types[i], properties |-> maps[types[i]]]
    BY <1>4
  <2> DEFINE t == types[i]
             nt == NodeTypeOf(o, t)
             read == Latest(o.node_types, t)
             f == maps[t]
  <2>2. g.nodes[id].type = t /\ g.nodes[id].properties = f
    <3> HIDE DEF t, f
    <3>1. g.nodes[id] = [type |-> t, properties |-> f]
      BY <2>1 DEF t, f
    <3> QED
      BY <3>1
  <2>3. f \in PropertyMaps(read, [k \in DOMAIN read.properties |-> TopologyValues(read.properties[k])])
    BY DEF TopologyMaps
  <2>a. PICK k \in DOMAIN read.properties : read.properties[k] = p /\ LastOfName(read.properties, k)
    BY <2>2 DEF EngineReads
  <2>4. j \in DOMAIN nt.properties /\ p = nt.properties[j]
    BY <2>2
  <2> HIDE DEF nt, read, f
  <2>5. p.name \in DOMAIN f /\ f[p.name] \in TopologyValues(p)
    BY <2>3, <2>a DEF PropertyMaps
  <2>6. PropertyOf(g.nodes[id], p) = f[p.name]
    BY <2>2, <2>5 DEF PropertyOf
  <2>7. Bounded(p)
    <3> DEFINE nts == o.node_types
    <3>1. PICK q \in 1..Len(nts) : t = nts[q].name
      BY <1>0, AssignedTypes
    <3>2. nts[q].name # "none"
      <4>1. nts \in Seq(ToSet(nts)) /\ \A m \in DOMAIN nts : nts[m].name # "none"
        BY <1>0, OntologiesAssumption
      <4> HIDE DEF nts
      <4>2. IsSeq(nts)
        BY <4>1 DEF IsSeq
      <4>3. DOMAIN nts = 1..Len(nts)
        BY <4>2, SeqParts, Zenon
      <4> QED
        BY <4>1, <4>3
    <3>3. nt # None
      BY <3>1, <3>2, FirstExists DEF NodeTypeOf, nt
    <3>4. PICK m \in 1..Len(nts) : nts[m] = nt
      <4>1. nt = First(nts, t)
        BY DEF NodeTypeOf, nt
      <4> HIDE DEF nts, t
      <4>2. First(nts, t) # None
        BY <3>3, <4>1
      <4>3. \E m \in 1..Len(nts) : nts[m] = First(nts, t)
        BY <4>2, FirstDeclared, Zenon
      <4> QED
        BY <4>1, <4>3
    <3>5. j \in DOMAIN nts[m].properties /\ p = nts[m].properties[j]
      BY <2>4, <3>4
    <3> QED
      BY <1>0, <3>5, PropertiesBounded
  <2>8. IntegerProperty(p)
    BY DEF IntegerProperty
  <2>9. PropertyViolation(f[p.name], p) = {}
    BY <2>5, <2>7, <2>8, SynthesizedInRange, Zenon
  <2> QED
    BY <2>6, <2>9
<1> QED
  BY <1>5, <1>6, <1>7 DEF MadeWell

\* What is uploaded: the shard, and edges that do not fit after its own.
LEMMA StoredIsWell ==
    ASSUME Shaped, ShardWell, NEW templates,
           NEW n \in Nat, spec.inject = 0 => n = 0,
           templates \in [1..n -> DOMAIN shard.edges],
           NEW x, x.graph = Injected(shard, templates), x.injected = n
    PROVE  StoredWell(spec, x)
<1> DEFINE g == x.graph
           N == Len(shard.edges)
           o == spec.ontology
<1>1. /\ IsGraph(g) /\ g.nodes = shard.nodes /\ N \in Nat /\ Len(g.edges) = N + n
      /\ \A i \in 1..N : g.edges[i] = shard.edges[i]
      /\ \A i \in 1..n : g.edges[N + i].target = <<"__missing__", i - 1>>
                        /\ g.edges[N + i].type = shard.edges[templates[i]].type
  <2>1. IsGraph(shard)
    BY DEF Shaped
  <2> DEFINE h == Injected(shard, templates)
  <2>2. Dangles(h, shard, n, templates)
    BY <2>1, InjectedParts, Zenon
  <2>3. g = h
    OBVIOUS
  <2> HIDE DEF g, h
  <2> QED
    BY <2>2, <2>3 DEF Dangles
<1>a. N \in Nat
  BY <1>1
<1>2. DOMAIN g.edges = 1..(N + n) /\ DOMAIN shard.edges = 1..N
  BY <1>1, SeqParts DEF Shaped, IsGraph, IsEdges
<1>3. MadeWell(spec, g)
  BY <1>1 DEF ShardWell, MadeWell, Labelled, IntegersInRange
<1>4. spec.inject = 0 => n = 0
  OBVIOUS
<1>5. ASSUME Conforming(spec), NEW i \in DOMAIN g.edges
      PROVE  Fits(g, o, g.edges[i]) <=> i <= N
  <2>1. CASE i \in 1..N
    <3>1. Fits(shard, o, shard.edges[i])
      BY <1>2, <1>5, <2>1 DEF ShardWell, AllFit
    <3>2. g.edges[i] = shard.edges[i] /\ g.nodes = shard.nodes /\ i <= N
      BY <1>1, <1>a, <2>1
    <3> HIDE DEF g, o, N
    <3> QED
      BY <3>1, <3>2 DEF Fits
  <2>2. CASE i \in (N + 1)..(N + n)
    <3>1. i - N \in 1..n /\ N + (i - N) = i
      <4> HIDE DEF N
      <4> QED
        BY <1>a, <2>2
    <3>2. g.edges[i].target = <<"__missing__", (i - N) - 1>>
      BY <1>1, <3>1
    <3>3. ASSUME Fits(g, o, g.edges[i])
          PROVE  FALSE
      <4> DEFINE et == EdgeTypeOf(o, g.edges[i].type)
      <4>1. et # None /\ g.edges[i].target \in DOMAIN g.nodes
            /\ g.nodes[g.edges[i].target].type = et.target_type
        BY <3>3 DEF Fits
      <4>2. et.target_type = "__missing__"
        BY <1>3, <3>2, <4>1 DEF MadeWell, Labelled
      <4>3. PICK k \in 1..Len(o.edge_types) : o.edge_types[k] = et
        BY <4>1, FirstFound DEF EdgeTypeOf
      <4>4. o.edge_types \in Seq(ToSet(o.edge_types))
            /\ \A m \in DOMAIN o.edge_types : o.edge_types[m].target_type # "__missing__"
        BY OntologiesAssumption DEF Shaped
      <4> HIDE DEF et, o
      <4>5. DOMAIN o.edge_types = 1..Len(o.edge_types)
        BY <4>4
      <4> QED
        BY <4>2, <4>3, <4>4, <4>5
    <3> QED
      BY <1>1, <2>2, <3>3
  <2> QED
    BY <1>1, <1>2, <2>1, <2>2
<1>6. Len(g.edges) - n = N
  BY <1>1
<1> HIDE DEF g, N, o
<1>7. g = x.graph /\ o = spec.ontology
  BY DEF g, o
<1>8. Conforming(spec) =>
        \A i \in DOMAIN g.edges : Fits(g, o, g.edges[i]) <=> i <= Len(g.edges) - n
  BY <1>5, <1>6
<1> QED
  BY <1>3, <1>4, <1>7, <1>8 DEF StoredWell

\* The assembled nodes are those of the shards, under the types their ids tell.
LEMMA AssembledNodes ==
    ASSUME Shaped, StoreWell
    PROVE  /\ DOMAIN MergedNodes = UNION {DOMAIN store[k].graph.nodes : k \in DOMAIN store}
           /\ \A id \in DOMAIN MergedNodes : MergedNodes[id].type = id[1]
<1>1. DOMAIN MergedNodes = UNION {DOMAIN store[k].graph.nodes : k \in DOMAIN store}
  BY DEF MergedNodes
<1>2. ASSUME NEW id \in DOMAIN MergedNodes
      PROVE  MergedNodes[id].type = id[1]
  <2> DEFINE holders == {k \in DOMAIN store : id \in DOMAIN store[k].graph.nodes}
  <2>1. holders # {} /\ holders \subseteq Nat
    BY <1>1 DEF Shaped
  <2>2. Min(holders) \in holders
    <3> HIDE DEF holders
    <3> QED
      BY <2>1, MinIsIn
  <2>3. MergedNodes[id] = store[Min(holders)].graph.nodes[id]
    BY <1>1 DEF MergedNodes
  <2> DEFINE k == Min(holders)
  <2>4. k \in DOMAIN store /\ id \in DOMAIN store[k].graph.nodes
    BY <2>2
  <2> HIDE DEF k, holders
  <2>5. Labelled(store[k].graph)
    BY <2>4 DEF StoreWell, StoredWell, MadeWell
  <2> QED
    BY <2>3, <2>4, <2>5 DEF Labelled, k
<1> QED
  BY <1>1, <1>2

LEMMA AssembledFits ==
    ASSUME Shaped, StoreWell, Conforming(spec), spec.inject = 0, NEW g,
           g.nodes = MergedNodes,
           \A i \in DOMAIN g.edges : \E k \in DOMAIN store : \E j \in DOMAIN store[k].graph.edges :
             g.edges[i] = store[k].graph.edges[j]
    PROVE  AllFit(g, spec.ontology)
<1> SUFFICES ASSUME NEW i \in DOMAIN g.edges PROVE Fits(g, spec.ontology, g.edges[i])
  BY DEF AllFit
<1>0. PICK k \in DOMAIN store : \E j \in DOMAIN store[k].graph.edges : g.edges[i] = store[k].graph.edges[j]
  OBVIOUS
<1>1. PICK j \in DOMAIN store[k].graph.edges : g.edges[i] = store[k].graph.edges[j]
  BY <1>0
<1> DEFINE h == store[k].graph
<1>2. StoredWell(spec, store[k]) /\ IsGraph(h)
  BY DEF StoreWell, Shaped
<1>3. j <= Len(h.edges) - store[k].injected
  <2>1. Len(h.edges) \in Nat /\ DOMAIN h.edges = 1..Len(h.edges)
    BY <1>2, SeqParts DEF IsGraph, IsEdges
  <2>2. store[k].injected = 0
    BY <1>2 DEF StoredWell
  <2> QED
    BY <2>1, <2>2
<1>4. Fits(h, spec.ontology, h.edges[j])
  BY <1>2, <1>3 DEF StoredWell
<1>5. Labelled(h)
  BY <1>2 DEF StoredWell, MadeWell
<1>6. \A id \in DOMAIN h.nodes : id \in DOMAIN g.nodes /\ g.nodes[id].type = h.nodes[id].type
  BY <1>5, AssembledNodes DEF Labelled
<1> HIDE DEF h
<1> QED
  BY <1>1, <1>4, <1>6 DEF Fits, h

\* Without explicit blocks, the sizes of the blocks add up to the nodes.
LEMMA BlocksAddUp ==
    ASSUME NEW n \in Nat \ {0}
    PROVE  SeqSum(SbmSizes(<<>>, n)) = n
<1> DEFINE b == IF n < 3 THEN n ELSE 3
           size(i) == (n \div b) + (IF i <= n % b THEN 1 ELSE 0)
           sizes == [i \in 1..b |-> size(i)]
<1>1. SbmSizes(<<>>, n) = sizes
  BY DEF SbmSizes
<1>2. b \in Nat \ {0} /\ \A i \in 1..b : size(i) \in Nat
  <2>1. b \in Nat \ {0}
    OBVIOUS
  <2> HIDE DEF b
  <2> QED
    BY <2>1
<1>3. DOMAIN sizes = 1..b /\ \A i \in 1..b : sizes[i] = size(i)
  OBVIOUS
<1>4. PICK r : SumsUp(r, sizes, b) /\ SeqSum(sizes) = r[b]
  <2> HIDE DEF b, sizes, size
  <2> QED
    BY <1>2, <1>3, SumRuns
<1>5. r[0] = 0 /\ \A k \in 1..b : r[k] = r[k - 1] + size(k)
  BY <1>3, <1>4 DEF SumsUp
<1> HIDE DEF sizes
<1>6. CASE n = 1
  <2>1. b = 1 /\ r[1] = r[0] + size(1)
    BY <1>5, <1>6
  <2>2. size(1) = 1
    BY <1>6
  <2> QED
    BY <1>1, <1>4, <1>5, <1>6, <2>1, <2>2
<1>7. CASE n = 2
  <2>1. b = 2 /\ r[1] = r[0] + size(1) /\ r[2] = r[1] + size(2)
    BY <1>5, <1>7
  <2>2. size(1) = 1 /\ size(2) = 1
    BY <1>7
  <2> HIDE DEF size
  <2> QED
    BY <1>1, <1>4, <1>5, <1>7, <2>1, <2>2
<1>8. CASE n >= 3
  <2>1. b = 3
    BY <1>8
  <2>2. r[1] = r[0] + size(1) /\ r[2] = r[1] + size(2) /\ r[3] = r[2] + size(3)
    BY <1>5, <2>1
  <2>3. n = 3 * (n \div 3) + (n % 3) /\ n % 3 \in 0..2 /\ n \div 3 \in Nat
    <3>1. n = 3 * (n \div 3) + (n % 3)
      BY SMT
    <3> QED
      BY <3>1
  <2>4. /\ size(1) = (n \div 3) + (IF 1 <= n % 3 THEN 1 ELSE 0)
        /\ size(2) = (n \div 3) + (IF 2 <= n % 3 THEN 1 ELSE 0)
        /\ size(3) = (n \div 3) + (IF 3 <= n % 3 THEN 1 ELSE 0)
    BY <2>1
  <2> HIDE DEF size, b
  <2>5. r[3] = n
    BY <1>5, <2>2, <2>3, <2>4
  <2> QED
    BY <1>1, <1>4, <2>1, <2>5
<1> QED
  BY <1>6, <1>7, <1>8

\* The nodes of such a shard have the numbers of its share.
LEMMA TopologyShare ==
    ASSUME Shaped, pc = "engine", Sized(spec), NEW types \in Assignments(Budget(Current)), NEW maps,
           NEW ids \in {NodeIds(Current.start, types)}, NEW g, g.nodes = NodesOf(ids, types, maps)
    PROVE  InShare(g, Current)
<1> DEFINE n == Budget(Current)
<1>1. spec \in Specs /\ n \in Nat \ {0} /\ Current.start \in Nat
  BY CurrentShard DEF Shaped
<1>2. TopologySize(n) = n
  BY <1>1, BlocksAddUp DEF TopologySize, Sized
<1>3. DOMAIN types = 0..(n - 1) /\ DOMAIN ids = DOMAIN types
  BY <1>2, AssignedNodes DEF NodeIds
<1>4. DOMAIN g.nodes = {ids[i] : i \in DOMAIN ids}
  BY DEF NodesOf
<1>5. IsFiniteSet(DOMAIN g.nodes)
  <2>1. IsFiniteSet(DOMAIN ids)
    BY <1>1, <1>3, FS_Interval
  <2> DEFINE R == {ids[i] : i \in DOMAIN ids}
  <2>2. ids \in Surjection(DOMAIN ids, R)
    <3>1. ids = [i \in DOMAIN ids |-> ids[i]]
      BY DEF NodeIds
    <3>2. ids \in [DOMAIN ids -> R]
      BY <3>1
    <3> QED
      BY <3>2 DEF Surjection
  <2> HIDE DEF R
  <2>3. IsFiniteSet(R)
    BY <2>1, <2>2, FS_Surjection
  <2> QED
    BY <1>4, <2>3 DEF R
<1>6. ASSUME NEW id \in DOMAIN g.nodes
      PROVE  id[2] \in Current.start..(Current.start + n - 1)
  <2>1. PICK i \in 0..(n - 1) : id = ids[i]
    BY <1>3, <1>4
  <2>2. id[2] = Current.start + i
    BY <1>3, <2>1 DEF NodeIds
  <2> HIDE DEF n
  <2> QED
    BY <1>1, <2>2
<1> QED
  BY <1>5, <1>6 DEF InShare

\* The engines' graphs are graphs.
LEMMA GenShape ==
    ASSUME Shaped, GenNext
    PROVE  Shaped'
<1>1. CASE GenerateTopology
  <2> DEFINE ids(types) == NodeIds(Current.start, types)
             made(types, maps, pairs) ==
               [nodes |-> NodesOf(ids(types), types, maps), edges |-> MapEdges(ids(types), types, pairs)]
  <2>1. PICK types \in Assignments(Budget(Current)) :
          \E pairs \in SUBSET Pairs(TopologySize(Budget(Current))) : \E maps :
            shard' = made(types, maps, pairs)
    BY <1>1, Zenon DEF GenerateTopology
  <2>2. PICK pairs \in SUBSET Pairs(TopologySize(Budget(Current))) : \E maps :
            shard' = made(types, maps, pairs)
    BY <2>1
  <2>3. PICK maps : shard' = made(types, maps, pairs)
    BY <2>2
  <2>4. IsGraph(made(types, maps, pairs))
    <3>1. pc = "engine"
      BY <1>1 DEF GenerateTopology
    <3> QED
      BY <3>1, TopologyShape
  <2> HIDE DEF made, ids
  <2>5. IsGraph(shard')
    BY <2>3, <2>4
  <2> QED
    BY <1>1, <2>5 DEF Shaped, GenerateTopology
<1>2. CASE Fill
  <2>1. IsGraph(shard')
    BY <1>2 DEF Shaped, Fill, IsGraph
  <2> QED
    BY <1>2, <2>1 DEF Shaped, Fill
<1>3. ASSUME NEW i \in DOMAIN spec.ontology.node_types, NEW given,
             TakeNode(spec.ontology.node_types[i].name, given)
      PROVE  Shaped'
  <2>1. PICK ntype, key, props :
          shard' = [shard EXCEPT !.nodes = With(@, <<ntype, key>>, [type |-> ntype, properties |-> props])]
    BY <1>3, Zenon DEF TakeNode
  <2>2. IsPair(<<ntype, key>>)
    BY DEF IsPair
  <2>3. IsGraph(shard')
    BY <2>1, <2>2 DEF Shaped, With, IsGraph
  <2> QED
    BY <1>3, <2>3 DEF Shaped, TakeNode
<1>4. CASE EndNodes \/ BadReply \/ EndEdges
  BY <1>4 DEF Shaped, EndNodes, BadReply, EndEdges
<1>5. ASSUME NEW name, NEW s, NEW t, TakeEdge(name, s, t)
      PROVE  Shaped'
  <2>1. PICK type, source, target : shard' = [shard EXCEPT !.edges = AddEdge(@, type, source, target)]
    BY <1>5, Zenon DEF TakeEdge
  <2>2. IsEdges(AddEdge(shard.edges, type, source, target))
    BY AddedEdges DEF Shaped, IsGraph
  <2>3. IsGraph(shard')
    BY <2>1, <2>2 DEF Shaped, IsGraph
  <2> QED
    BY <1>5, <2>3 DEF Shaped, TakeEdge
<1>6. CASE StoreShard
  <2> DEFINE n == IF shard.edges = <<>> THEN 0 ELSE spec.inject
  <2>0. n \in Nat
    BY SpecsAssumption DEF Shaped
  <2>1. PICK templates \in [1..n -> DOMAIN shard.edges] : \E found :
          store' = Append(store, [graph |-> Injected(shard, templates), injected |-> n,
                                  violations |-> found])
    BY <1>6, Zenon DEF StoreShard
  <2>9. PICK found :
          store' = Append(store, [graph |-> Injected(shard, templates), injected |-> n,
                                  violations |-> found])
    BY <2>1
  <2> HIDE DEF n
  <2> DEFINE x == [graph |-> Injected(shard, templates), injected |-> n, violations |-> found]
  <2>2. IsGraph(x.graph) /\ store' = Append(store, x)
    <3>1. Dangles(x.graph, shard, n, templates)
      BY <2>0, InjectedParts DEF Shaped
    <3> QED
      BY <2>9, <3>1 DEF Dangles
  <2>3. IsGraph(shard') /\ UNCHANGED <<spec, plan, dataset>>
    BY <1>6, NoEdges DEF StoreShard, EmptyGraph, IsGraph
  <2> HIDE DEF x
  <2>4. \E S : store \in Seq(S)
    BY DEF Shaped
  <2>5. \E S : store' \in Seq(S)
    BY <2>2, <2>4, Appended
  <2>6. \A k \in DOMAIN store' : IsGraph(store'[k].graph)
    <3> SUFFICES ASSUME NEW k \in DOMAIN store' PROVE IsGraph(store'[k].graph)
      OBVIOUS
    <3>1. (k \in DOMAIN store /\ store'[k] = store[k]) \/ store'[k] = x
      BY <2>2, <2>4, Appended
    <3>2. \A m \in DOMAIN store : IsGraph(store[m].graph)
      BY DEF Shaped
    <3> QED
      BY <2>2, <3>1, <3>2
  <2>7. pc' \in {"engine", "fill", "edges", "constrain"} => Len(store') < Len(plan')
    <3>1. Len(store) < Len(plan) /\ plan \in Seq([start : Nat, count : Nat])
      BY <1>6, PlansAssumption DEF Shaped, StoreShard
    <3>2. Len(store) \in Nat /\ Len(store') = Len(store) + 1
      BY <2>2, <2>4
    <3>3. pc' = IF Len(store') = Len(plan) THEN "assemble" ELSE "engine"
      BY <1>6 DEF StoreShard
    <3> QED
      BY <2>3, <3>1, <3>2, <3>3
  <2> QED
    BY <2>3, <2>5, <2>6, <2>7 DEF Shaped
<1>7. CASE Assemble
  <2> DEFINE es == FoldLeft(LAMBDA fs, s : MergeEdges(fs, s.graph.edges), <<>>, store)
  <2>1. dataset' = [nodes |-> MergedNodes, edges |-> es]
    BY <1>7 DEF Assemble
  <2>2. \A id \in DOMAIN MergedNodes : IsPair(id)
    BY DEF Shaped, MergedNodes, IsGraph
  <2>3. IsEdges(es)
    BY AssembledEdges
  <2> HIDE DEF es
  <2>4. IsGraph(dataset')
    BY <2>1, <2>2, <2>3 DEF IsGraph
  <2> QED
    BY <1>7, <2>4 DEF Shaped, Assemble
<1> QED
  BY <1>1, <1>2, <1>3, <1>4, <1>5, <1>6, <1>7 DEF GenNext

\* Nothing is wrong with the empty graph.
LEMMA EmptyIsWell ==
    ASSUME NEW s, NEW share
    PROVE  MadeWell(s, EmptyGraph) /\ AllFit(EmptyGraph, s.ontology) /\ InShare(EmptyGraph, share)
<1>1. DOMAIN EmptyGraph.nodes = {} /\ DOMAIN EmptyGraph.edges = {}
  BY DEF EmptyGraph
<1> QED
  BY <1>1, FS_EmptySet DEF MadeWell, Labelled, IntegersInRange, AllFit, InShare

\* Filling in properties keeps ids, types and edges.
LEMMA FilledWell ==
    ASSUME Shaped, ShardWell, Fill
    PROVE  /\ MadeWell(spec, shard')
           /\ Conforming(spec) => AllFit(shard', spec.ontology)
           /\ Sized(spec) => InShare(shard', plan[Len(store) + 1])
<1>1. spec.method = "hybrid"
  BY DEF ShardWell, Fill
<1>2. /\ shard'.edges = shard.edges
      /\ DOMAIN shard'.nodes = DOMAIN shard.nodes
      /\ \A id \in DOMAIN shard.nodes : shard'.nodes[id].type = shard.nodes[id].type
  <2>1. PICK rows :
          shard' = [shard EXCEPT !.nodes =
            [id \in DOMAIN shard.nodes |->
               LET node == shard.nodes[id]
                   r == rows[node.type]
               IN IF r = <<>> THEN node ELSE ApplyRow(node, r[(Ordinal(id) % Len(r)) + 1])]]
    BY Zenon DEF Fill
  <2> DEFINE row(node, id) == rows[node.type][(Ordinal(id) % Len(rows[node.type])) + 1]
             nodes == [id \in DOMAIN shard.nodes |->
                         IF rows[shard.nodes[id].type] = <<>> THEN shard.nodes[id]
                         ELSE ApplyRow(shard.nodes[id], row(shard.nodes[id], id))]
  <2>2. shard' = [shard EXCEPT !.nodes = nodes]
    BY <2>1
  <2>3. \A id \in DOMAIN shard.nodes : nodes[id].type = shard.nodes[id].type
    <3> HIDE DEF row
    <3>1. ASSUME NEW node, NEW v, NEW id \in DOMAIN shard.nodes, node = shard.nodes[id]
          PROVE  ApplyRow(node, v).type = node.type
      BY DEF ApplyRow
    <3> QED
      BY <3>1
  <2>4. DOMAIN nodes = DOMAIN shard.nodes
    OBVIOUS
  <2> HIDE DEF nodes
  <2>5. shard'.nodes = nodes /\ shard'.edges = shard.edges
    BY <2>2 DEF Shaped, IsGraph
  <2> QED
    BY <2>3, <2>4, <2>5
<1>3. MadeWell(spec, shard')
  BY <1>1, <1>2 DEF ShardWell, MadeWell, Labelled
<1>4. Conforming(spec) => AllFit(shard', spec.ontology)
  BY <1>2 DEF ShardWell, AllFit, Fits
<1>5. Sized(spec) => InShare(shard', plan[Len(store) + 1])
  BY <1>2 DEF ShardWell, InShare
<1> QED
  BY <1>3, <1>4, <1>5

\* The shard under construction stays well.
LEMMA GenShard ==
    ASSUME Shaped, ShardWell, GenNext
    PROVE  ShardWell'
<1>1. CASE GenerateTopology
  <2> DEFINE ids(types) == NodeIds(Current.start, types)
             made(types, maps, pairs) ==
               [nodes |-> NodesOf(ids(types), types, maps), edges |-> MapEdges(ids(types), types, pairs)]
             fit(types, maps) ==
               /\ DOMAIN maps = {types[i] : i \in DOMAIN types}
               /\ \A t \in DOMAIN maps : maps[t] \in TopologyMaps(Latest(spec.ontology.node_types, t))
  <2>1. PICK types \in Assignments(Budget(Current)) :
          \E pairs \in SUBSET Pairs(TopologySize(Budget(Current))) :
          \E maps \in [{types[i] : i \in DOMAIN types} ->
                         UNION {TopologyMaps(spec.ontology.node_types[k]) :
                                  k \in DOMAIN spec.ontology.node_types}] :
            /\ \A t \in DOMAIN maps : maps[t] \in TopologyMaps(Latest(spec.ontology.node_types, t))
            /\ shard' = made(types, maps, pairs)
    BY <1>1, Zenon DEF GenerateTopology
  <2>2. PICK pairs \in SUBSET Pairs(TopologySize(Budget(Current))) : \E maps :
            fit(types, maps) /\ shard' = made(types, maps, pairs)
    BY <2>1
  <2>3. PICK maps : fit(types, maps) /\ shard' = made(types, maps, pairs)
    BY <2>2
  <2>4. pc = "engine" /\ spec.method \in {"topology", "hybrid"} /\ UNCHANGED <<spec, plan, store>>
        /\ (pc' = "fill" => spec.method = "hybrid")
    BY <1>1 DEF GenerateTopology
  <2> DEFINE g == made(types, maps, pairs)
  <2>5. MadeWell(spec, g) /\ (Conforming(spec) => AllFit(g, spec.ontology))
    BY <2>3, <2>4, TopologyWell
  <2>6. Sized(spec) => InShare(g, Current)
    BY <2>4, TopologyShare
  <2> HIDE DEF made
  <2> QED
    BY <2>3, <2>4, <2>5, <2>6 DEF ShardWell, Current
<1>2. CASE Fill
  <2>1. UNCHANGED <<spec, plan, store>> /\ pc' = "constrain"
    BY <1>2 DEF Fill
  <2> QED
    BY <1>2, <2>1, FilledWell DEF ShardWell
<1>3. ASSUME NEW i \in DOMAIN spec.ontology.node_types, NEW given,
             TakeNode(spec.ontology.node_types[i].name, given)
      PROVE  ShardWell'
  <2>1. PICK name, key, props : <<name, key>> \notin DOMAIN shard.nodes
          /\ shard' = [shard EXCEPT !.nodes = With(@, <<name, key>>, [type |-> name, properties |-> props])]
    BY <1>3, Zenon DEF TakeNode
  <2>2. spec.method = "llm" /\ pc = "engine" /\ UNCHANGED <<spec, plan, pc, store>>
    BY <1>3 DEF TakeNode
  <2>3. /\ shard'.edges = shard.edges /\ DOMAIN shard'.nodes = DOMAIN shard.nodes \cup {<<name, key>>}
        /\ shard'.nodes[<<name, key>>].type = name
        /\ \A id \in DOMAIN shard.nodes : shard'.nodes[id] = shard.nodes[id]
    BY <2>1 DEF With, Shaped, IsGraph
  <2>4. MadeWell(spec, shard')
    BY <2>2, <2>3 DEF ShardWell, MadeWell, Labelled
  <2>5. Conforming(spec) => AllFit(shard', spec.ontology)
    BY <2>3 DEF ShardWell, AllFit, Fits
  <2> QED
    BY <2>2, <2>4, <2>5 DEF ShardWell, Sized
<1>4. CASE EndNodes \/ BadReply \/ EndEdges
  <2>1. UNCHANGED <<spec, plan, shard, store>> /\ pc' # "fill"
    BY <1>4 DEF EndNodes, BadReply, EndEdges
  <2> QED
    BY <2>1 DEF ShardWell
<1>5. ASSUME NEW k \in DOMAIN spec.ontology.edge_types, NEW name, name = spec.ontology.edge_types[k].name,
             NEW s, NEW t, TakeEdge(name, s, t)
      PROVE  ShardWell'
  <2> DEFINE et == EdgeTypeOf(spec.ontology, name)
             src == <<et.source_type, s>>
             tgt == <<et.target_type, t>>
  <2>1. /\ src \in DOMAIN shard.nodes /\ tgt \in DOMAIN shard.nodes
        /\ shard' = [shard EXCEPT !.edges = AddEdge(@, et.name, src, tgt)]
        /\ pc = "edges" /\ UNCHANGED <<spec, plan, pc, store>>
    BY <1>5 DEF TakeEdge
  <2>2. et # None /\ et.name = name
    <3> DEFINE ets == spec.ontology.edge_types
    <3>1. ets \in Seq(ToSet(ets)) /\ \A i \in DOMAIN ets : ets[i].name # "none"
      BY OntologiesAssumption DEF Shaped
    <3> HIDE DEF ets
    <3>2. DOMAIN ets = 1..Len(ets)
      BY <3>1
    <3>3. k \in 1..Len(ets) /\ name = ets[k].name /\ name # "none"
      BY <1>5, <3>1, <3>2 DEF ets
    <3>4. First(ets, name) # None
      BY <3>3, FirstExists
    <3>5. First(ets, name).name = name
      BY <3>4, FirstFound
    <3> QED
      BY <3>4, <3>5 DEF ets, EdgeTypeOf
  <2> HIDE DEF et
  <2>3. shard'.nodes = shard.nodes /\ shard'.edges = AddEdge(shard.edges, et.name, src, tgt)
    BY <2>1 DEF Shaped, IsGraph
  <2>4. Labelled(shard)
    BY DEF ShardWell, MadeWell
  <2>5. shard.nodes[src].type = et.source_type /\ shard.nodes[tgt].type = et.target_type
    BY <2>1, <2>4 DEF Labelled
  <2>6. ASSUME NEW f, f.type = et.name, f.source = src, f.target = tgt
        PROVE  Fits(shard, spec.ontology, f)
    BY <2>1, <2>2, <2>5, <2>6 DEF Fits, et
  <2>7. ASSUME Conforming(spec), NEW i \in DOMAIN shard'.edges
        PROVE  Fits(shard', spec.ontology, shard'.edges[i])
    <3> DEFINE f == shard'.edges[i]
    <3>1. (\E j \in DOMAIN shard.edges : f = shard.edges[j])
          \/ (f.type = et.name /\ f.source = src /\ f.target = tgt)
      BY <2>3, <2>7, AddedIs DEF Shaped, IsGraph
    <3> HIDE DEF f, src, tgt
    <3>2. Fits(shard, spec.ontology, f)
      BY <2>6, <2>7, <3>1 DEF ShardWell, AllFit
    <3> QED
      BY <2>3, <3>2 DEF Fits, f
  <2>8. MadeWell(spec, shard') /\ (Sized(spec) => InShare(shard', plan[Len(store) + 1]))
    BY <2>3 DEF ShardWell, MadeWell, Labelled, IntegersInRange, InShare
  <2> QED
    BY <2>1, <2>7, <2>8 DEF ShardWell, AllFit
<1>6. CASE StoreShard
  <2>1. shard' = EmptyGraph /\ UNCHANGED <<spec, plan>> /\ pc' # "fill"
    BY <1>6 DEF StoreShard
  <2> QED
    BY <2>1, EmptyIsWell DEF ShardWell
<1>7. CASE Assemble
  <2>1. UNCHANGED <<spec, plan, shard, store>> /\ pc' # "fill"
    BY <1>7 DEF Assemble
  <2> QED
    BY <2>1 DEF ShardWell
<1> QED
  BY <1>1, <1>2, <1>3, <1>4, <1>5, <1>6, <1>7 DEF GenNext

\* So do the uploaded ones.
LEMMA GenStore ==
    ASSUME Shaped, ShardWell, StoreWell, GenNext
    PROVE  StoreWell'
<1>1. CASE StoreShard
  <2> DEFINE n == IF shard.edges = <<>> THEN 0 ELSE spec.inject
  <2>1. n \in Nat /\ (spec.inject = 0 => n = 0)
    BY SpecsAssumption DEF Shaped
  <2>2. PICK templates \in [1..n -> DOMAIN shard.edges] : \E found :
          store' = Append(store, [graph |-> Injected(shard, templates), injected |-> n,
                                  violations |-> found])
    BY <1>1, Zenon DEF StoreShard
  <2>3. PICK found :
          store' = Append(store, [graph |-> Injected(shard, templates), injected |-> n,
                                  violations |-> found])
    BY <2>2
  <2> HIDE DEF n
  <2> DEFINE x == [graph |-> Injected(shard, templates), injected |-> n, violations |-> found]
             K == Len(store) + 1
  <2>4. store' = Append(store, x) /\ x.graph = Injected(shard, templates) /\ x.injected = n
    BY <2>3
  <2> HIDE DEF x
  <2>5. StoredWell(spec, x)
    BY <2>1, <2>4, StoredIsWell
  <2>6. x.graph.nodes = shard.nodes
    BY <2>1, <2>4, InjectedParts DEF Shaped, Dangles
  <2>7. Sized(spec) => K \in DOMAIN plan /\ InShare(x.graph, plan[K])
    <3>1. Len(store) < Len(plan) /\ plan \in Seq([start : Nat, count : Nat])
      BY <1>1, PlansAssumption DEF Shaped, StoreShard
    <3>2. Len(store) \in Nat
      BY DEF Shaped
    <3>3. K \in DOMAIN plan
      BY <3>1, <3>2
    <3> QED
      BY <2>6, <3>3 DEF ShardWell, InShare
  <2>8. \E S : store \in Seq(S)
    BY DEF Shaped
  <2>9. UNCHANGED <<spec, plan>>
    BY <1>1 DEF StoreShard
  <2> SUFFICES ASSUME NEW k \in DOMAIN store'
               PROVE  /\ StoredWell(spec, store'[k])
                      /\ Sized(spec) => k \in DOMAIN plan /\ InShare(store'[k].graph, plan[k])
    BY <2>9 DEF StoreWell
  <2>10. (k \in DOMAIN store /\ store'[k] = store[k]) \/ (k = K /\ store'[k] = x)
    BY <2>4, <2>8
  <2> HIDE DEF K
  <2> QED
    BY <2>5, <2>7, <2>10 DEF StoreWell
<1>2. CASE UNCHANGED <<spec, plan, store>>
  BY <1>2 DEF StoreWell
<1> QED
  BY <1>1, <1>2 DEF GenNext, GenerateTopology, Fill, TakeNode, EndNodes, BadReply, TakeEdge, EndEdges,
                    Assemble

\* What is assembled conforms.
LEMMA GenDataset ==
    ASSUME Shaped, StoreWell, DatasetWell, GenNext
    PROVE  DatasetWell'
<1>1. CASE Assemble
  <2> DEFINE es == FoldLeft(LAMBDA fs, s : MergeEdges(fs, s.graph.edges), <<>>, store)
  <2>1. dataset' = [nodes |-> MergedNodes, edges |-> es] /\ spec' = spec
    BY <1>1 DEF Assemble
  <2>2. \A i \in DOMAIN es : \E k \in DOMAIN store : \E j \in DOMAIN store[k].graph.edges :
          es[i] = store[k].graph.edges[j]
    BY AssembledEdges
  <2> HIDE DEF es
  <2>3. dataset'.nodes = MergedNodes /\ dataset'.edges = es
    BY <2>1
  <2>4. spec.inject = 0 /\ Conforming(spec) => AllFit(dataset', spec.ontology)
    BY <2>2, <2>3, AssembledFits
  <2> QED
    BY <2>1, <2>4 DEF DatasetWell
<1>2. CASE pc' # "done"
  BY <1>2 DEF DatasetWell
<1> QED
  BY <1>1, <1>2 DEF GenNext, GenerateTopology, Fill, TakeNode, EndNodes, BadReply, TakeEdge, EndEdges,
                    StoreShard

\* The shares of a plan do not overlap.
LEMMA SharesFollow ==
    ASSUME plan \in Plans, NEW k \in DOMAIN plan, NEW m \in DOMAIN plan, k < m
    PROVE  /\ plan[k].start \in Nat /\ plan[k].count \in Nat /\ plan[m].start \in Nat
           /\ plan[k].start + plan[k].count <= plan[m].start
           /\ Budget(plan[k]) = plan[k].count
<1> DEFINE S == [start : Nat, count : Nat]
           n == Len(plan)
           Good == {d \in Nat : k + d + 1 <= n => plan[k].start + plan[k].count <= plan[k + d + 1].start}
<1>1. plan \in Seq(S) /\ \A i \in 2..n : plan[i].start = plan[i - 1].start + plan[i - 1].count
  BY PlansAssumption
<1>2. n \in Nat /\ DOMAIN plan = 1..n /\ \A i \in 1..n : plan[i] \in S
  <2> HIDE DEF S
  <2> QED
    BY <1>1
<1>3. \A i \in 1..n : plan[i].start \in Nat /\ plan[i].count \in Nat
  BY <1>2
<1>4. k \in 1..n /\ m \in 1..n /\ k < m
  BY <1>2
<1>a. n \in Nat /\ k \in Nat /\ 1 <= k
  BY <1>2, <1>4
<1>b. Budget(plan[k]) = plan[k].count
  <2>1. n > 1
    BY <1>2, <1>4
  <2>2. plan[k].count > 0 /\ plan[k].count \in Nat
    BY <1>3, <1>4, <2>1, PlansAssumption
  <2> QED
    BY <2>2 DEF Budget
<1> HIDE DEF n, S
<1>5. 0 \in Good
  <2>1. ASSUME k + 0 + 1 <= n
        PROVE  plan[k].start + plan[k].count <= plan[k + 0 + 1].start
    <3>0. k \in Nat /\ n \in Nat /\ 1 <= k /\ k + 1 <= n
      BY <1>a, <2>1
    <3>1. k + 1 \in 2..n /\ (k + 1) - 1 = k /\ k + 0 + 1 = k + 1
      BY <3>0
    <3>2. plan[k + 1].start = plan[k].start + plan[k].count
      BY <1>1, <3>1
    <3> QED
      BY <1>3, <1>4, <3>1, <3>2
  <2> QED
    BY <2>1
<1>6. ASSUME NEW d \in Nat, d \in Good
      PROVE  d + 1 \in Good
  <2>1. ASSUME k + (d + 1) + 1 <= n
        PROVE  plan[k].start + plan[k].count <= plan[k + (d + 1) + 1].start
    <3> DEFINE i == k + d + 1
    <3>1. i \in 1..n /\ i + 1 \in 2..n /\ (i + 1) - 1 = i /\ k + (d + 1) + 1 = i + 1 /\ i <= n
      BY <1>2, <1>4, <2>1
    <3>2. plan[k].start + plan[k].count <= plan[i].start
      BY <1>6, <3>1
    <3> HIDE DEF i
    <3>3. plan[i + 1].start = plan[i].start + plan[i].count
      BY <1>1, <3>1
    <3> QED
      BY <1>3, <1>4, <3>1, <3>2, <3>3
  <2> QED
    BY <2>1
<1>7. Nat \subseteq Good
  <2> HIDE DEF Good
  <2> QED
    BY <1>5, <1>6, NatSteps
<1>8. m - k - 1 \in Nat /\ k + (m - k - 1) + 1 = m /\ m <= n
  BY <1>2, <1>4
<1>9. plan[k].start + plan[k].count <= plan[m].start
  BY <1>7, <1>8
<1> QED
  BY <1>3, <1>4, <1>9, <1>b

\* No two shards have a node of one id, so that the nodes add up.
LEMMA NodesAddUp ==
    ASSUME Shaped, StoreWell, Sized(spec)
    PROVE  Cardinality(DOMAIN MergedNodes)
             = SeqSum([k \in DOMAIN store |-> Cardinality(DOMAIN store[k].graph.nodes)])
<1> DEFINE n == Len(store)
           D(k) == DOMAIN store[k].graph.nodes
           U(j) == UNION {D(k) : k \in 1..j}
           sizes == [k \in DOMAIN store |-> Cardinality(D(k))]
<1>1. n \in Nat /\ DOMAIN store = 1..n
  BY DEF Shaped
<1>2. \A k \in 1..n : IsFiniteSet(D(k)) /\ k \in DOMAIN plan /\ InShare(store[k].graph, plan[k])
  BY <1>1 DEF StoreWell, InShare
<1>3. \A k, m \in 1..n : k < m => D(k) \cap D(m) = {}
  <2> SUFFICES ASSUME NEW k \in 1..n, NEW m \in 1..n, k < m, NEW id \in D(k), id \in D(m)
               PROVE  FALSE
    OBVIOUS
  <2>1. /\ id[2] \in plan[k].start..(plan[k].start + Budget(plan[k]) - 1)
        /\ id[2] \in plan[m].start..(plan[m].start + Budget(plan[m]) - 1)
    BY <1>2 DEF InShare
  <2>2. /\ plan[k].start \in Nat /\ plan[k].count \in Nat /\ plan[m].start \in Nat
        /\ plan[k].start + plan[k].count <= plan[m].start
        /\ Budget(plan[k]) = plan[k].count
    BY <1>2, SharesFollow DEF Shaped
  <2> HIDE DEF D
  <2> QED
    BY <2>1, <2>2
<1>4. DOMAIN sizes = 1..n /\ \A k \in 1..n : sizes[k] = Cardinality(D(k)) /\ sizes[k] \in Nat
  <2>1. \A k \in 1..n : Cardinality(D(k)) \in Nat
    BY <1>2, FS_CardinalityType
  <2> QED
    BY <1>1, <2>1
<1>5. DOMAIN MergedNodes = U(n)
  BY <1>1 DEF MergedNodes
<1> HIDE DEF n, D, sizes
<1>6. PICK r : SumsUp(r, sizes, n) /\ SeqSum(sizes) = r[n]
  BY <1>1, <1>4, SumRuns
<1> DEFINE Good == {j \in Nat : j <= n => IsFiniteSet(U(j)) /\ Cardinality(U(j)) = r[j]}
<1>7. 0 \in Good
  <2>1. U(0) = {}
    OBVIOUS
  <2> HIDE DEF U
  <2>2. IsFiniteSet(U(0)) /\ Cardinality(U(0)) = 0 /\ r[0] = 0
    BY <1>6, <2>1, FS_EmptySet DEF SumsUp
  <2> QED
    BY <2>2
<1>8. ASSUME NEW j \in Nat, j \in Good
      PROVE  j + 1 \in Good
  <2> SUFFICES ASSUME j + 1 <= n
               PROVE  IsFiniteSet(U(j + 1)) /\ Cardinality(U(j + 1)) = r[j + 1]
    OBVIOUS
  <2>1. j <= n /\ j + 1 \in 1..n /\ (j + 1) - 1 = j
    BY <1>1
  <2>2. IsFiniteSet(U(j)) /\ Cardinality(U(j)) = r[j]
    BY <1>8, <2>1
  <2>3. U(j + 1) = U(j) \cup D(j + 1)
    <3>1. 1..(j + 1) = (1..j) \cup {j + 1}
      OBVIOUS
    <3> QED
      BY <3>1
  <2>4. U(j) \cap D(j + 1) = {}
    <3>1. \A k \in 1..j : k \in 1..n /\ k < j + 1
      BY <1>1, <2>1
    <3>2. \A k \in 1..j : D(k) \cap D(j + 1) = {}
      BY <1>3, <2>1, <3>1
    <3> QED
      BY <3>2
  <2> HIDE DEF U
  <2>5. IsFiniteSet(D(j + 1)) /\ Cardinality(D(j + 1)) \in Nat /\ Cardinality(U(j)) \in Nat
    BY <1>2, <2>1, <2>2, FS_CardinalityType
  <2>6. /\ IsFiniteSet(U(j + 1))
        /\ Cardinality(U(j + 1)) = Cardinality(U(j)) + Cardinality(D(j + 1)) - Cardinality({})
    BY <2>2, <2>3, <2>4, <2>5, FS_Union
  <2>7. Cardinality({}) = 0
    BY FS_EmptySet
  <2>8. r[j + 1] = r[j] + Cardinality(D(j + 1))
    BY <1>4, <1>6, <2>1 DEF SumsUp
  <2> QED
    BY <2>2, <2>5, <2>6, <2>7, <2>8
<1>9. n \in Good
  <2> HIDE DEF Good
  <2> QED
    BY <1>1, <1>7, <1>8, NatSteps
<1>10. Cardinality(U(n)) = r[n]
  <2> HIDE DEF U
  <2> QED
    BY <1>1, <1>9
<1>11. sizes = [k \in DOMAIN store |-> Cardinality(DOMAIN store[k].graph.nodes)]
  BY DEF sizes, D
<1> HIDE DEF U
<1> QED
  BY <1>5, <1>6, <1>10, <1>11

\* Assembling loses no node.
LEMMA GenNodes ==
    ASSUME Shaped, StoreWell, GenNext
    PROVE  NoNodeLost'
<1>1. CASE Assemble
  <2> DEFINE es == FoldLeft(LAMBDA fs, s : MergeEdges(fs, s.graph.edges), <<>>, store)
  <2>1. dataset' = [nodes |-> MergedNodes, edges |-> es] /\ UNCHANGED <<spec, store>>
    BY <1>1 DEF Assemble
  <2> HIDE DEF es
  <2>2. dataset'.nodes = MergedNodes
    BY <2>1
  <2>3. Sized(spec) =>
          Cardinality(DOMAIN dataset'.nodes)
            = SeqSum([k \in DOMAIN store |-> Cardinality(DOMAIN store[k].graph.nodes)])
    BY <2>2, NodesAddUp
  <2> QED
    BY <2>1, <2>3 DEF NoNodeLost, Sized
<1>2. CASE pc' # "done"
  BY <1>2 DEF NoNodeLost
<1> QED
  BY <1>1, <1>2 DEF GenNext, GenerateTopology, Fill, TakeNode, EndNodes, BadReply, TakeEdge, EndEdges,
                    StoreShard

\* So are the graphs of the perturbations.
LEMMA PtbShape ==
    ASSUME Shaped, PtbNext
    PROVE  Shaped'
<1>1. IsGraph(dataset')
  <2>1. PICK q \in Intensities :
          \/ Rewire(q) \/ RewireDegreePreserving(q)
          \/ \E target \in {"edges", "nodes", "both"} : Dropout(q, target)
          \/ OntologyViolation(q)
    BY DEF PtbNext
  <2>0. IsGraph(dataset) /\ IsEdges(dataset.edges)
    BY DEF Shaped, IsGraph
  <2>2. CASE Rewire(q)
    <3>1. PICK targets : dataset' = [dataset EXCEPT !.edges = Retarget(dataset.edges, targets)]
      BY <2>2, Zenon DEF Rewire, Perturbed
    <3> QED
      BY <2>0, <3>1, RetargetedEdges DEF IsGraph
  <2>3. CASE RewireDegreePreserving(q)
    <3>1. PICK es \in AlikeEdges(dataset.edges) : dataset' = [dataset EXCEPT !.edges = es]
      BY <2>0, <2>3, RewiredAlike DEF Perturbed
    <3>2. IsEdges(es)
      BY <2>0, AlikeParts
    <3> QED
      BY <2>0, <3>1, <3>2 DEF IsGraph
  <2>4. ASSUME NEW target, Dropout(q, target)
        PROVE  IsGraph(dataset')
    <3>1. PICK drop :
            \E cut : dataset' = [(IF target = "edges" THEN dataset ELSE DropNodes(dataset, drop))
                                   EXCEPT !.edges = DropEdges(@, cut)]
      BY <2>4, Zenon DEF Dropout, Perturbed
    <3> DEFINE g == IF target = "edges" THEN dataset ELSE DropNodes(dataset, drop)
    <3>2. PICK cut : dataset' = [g EXCEPT !.edges = DropEdges(@, cut)]
      BY <3>1
    <3>3. IsGraph(g)
      BY <2>0, ChosenEdges DEF IsGraph, DropNodes
    <3> HIDE DEF g
    <3> QED
      BY <3>2, <3>3, ChosenEdges DEF IsGraph, DropEdges
  <2>5. CASE OntologyViolation(q)
    <3>1. PICK N, S, nodes, targets : Broke(N, S, nodes, targets)
      BY <2>5, ViolationParts
    <3>2. /\ dataset' = [nodes |-> nodes, edges |-> Retarget(dataset.edges, targets)]
          /\ DOMAIN nodes = DOMAIN dataset.nodes
      BY <3>1 DEF Broke, Perturbed
    <3> QED
      BY <2>0, <3>2, RetargetedEdges DEF IsGraph
  <2> QED
    BY <2>1, <2>2, <2>3, <2>4, <2>5
<1> QED
  BY <1>1, PerturbPhases DEF Shaped

\* What a family recorded: only the violation family records a violation.
LEMMA PtbFlags ==
    ASSUME spec \in Specs, IsGraph(dataset), PtbNext
    PROVE  Flagged'
<1>1. PICK q \in Intensities :
        \/ Rewire(q) \/ RewireDegreePreserving(q)
        \/ \E target \in {"edges", "nodes", "both"} : Dropout(q, target)
        \/ OntologyViolation(q)
  BY DEF PtbNext
<1>2. CASE Rewire(q)
  <2>1. job'.family = "rewire"
    BY <1>2 DEF Rewire, Perturbed
  <2> QED
    BY <2>1 DEF Flagged
<1>3. CASE RewireDegreePreserving(q)
  <2>1. job'.family = "degree_preserving"
    BY <1>3 DEF RewireDegreePreserving, Perturbed
  <2> QED
    BY <2>1 DEF Flagged
<1>4. ASSUME NEW target, Dropout(q, target)
      PROVE  Flagged'
  <2>1. job'.family = "dropout"
    BY <1>4 DEF Dropout, Perturbed
  <2> QED
    BY <2>1 DEF Flagged
<1>5. CASE OntologyViolation(q)
  BY <1>5, ViolationFlags
<1> QED
  BY <1>1, <1>2, <1>3, <1>4, <1>5

\* Degree-preserving rewiring keeps the degrees, and no other family is asked to.
LEMMA PtbDegrees ==
    ASSUME IsGraph(dataset), PtbNext
    PROVE  DegreesPreserved'
<1>1. PICK q \in Intensities :
        \/ Rewire(q) \/ RewireDegreePreserving(q)
        \/ \E target \in {"edges", "nodes", "both"} : Dropout(q, target)
        \/ OntologyViolation(q)
  BY DEF PtbNext
<1>2. CASE Rewire(q)
  <2>1. job'.family = "rewire"
    BY <1>2 DEF Rewire, Perturbed
  <2> QED
    BY <2>1 DEF DegreesPreserved
<1>3. CASE RewireDegreePreserving(q)
  <2>1. PICK f \in AlikeEdges(dataset.edges) :
          Perturbed([dataset EXCEPT !.edges = f],
                    [family |-> "degree_preserving", nodes |-> {}, edges |-> {}])
    BY <1>3, RewiredAlike
  <2>2. dataset' = [dataset EXCEPT !.edges = f] /\ parent' = dataset
    BY <2>1 DEF Perturbed
  <2>3. dataset'.edges = f
    BY <2>2 DEF IsGraph
  <2>4. IsEdges(dataset.edges)
    BY DEF IsGraph
  <2>5. /\ \A node : InDegree(f, node) = InDegree(dataset.edges, node)
        /\ \A node : OutEdges(f, node) = OutEdges(dataset.edges, node)
    BY <2>4, AlikeParts
  <2>6. /\ \A node : InDegree(dataset'.edges, node) = InDegree(parent'.edges, node)
        /\ \A node : OutEdges(dataset'.edges, node) = OutEdges(parent'.edges, node)
    BY <2>2, <2>3, <2>5
  <2> QED
    BY <2>6 DEF DegreesPreserved
<1>4. ASSUME NEW target, Dropout(q, target)
      PROVE  DegreesPreserved'
  <2>1. job'.family = "dropout"
    BY <1>4 DEF Dropout, Perturbed
  <2> QED
    BY <2>1 DEF DegreesPreserved
<1>5. CASE OntologyViolation(q)
  <2>1. PICK N, S, nodes, targets : Broke(N, S, nodes, targets)
    BY <1>5, ViolationParts
  <2>2. job'.family = "violation"
    BY <2>1 DEF Broke, Perturbed
  <2> QED
    BY <2>2 DEF DegreesPreserved
<1> QED
  BY <1>1, <1>2, <1>3, <1>4, <1>5

\* The neighbours of a node depend on the graph and the ontology.
LEMMA SameNeighbors ==
    ASSUME UNCHANGED <<spec, dataset>>, NEW CONSTANT id, NEW CONSTANT rel
    PROVE  TypedNeighbors(id, rel)' = TypedNeighbors(id, rel)
  BY DEF TypedNeighbors

\* Every item that may be made of a path is honest.
LEMMA BuiltHonest ==
    ASSUME NEW path, NEW family \in Families, NEW item \in Built(path, family)
    PROVE  Honest(item)
<1>1. CASE family = "chained_relation"
  <2>1. item.answer[1] = "node"
    BY <1>1, SMT DEF Built
  <2> QED
    BY <2>1 DEF Honest
<1>2. CASE family = "aggregation_count"
  <2>1. item.answer[1] = "count"
    BY <1>2, SMT DEF Built
  <2> QED
    BY <2>1 DEF Honest
<1>3. CASE family = "existence_negation"
  <2>1. /\ item.answer = <<"exists", TypedNeighbors(StartOf(path), item.relation) # {}>>
        /\ item.path = path
    BY <1>3, SMT DEF Built
  <2> DEFINE some == TypedNeighbors(StartOf(path), item.relation) # {}
  <2>2. item.answer[2] = some
    BY <2>1
  <2>3. ASSUME item.answer = <<"exists", FALSE>>
        PROVE  ~some
    <3>1. item.answer[2] = FALSE
      BY <2>3
    <3> HIDE DEF some
    <3> QED
      BY <2>2, <3>1, Zenon
  <2> QED
    BY <2>1, <2>3 DEF Honest
<1>4. CASE family = "comparison"
  <2>1. item.answer[1] = "more"
    BY <1>4, SMT DEF Built
  <2> QED
    BY <2>1 DEF Honest
<1> QED
  BY <1>1, <1>2, <1>3, <1>4 DEF Families

\* An honest item stays honest while the graph does not change.
LEMMA StaysHonest ==
    ASSUME UNCHANGED <<spec, dataset>>, NEW CONSTANT item, Honest(item)
    PROVE  Honest(item)'
<1>1. TypedNeighbors(StartOf(item.path), item.relation)'
        = TypedNeighbors(StartOf(item.path), item.relation)
  BY SameNeighbors DEF StartOf
<1> QED
  BY <1>1 DEF Honest

\* The questions are asked of a graph that does not change.
LEMMA QaKeeps ==
    ASSUME Denials, QaNext, UNCHANGED <<spec, dataset>>
    PROVE  Denials'
<1>1. ASSUME NEW family \in Families, Ask(family)
      PROVE  Denials'
  <2>1. PICK item \in Built(paths[Len(items) + 1], family) : items' = Append(items, item)
    BY <1>1 DEF Ask
  <2>2. \A j \in DOMAIN items' : (j \in DOMAIN items /\ items'[j] = items[j]) \/ items'[j] = item
    BY <2>1, Appended DEF Denials
  <2>3. \E S : items' \in Seq(S)
    BY <2>1, Appended DEF Denials
  <2>4. ASSUME NEW CONSTANT i, i = item \/ \E j \in DOMAIN items : i = items[j]
        PROVE  Honest(i)'
    <3>1. Honest(i)
      BY <2>4, BuiltHonest DEF Denials
    <3> QED
      BY <3>1, StaysHonest
  <2>5. \A j \in DOMAIN items' : Honest(items[j])'
    BY <2>2, <2>4
  <2>6. qa' # "idle"
    BY <1>1 DEF Ask
  <2> QED
    BY <2>3, <2>5, <2>6 DEF Denials
<1>2. ASSUME UNCHANGED items, qa' # "idle"
      PROVE  Denials'
  <2>1. ASSUME NEW CONSTANT i, \E j \in DOMAIN items : i = items[j]
        PROVE  Honest(i)'
    BY <2>1, StaysHonest DEF Denials
  <2> QED
    BY <1>2, <2>1 DEF Denials
<1>3. CASE \E start, len : StartWalk(start, len)
  BY <1>2, <1>3 DEF StartWalk
<1>4. CASE \E hop : Walk(hop)
  BY <1>2, <1>4 DEF Walk
<1>5. CASE EndWalk
  BY <1>2, <1>5 DEF EndWalk
<1>6. CASE EndSampling
  BY <1>2, <1>6 DEF EndSampling
<1> QED
  BY <1>1, <1>3, <1>4, <1>5, <1>6 DEF QaNext

-----------------------------------------------------------------------------
(* Question sets.                                                          *)

\* An edge is found under its id; without shared ids it is that edge.
LEMMA FoundById ==
    ASSUME IsEdges(dataset.edges), NEW e \in ToSet(dataset.edges)
    PROVE  /\ EdgeKnown(e.id) /\ EdgeById(e.id) \in ToSet(dataset.edges)
           /\ EdgeIdsUnique(dataset.edges) => EdgeById(e.id) = e
<1> DEFINE es == dataset.edges
           same == {i \in 1..Len(es) : es[i].id = e.id}
<1>1. Len(es) \in Nat /\ DOMAIN es = 1..Len(es)
  BY SeqParts DEF IsEdges
<1>2. PICK i \in DOMAIN es : e = es[i]
  BY DEF ToSet
<1>3. i \in same
  BY <1>1, <1>2
<1>4. SelectLastInSeq(es, LAMBDA f : f.id = e.id) = IF same # {} THEN Max(same) ELSE 0
  BY DEF SelectLastInSeq
<1>5. Max(same) \in same
  <2>1. same \in SUBSET (1..Len(es)) /\ same # {}
    BY <1>3
  <2> HIDE DEF same
  <2> QED
    BY <1>1, <2>1, MaxIsIn
<1>6. EdgeById(e.id) = es[Max(same)]
  <2>1. same # {}
    BY <1>3
  <2> HIDE DEF same
  <2> QED
    BY <1>4, <2>1 DEF EdgeById
<1>7. Max(same) \in DOMAIN es /\ es[Max(same)].id = e.id
  BY <1>1, <1>5
<1> HIDE DEF same
<1>8. EdgeIdsUnique(es) => Max(same) = i
  BY <1>2, <1>7 DEF EdgeIdsUnique
<1>9. EdgeById(e.id) \in ToSet(es)
  BY <1>6, <1>7 DEF ToSet
<1> QED
  BY <1>2, <1>6, <1>8, <1>9 DEF EdgeKnown

\* A simple path has one node more than hops.
LEMMA SimplePath ==
    ASSUME NEW g, NEW o, NEW path, WellPath(g, o, path)
    PROVE  Cardinality(PathNodes(path)) = Len(path.hops) + 1
<1> DEFINE n == Len(path.hops)
           P == PathNodes(path)
           f == [k \in 1..(n + 1) |-> IF k <= n THEN path.hops[k][1] ELSE path.terminal]
<1>1. n \in Nat /\ DOMAIN path.hops = 1..n
  BY SeqParts DEF WellPath
<1>2. P = {path.hops[k][1] : k \in 1..n} \cup {path.terminal}
  BY <1>1 DEF PathNodes
<1>3. /\ \A j, k \in 1..n : path.hops[j][1] = path.hops[k][1] => j = k
      /\ \A k \in 1..n : path.hops[k][1] # path.terminal
  BY <1>1 DEF WellPath
<1> HIDE DEF n
<1>4. \A k \in 1..(n + 1) : f[k] = IF k <= n THEN path.hops[k][1] ELSE path.terminal
  OBVIOUS
<1>5. \A k \in 1..(n + 1) : (k \in 1..n /\ k <= n) \/ (k = n + 1 /\ ~(k <= n))
  BY <1>1
<1>6. f \in [1..(n + 1) -> P]
  BY <1>2, <1>5
<1>7. \A j, k \in 1..(n + 1) : f[j] = f[k] => j = k
  <2> HIDE DEF f
  <2> QED
    BY <1>3, <1>4, <1>5
<1>8. \A x \in P : \E k \in 1..(n + 1) : f[k] = x
  <2>1. ASSUME NEW k \in 1..n
        PROVE  \E j \in 1..(n + 1) : f[j] = path.hops[k][1]
    <3>1. k \in 1..(n + 1) /\ k <= n
      BY <1>1
    <3> HIDE DEF f
    <3> QED
      BY <1>4, <3>1
  <2>2. f[n + 1] = path.terminal /\ n + 1 \in 1..(n + 1)
    BY <1>1
  <2> HIDE DEF f, P
  <2> QED
    BY <1>2, <2>1, <2>2
<1>9. f \in Bijection(1..(n + 1), P)
  <2> HIDE DEF f, P
  <2> QED
    BY <1>6, <1>7, <1>8 DEF Bijection, Injection, Surjection, IsInjective
<1>10. IsFiniteSet(1..(n + 1)) /\ Cardinality(1..(n + 1)) = n + 1
  BY <1>1, FS_Interval
<1>11. Cardinality(P) = Cardinality(1..(n + 1))
  <2> HIDE DEF f, P
  <2> QED
    BY <1>9, <1>10, FS_Bijection DEF ExistsBijection
<1> QED
  BY <1>10, <1>11 DEF n

\* Edge e leads from node id to the next one, as the ontology allows.
Leads(o, e, id, next) ==
  \/ e.source = id /\ e.target = next
  \/ e.target = id /\ e.source = next /\ ~DirectedOf(o, e.type)

Extended(path, e, next) ==
  [hops |-> Append(path.hops, <<path.terminal, e.id>>), terminal |-> next]

\* One hop more to a node that was not visited.
LEMMA LongerPath ==
    ASSUME NEW g, NEW o, NEW path, WellPath(g, o, path), NEW next \in DOMAIN g.nodes, next \notin PathNodes(path),
           NEW e \in ToSet(g.edges), Leads(o, e, path.terminal, next)
    PROVE  /\ WellPath(g, o, Extended(path, e, next))
           /\ Len(Extended(path, e, next).hops) = Len(path.hops) + 1
<1> DEFINE longer == Extended(path, e, next)
           n == Len(path.hops)
           h == <<path.terminal, e.id>>
<1>1. n \in Nat /\ DOMAIN path.hops = 1..n
  BY SeqParts DEF WellPath
<1>2. /\ IsSeq(longer.hops) /\ Len(longer.hops) = n + 1 /\ DOMAIN longer.hops = 1..(n + 1)
      /\ \A k \in 1..n : longer.hops[k] = path.hops[k]
      /\ longer.hops[n + 1] = h
  <2>1. PICK S : path.hops \in Seq(S)
    BY DEF WellPath, IsSeq
  <2>2. path.hops \in Seq(S \cup {h})
    BY <2>1
  <2>3. longer.hops = Append(path.hops, h)
    BY DEF Extended
  <2> HIDE DEF h, longer
  <2>4. longer.hops \in Seq(S \cup {h}) /\ Len(longer.hops) = n + 1
        /\ \A k \in 1..n : longer.hops[k] = path.hops[k]
    BY <2>2, <2>3
  <2>5. longer.hops[n + 1] = h
    BY <2>2, <2>3
  <2> QED
    BY <2>4, <2>5 DEF IsSeq
<1>3. longer.terminal = next
  BY DEF Extended
<1>4. h[1] = path.terminal /\ h[2] = e.id
  OBVIOUS
<1> HIDE DEF n, h, longer
<1>5. \A k \in 1..(n + 1) : k \in 1..n \/ k = n + 1
  BY <1>1
<1>a. n + 1 \in 1..(n + 1) /\ \A k \in 1..n : k \in 1..(n + 1) /\ k # n + 1
  BY <1>1
<1>6. PathNodes(path) = {path.hops[k][1] : k \in 1..n} \cup {path.terminal}
  BY <1>1 DEF PathNodes
<1>7. PathNodes(longer) = PathNodes(path) \cup {next}
  <2>1. PathNodes(longer) = {longer.hops[k][1] : k \in 1..(n + 1)} \cup {next}
    BY <1>2, <1>3 DEF PathNodes
  <2>2. {longer.hops[k][1] : k \in 1..(n + 1)} = {path.hops[k][1] : k \in 1..n} \cup {path.terminal}
    BY <1>2, <1>4, <1>5, <1>a
  <2> QED
    BY <1>6, <2>1, <2>2
<1>8. \A k \in 1..n : longer.hops[k][1] = path.hops[k][1] /\ path.hops[k][1] # path.terminal
                     /\ path.hops[k][1] # next
  BY <1>1, <1>2, <1>6 DEF WellPath
<1>9. longer.hops[n + 1][1] = path.terminal /\ path.terminal # next
  BY <1>2, <1>4, <1>6
<1>10. \A j, k \in 1..n : path.hops[j][1] = path.hops[k][1] => j = k
  BY <1>1 DEF WellPath
<1>11. \A j, k \in 1..(n + 1) : longer.hops[j][1] = longer.hops[k][1] => j = k
  <2> SUFFICES ASSUME NEW j \in 1..(n + 1), NEW k \in 1..(n + 1), longer.hops[j][1] = longer.hops[k][1]
               PROVE  j = k
    OBVIOUS
  <2>1. CASE j \in 1..n /\ k \in 1..n
    BY <1>8, <1>10, <2>1
  <2>2. CASE j \in 1..n /\ k = n + 1
    BY <1>8, <1>9, <2>2
  <2>3. CASE j = n + 1 /\ k \in 1..n
    BY <1>8, <1>9, <2>3
  <2> QED
    BY <1>5, <2>1, <2>2, <2>3
<1>12. \A k \in 1..(n + 1) : longer.hops[k][1] # longer.terminal
  BY <1>3, <1>5, <1>8, <1>9
<1>13. ASSUME NEW k \in 1..n
       PROVE  \E f \in ToSet(g.edges) : Hop(o, f, longer, k)
  <2>1. PICK f \in ToSet(g.edges) : Hop(o, f, path, k)
    BY <1>1 DEF WellPath
  <2> DEFINE from == path.hops[k][1]
             to == IF k = n THEN path.terminal ELSE path.hops[k + 1][1]
  <2>2. /\ f.id = path.hops[k][2]
        /\ \/ f.source = from /\ f.target = to
           \/ f.target = from /\ f.source = to /\ ~DirectedOf(o, f.type)
    BY <2>1 DEF Hop, n
  <2>3. longer.hops[k] = path.hops[k] /\ k # Len(longer.hops)
    BY <1>2, <1>a
  <2>4. longer.hops[k + 1][1] = to
    <3>1. CASE k = n
      BY <1>2, <1>4, <3>1
    <3>2. CASE k # n
      <4>1. k + 1 \in 1..n
        BY <1>1, <3>2
      <4> QED
        BY <1>2, <3>2, <4>1
    <3> QED
      BY <3>1, <3>2
  <2> HIDE DEF to
  <2>5. Hop(o, f, longer, k)
    BY <2>2, <2>3, <2>4 DEF Hop
  <2> QED
    BY <2>5
<1>14. Hop(o, e, longer, n + 1)
  BY <1>2, <1>3, <1>4 DEF Hop, Leads
<1>15. \A k \in 1..(n + 1) : \E f \in ToSet(g.edges) : Hop(o, f, longer, k)
  BY <1>5, <1>13, <1>14
<1>16. PathNodes(longer) \subseteq DOMAIN g.nodes
  BY <1>7 DEF WellPath
<1>17. WellPath(g, o, longer)
  BY <1>2, <1>11, <1>12, <1>15, <1>16 DEF WellPath
<1> QED
  BY <1>2, <1>17 DEF n, longer

\* The nodes the metric can be at after one hop more.
NextNodes(at, hop) ==
  IF EdgeKnown(hop[2]) THEN UNION {OtherEnd(EdgeById(hop[2]), id) : id \in at} ELSE {}

\* r are the nodes it can be at after the first hops of the path.
Retraces(r, path, n) ==
  r[0] = {StartOf(path)} /\ \A k \in 1..n : r[k] = NextNodes(r[k - 1], path.hops[k])

\* An edge leads to its own ends.
LEMMA NextStays ==
    ASSUME IsEdges(dataset.edges), NEW at, NEW hop, NEW V,
           \A e \in ToSet(dataset.edges) : e.source \in V /\ e.target \in V
    PROVE  NextNodes(at, hop) \in SUBSET V
<1>1. CASE EdgeKnown(hop[2])
  <2>1. PICK e \in ToSet(dataset.edges) : e.id = hop[2]
    BY <1>1 DEF EdgeKnown, ToSet
  <2>2. EdgeById(hop[2]) \in ToSet(dataset.edges)
    BY <2>1, FoundById
  <2> DEFINE f == EdgeById(hop[2])
  <2>3. f.source \in V /\ f.target \in V
    BY <2>2
  <2> HIDE DEF f
  <2>4. \A id \in at : OtherEnd(f, id) \subseteq V
    BY <2>3 DEF OtherEnd
  <2>5. NextNodes(at, hop) = UNION {OtherEnd(f, id) : id \in at}
    BY <1>1 DEF NextNodes, f
  <2> QED
    BY <2>4, <2>5
<1>2. CASE ~EdgeKnown(hop[2])
  BY <1>2 DEF NextNodes
<1> QED
  BY <1>1, <1>2

\* The metric follows the hops one after the other.
LEMMA RetraceRuns ==
    ASSUME IsEdges(dataset.edges), NEW path, NEW n \in Nat, DOMAIN path.hops = 1..n
    PROVE  \E r : Retraces(r, path, n) /\ (PathRetraverses(path) <=> r[n] = {path.terminal})
<1> DEFINE hops == path.hops
           base == {StartOf(path)}
           V == base \cup {e.source : e \in ToSet(dataset.edges)} \cup {e.target : e \in ToSet(dataset.edges)}
           T == SUBSET V
           step(x, i) == IF EdgeKnown(hops[i][2])
                         THEN UNION {OtherEnd(EdgeById(hops[i][2]), id) : id \in x} ELSE {}
           h == [q \in T \X (1..n) |-> step(q[1], q[2])]
           Body(g) == [s \in SUBSET (1..n) |->
                         IF s = {} THEN base ELSE step(g[s \ {Max(s)}], Max(s))]
<1>1. \A x : \A i \in 1..n : step(x, i) \in T
  <2>1. \A e \in ToSet(dataset.edges) : e.source \in V /\ e.target \in V
    OBVIOUS
  <2>2. \A x : \A i \in 1..n : step(x, i) = NextNodes(x, hops[i])
    BY DEF NextNodes
  <2> HIDE DEF V, step, hops
  <2> QED
    BY <2>1, <2>2, NextStays
<1>2. base \in T
  OBVIOUS
<1>3. h \in [T \X (1..n) -> T]
  <2>1. \A q \in T \X (1..n) : step(q[1], q[2]) \in T
    BY <1>1
  <2> HIDE DEF step, T
  <2> QED
    BY <2>1
<1>4. PICK I : FoldsUp(I, n, base, h)
  <2> HIDE DEF h, T, base
  <2> QED
    BY <1>2, <1>3, FoldExists
<1>5. \A s \in SUBSET (1..n) : I[s] \in T
  <2>1. \A s \in SUBSET (1..n) : s # {} /\ I[s \ {Max(s)}] \in T => I[s] \in T
    <3> HIDE DEF h, T, base
    <3> QED
      BY <1>3, <1>4, MaxIsIn DEF FoldsUp
  <2> HIDE DEF T, base
  <2> QED
    BY <1>2, <1>4, <2>1, FoldStays DEF FoldsUp
<1>6. I = Body(I)
  <2>1. ASSUME NEW s \in SUBSET (1..n), s # {}
        PROVE  h[<<I[s \ {Max(s)}], Max(s)>>] = step(I[s \ {Max(s)}], Max(s))
    <3>1. I[s \ {Max(s)}] \in T /\ Max(s) \in 1..n
      BY <1>5, <2>1, MaxIsIn
    <3> HIDE DEF step, T
    <3> QED
      BY <3>1
  <2> HIDE DEF h, step, T, base
  <2> QED
    BY <1>4, <2>1 DEF FoldsUp
<1> DEFINE F == CHOOSE g : g = Body(g)
<1>7. F = Body(F)
  <2> HIDE DEF Body
  <2> QED
    BY <1>6
<1>8. PathRetraverses(path) <=> F[1..n] = {path.terminal}
  BY DEF PathRetraverses, FoldLeft, MapThenFoldSet
<1> DEFINE r == [k \in 0..n |-> F[1..k]]
<1>9. ASSUME NEW k \in 1..n
      PROVE  r[k] = step(r[k - 1], k)
  <2>1. Max(1..k) = k /\ (1..k) \ {Max(1..k)} = 1..(k - 1) /\ 1..k # {}
    <3>1. k \in Nat \ {0}
      OBVIOUS
    <3>2. k \in 1..k
      BY <3>1
    <3> QED
      BY <3>1, <3>2, LastOfPrefix
  <2>2. 1..k \in SUBSET (1..n) /\ k \in 0..n /\ k - 1 \in 0..n
    OBVIOUS
  <2>3. F[1..k] = step(F[1..(k - 1)], k)
    <3>1. F[1..k] = step(F[(1..k) \ {Max(1..k)}], Max(1..k))
      <4> HIDE DEF F, step, base
      <4> QED
        BY <1>7, <2>1, <2>2
    <3> HIDE DEF F, step
    <3> QED
      BY <2>1, <3>1
  <2>4. r[k] = F[1..k] /\ r[k - 1] = F[1..(k - 1)]
    <3> HIDE DEF F
    <3> QED
      BY <2>2
  <2> HIDE DEF F, step, r
  <2> QED
    BY <2>3, <2>4
<1>10. r[0] = base
  <2>1. 1..0 = {} /\ {} \in SUBSET (1..n)
    OBVIOUS
  <2>2. F[{}] = base
    <3> HIDE DEF F, step, base
    <3> QED
      BY <1>7, <2>1
  <2> HIDE DEF F, base
  <2> QED
    BY <2>1, <2>2
<1>11. PathRetraverses(path) <=> r[n] = {path.terminal}
  <2> HIDE DEF F
  <2> QED
    BY <1>8
<1> HIDE DEF r
<1>12. \A k \in 1..n : r[k] = NextNodes(r[k - 1], path.hops[k])
  BY <1>9 DEF NextNodes
<1> QED
  BY <1>10, <1>11, <1>12 DEF Retraces

\* Without shared ids the metric follows a path to its terminal.
LEMMA PathsRetraverse ==
    ASSUME IsEdges(dataset.edges), NEW path, WellPath(dataset, spec.ontology, path), path.hops # <<>>
    PROVE  /\ PathResolves(path)
           /\ EdgeIdsUnique(dataset.edges) => PathRetraverses(path)
<1> DEFINE n == Len(path.hops)
           node(k) == IF k = n + 1 THEN path.terminal ELSE path.hops[k][1]
<1>1. n \in Nat /\ DOMAIN path.hops = 1..n /\ n > 0
  <2>1. PICK S : path.hops \in Seq(S)
    BY DEF WellPath, IsSeq
  <2> QED
    BY <2>1
<1>2. ASSUME NEW k \in 1..n
      PROVE  \E e \in ToSet(dataset.edges) :
               /\ e.id = path.hops[k][2]
               /\ OtherEnd(e, node(k)) = {node(k + 1)}
  <2>1. PICK e \in ToSet(dataset.edges) : Hop(spec.ontology, e, path, k)
    BY <1>1 DEF WellPath
  <2>2. node(k) = path.hops[k][1] /\ node(k + 1) = (IF k = n THEN path.terminal ELSE path.hops[k + 1][1])
    BY <1>1
  <2>3. node(k) # node(k + 1)
    <3>1. CASE k = n
      BY <1>1, <2>2, <3>1 DEF WellPath
    <3>2. CASE k # n
      <4>1. k + 1 \in 1..n /\ k # k + 1
        BY <1>1, <3>2
      <4> QED
        BY <1>1, <2>2, <3>2, <4>1 DEF WellPath
    <3> QED
      BY <3>1, <3>2
  <2>4. /\ e.id = path.hops[k][2]
        /\ \/ e.source = node(k) /\ e.target = node(k + 1)
           \/ e.target = node(k) /\ e.source = node(k + 1)
    <3> HIDE DEF node
    <3> QED
      BY <2>1, <2>2 DEF Hop
  <2> HIDE DEF node
  <2> QED
    BY <2>3, <2>4 DEF OtherEnd
<1>3. PathResolves(path)
  BY <1>1, <1>2, FoundById DEF PathResolves, WellPath
<1>4. ASSUME EdgeIdsUnique(dataset.edges)
      PROVE  PathRetraverses(path)
  <2>1. PICK r : Retraces(r, path, n) /\ (PathRetraverses(path) <=> r[n] = {path.terminal})
    <3> HIDE DEF n
    <3> QED
      BY <1>1, RetraceRuns
  <2> DEFINE Good == {k \in Nat : k <= n => r[k] = {node(k + 1)}}
  <2>2. 0 \in Good
    BY <1>1, <2>1 DEF Retraces, StartOf
  <2>3. ASSUME NEW k \in Nat, k \in Good
        PROVE  k + 1 \in Good
    <3> SUFFICES ASSUME k + 1 <= n PROVE r[k + 1] = {node(k + 2)}
      BY <1>1
    <3>1. k + 1 \in 1..n /\ (k + 1) - 1 = k /\ (k + 1) + 1 = k + 2 /\ k <= n
      BY <1>1
    <3>2. r[k] = {node(k + 1)}
      BY <2>3, <3>1
    <3> HIDE DEF node, n
    <3>3. PICK e \in ToSet(dataset.edges) :
            e.id = path.hops[k + 1][2] /\ OtherEnd(e, node(k + 1)) = {node(k + 2)}
      BY <1>2, <3>1
    <3>4. EdgeKnown(path.hops[k + 1][2]) /\ EdgeById(path.hops[k + 1][2]) = e
      BY <1>4, <3>3, FoundById
    <3>5. r[k + 1] = NextNodes({node(k + 1)}, path.hops[k + 1])
      BY <2>1, <3>1, <3>2 DEF Retraces
    <3>6. r[k + 1] = UNION {OtherEnd(e, id) : id \in {node(k + 1)}}
      BY <3>4, <3>5 DEF NextNodes
    <3> QED
      BY <3>3, <3>6
  <2>4. n \in Good
    <3> HIDE DEF Good, n
    <3> QED
      BY <1>1, <2>2, <2>3, NatSteps
  <2> QED
    BY <1>1, <2>1, <2>4
<1> QED
  BY <1>3, <1>4

\* A relation an edge of a path carries leads to a neighbour over it.
LEMMA CarriedNeighbor ==
    ASSUME NEW path, NEW h, NEW e \in ToSet(dataset.edges), Carries(e, path, h)
    PROVE  TypedNeighbors(path.hops[h][1], e.type) # {}
<1>1. PICK i \in DOMAIN dataset.edges : e = dataset.edges[i]
  BY DEF ToSet
<1>2. CASE e.source = path.hops[h][1]
  <2>1. <<i, dataset.edges[i].target>> \in TypedNeighbors(path.hops[h][1], e.type)
    BY <1>1, <1>2 DEF TypedNeighbors
  <2> QED
    BY <2>1
<1>3. CASE e.target = path.hops[h][1] /\ ~DirectedOf(spec.ontology, e.type)
  <2>1. <<-i, dataset.edges[i].source>> \in TypedNeighbors(path.hops[h][1], e.type)
    BY <1>1, <1>3 DEF TypedNeighbors
  <2> QED
    BY <2>1
<1> QED
  BY <1>2, <1>3 DEF Carries

\* Without dangling edges the neighbours are nodes.
LEMMA NeighborsAreNodes ==
    ASSUME \A e \in ToSet(dataset.edges) : ~Dangling(dataset, e), NEW id, NEW rel
    PROVE  /\ NodesOfPairs(TypedNeighbors(id, rel)) \subseteq DOMAIN dataset.nodes
           /\ TypedNeighbors(id, rel) # {} => NodesOfPairs(TypedNeighbors(id, rel)) # {}
<1>1. \A i \in DOMAIN dataset.edges :
        dataset.edges[i].source \in DOMAIN dataset.nodes /\ dataset.edges[i].target \in DOMAIN dataset.nodes
  BY DEF ToSet, Dangling
<1>2. \A x \in TypedNeighbors(id, rel) : x[2] \in DOMAIN dataset.nodes
  BY <1>1 DEF TypedNeighbors
<1> QED
  BY <1>2 DEF NodesOfPairs

\* A degree is a number.
LEMMA DegreeNat ==
    ASSUME NEW es, IsEdges(es), NEW id
    PROVE  Degree(es, id) \in Nat
<1>1. Len(es) \in Nat /\ DOMAIN es = 1..Len(es)
  BY SeqParts DEF IsEdges
<1>2. IsFiniteSet(DOMAIN es)
  BY <1>1, FS_Interval
<1> DEFINE In == {i \in DOMAIN es : es[i].target = id}
           Out == {i \in DOMAIN es : es[i].source = id}
<1>3. In \subseteq DOMAIN es /\ Out \subseteq DOMAIN es
  OBVIOUS
<1>4. Cardinality(In) \in Nat /\ Cardinality(Out) \in Nat
  <2> HIDE DEF In, Out
  <2> QED
    BY <1>2, <1>3, FS_Subset, FS_CardinalityType
<1>5. Degree(es, id) = Cardinality(In) + Cardinality(Out)
  BY DEF Degree, InDegree, OutEdges
<1> HIDE DEF In, Out
<1> QED
  BY <1>4, <1>5

\* Every item that may be made of a path is about it, and names nodes.
LEMMA BuiltWell ==
    ASSUME IsEdges(dataset.edges), NEW path, WellPath(dataset, spec.ontology, path), path.hops # <<>>,
           NEW family \in Families, NEW item \in Built(path, family)
    PROVE  WellItem(dataset, spec.ontology, item)
<1> DEFINE start == StartOf(path)
           end == path.terminal
           real == item.nodes # {} /\ item.nodes \subseteq DOMAIN dataset.nodes
<1>1. 1 \in DOMAIN path.hops
  <2>1. PICK S : path.hops \in Seq(S)
    BY DEF WellPath, IsSeq
  <2> QED
    BY <2>1
<1>2. start \in DOMAIN dataset.nodes /\ end \in DOMAIN dataset.nodes
  BY <1>1 DEF WellPath, PathNodes, StartOf
<1>3. item.path = path
  <2>1. CASE family = "chained_relation"
    BY <2>1, SMT DEF Built
  <2>2. CASE family = "aggregation_count"
    BY <2>2, SMT DEF Built
  <2>3. CASE family = "existence_negation"
    BY <2>3, SMT DEF Built
  <2>4. CASE family = "comparison"
    BY <2>4, SMT DEF Built
  <2> QED
    BY <2>1, <2>2, <2>3, <2>4 DEF Families
<1>4. ASSUME EdgeIdsUnique(dataset.edges), \A e \in ToSet(dataset.edges) : ~Dangling(dataset, e)
      PROVE  real \/ item.answer = <<"exists", FALSE>>
  <2>1. CASE family = "chained_relation"
    <3>1. item.nodes = {end}
      BY <2>1, SMT DEF Built
    <3> QED
      BY <1>2, <3>1
  <2>2. CASE family = "aggregation_count"
    <3> DEFINE N == TypedNeighbors(start, FirstRelation(path))
    <3>1. item.nodes = NodesOfPairs(N)
      BY <2>2, SMT DEF Built
    <3>2. PICK e \in ToSet(dataset.edges) : Hop(spec.ontology, e, path, 1)
      BY <1>1 DEF WellPath
    <3>3. Carries(e, path, 1) /\ e.id = path.hops[1][2]
      BY <3>2 DEF Carries, Hop
    <3>4. FirstRelation(path) = e.type
      BY <1>4, <3>3, FoundById DEF FirstRelation
    <3>5. N # {}
      BY <3>3, <3>4, CarriedNeighbor DEF StartOf
    <3> HIDE DEF N
    <3>6. NodesOfPairs(N) # {} /\ NodesOfPairs(N) \subseteq DOMAIN dataset.nodes
      BY <1>4, <3>5, NeighborsAreNodes DEF N
    <3> QED
      BY <3>1, <3>6
  <2>3. CASE family = "existence_negation"
    <3> DEFINE N == TypedNeighbors(start, item.relation)
               some == N # {}
    <3>1. item.answer = <<"exists", some>> /\ item.nodes = NodesOfPairs(N)
      BY <2>3, SMT DEF Built
    <3>2. CASE N = {}
      <4>1. some = FALSE
        BY <3>2
      <4> HIDE DEF some
      <4>2. item.answer = <<"exists", FALSE>>
        BY <3>1, <4>1
      <4> QED
        BY <4>2
    <3>3. CASE N # {}
      <4>1. NodesOfPairs(N) # {} /\ NodesOfPairs(N) \subseteq DOMAIN dataset.nodes
        BY <1>4, <3>3, NeighborsAreNodes
      <4> QED
        BY <3>1, <4>1
    <3> QED
      BY <3>2, <3>3
  <2>4. CASE family = "comparison"
    <3> DEFINE d(id) == Degree(dataset.edges, id)
               more == {id \in {start, end} : d(id) >= d(start) /\ d(id) >= d(end)}
    <3>1. item.nodes = more
      BY <2>4, SMT DEF Built
    <3>2. d(start) \in Nat /\ d(end) \in Nat
      BY DegreeNat
    <3> HIDE DEF d, start, end
    <3>3. start \in more \/ end \in more
      BY <3>2
    <3>4. more # {} /\ more \subseteq DOMAIN dataset.nodes
      BY <1>2, <3>3
    <3> QED
      BY <3>1, <3>4
  <2> QED
    BY <2>1, <2>2, <2>3, <2>4 DEF Families
<1> QED
  BY <1>3, <1>4 DEF WellItem

\* The path of the walk in progress.
Walked == [hops |-> walk.hops, terminal |-> walk.at]

\* A hop of build_adjacency is an edge taken in a direction the ontology allows.
LEMMA AdjacentHop ==
    ASSUME NEW id, NEW hop \in Adjacent(id)
    PROVE  \E e \in ToSet(dataset.edges) :
             e.id = hop[1] /\ hop[2] \in DOMAIN dataset.nodes /\ Leads(spec.ontology, e, id, hop[2])
<1> DEFINE es == {dataset.edges[i] : i \in {j \in DOMAIN dataset.edges : ~Dangling(dataset, dataset.edges[j])}}
<1>1. hop \in {<<e.id, e.target>> : e \in {f \in es : f.source = id}}
        \cup {<<e.id, e.source>> : e \in {f \in es : f.target = id /\ ~DirectedOf(spec.ontology, f.type)}}
  BY DEF Adjacent
<1>2. \A e \in es : e \in ToSet(dataset.edges)
                    /\ e.source \in DOMAIN dataset.nodes /\ e.target \in DOMAIN dataset.nodes
  BY DEF ToSet, Dangling
<1> HIDE DEF es
<1>3. CASE \E e \in es : e.source = id /\ hop = <<e.id, e.target>>
  BY <1>2, <1>3 DEF Leads
<1>4. CASE \E e \in es : e.target = id /\ ~DirectedOf(spec.ontology, e.type) /\ hop = <<e.id, e.source>>
  BY <1>2, <1>4 DEF Leads
<1> QED
  BY <1>1, <1>3, <1>4

\* A walk starts at a node.
LEMMA WalkStarts ==
    ASSUME NEW start \in DOMAIN dataset.nodes, NEW len \in MinHops..MaxHops, StartWalk(start, len),
           UNCHANGED <<spec, dataset>>
    PROVE  WalkWell'
<1> DEFINE path == [hops |-> <<>>, terminal |-> start]
<1>1. IsSeq(path.hops) /\ DOMAIN path.hops = {} /\ path.terminal = start /\ Len(path.hops) = 0
  <2>1. <<>> \in Seq({})
    OBVIOUS
  <2> QED
    BY <2>1 DEF IsSeq
<1> HIDE DEF path
<1>2. WellPath(dataset, spec.ontology, path)
  BY <1>1 DEF WellPath, PathNodes
<1>3. /\ walk' = [hops |-> <<>>, at |-> start, len |-> len]
      /\ spec' = spec /\ dataset' = dataset
  BY DEF StartWalk
<1>4. /\ walk' = [hops |-> walk'.hops, at |-> walk'.at, len |-> walk'.len]
      /\ walk'.len = len /\ Len(walk'.hops) = 0
      /\ [hops |-> walk'.hops, terminal |-> walk'.at] = path
  BY <1>3 DEF path
<1>5. len >= 0
  BY HopsAssumption
<1> QED
  BY <1>2, <1>3, <1>4, <1>5 DEF WalkWell

\* A walk goes on to a node it has not visited.
LEMMA WalkGoesOn ==
    ASSUME WalkWell, NEW hop \in Candidates, Walk(hop), UNCHANGED <<spec, dataset>>
    PROVE  WalkWell'
<1>1. /\ walk = [hops |-> walk.hops, at |-> walk.at, len |-> walk.len]
      /\ WellPath(dataset, spec.ontology, Walked)
      /\ walk.len \in MinHops..MaxHops
      /\ Len(walk.hops) < walk.len
  BY DEF Walk, WalkWell, Walked
<1> DEFINE new == <<walk.at, hop[1]>>
           longer == [hops |-> Append(walk.hops, new), terminal |-> hop[2]]
<1>2. walk' = [hops |-> Append(walk.hops, new), at |-> hop[2], len |-> walk.len]
  <2>1. walk' = [walk EXCEPT !.hops = Append(walk.hops, new), !.at = hop[2]]
    BY DEF Walk
  <2> HIDE DEF new
  <2> QED
    BY <1>1, <2>1
<1>3. PICK e \in ToSet(dataset.edges) :
        /\ e.id = hop[1] /\ hop[2] \in DOMAIN dataset.nodes
        /\ Leads(spec.ontology, e, walk.at, hop[2])
  BY AdjacentHop DEF Candidates
<1>4. Walked.hops = walk.hops /\ Walked.terminal = walk.at
  BY DEF Walked
<1>5. hop[2] \notin PathNodes(Walked)
  BY <1>4 DEF Candidates, Visited, PathNodes
<1>6. longer = Extended(Walked, e, hop[2])
  BY <1>3, <1>4 DEF Extended
<1>7. WellPath(dataset, spec.ontology, longer) /\ Len(longer.hops) = Len(walk.hops) + 1
  <2> HIDE DEF longer
  <2>1. Leads(spec.ontology, e, Walked.terminal, hop[2])
    BY <1>3, <1>4
  <2>2. WellPath(dataset, spec.ontology, Walked)
    BY <1>1
  <2>3. hop[2] \in DOMAIN dataset.nodes
    BY <1>3
  <2>4. /\ WellPath(dataset, spec.ontology, Extended(Walked, e, hop[2]))
        /\ Len(Extended(Walked, e, hop[2]).hops) = Len(Walked.hops) + 1
    BY <1>5, <2>1, <2>2, <2>3, LongerPath, Zenon
  <2> QED
    BY <1>4, <1>6, <2>4
<1>8. /\ walk' = [hops |-> walk'.hops, at |-> walk'.at, len |-> walk'.len]
      /\ walk'.len = walk.len /\ walk'.hops = longer.hops
      /\ [hops |-> walk'.hops, terminal |-> walk'.at] = longer
  <2> HIDE DEF new
  <2> QED
    BY <1>2
<1>9. Len(walk.hops) \in Nat
  BY <1>1, <1>4, SeqParts DEF WellPath
<1> HIDE DEF longer
<1>10. Len(walk'.hops) <= walk'.len
  <2>1. walk.len \in Int
    BY <1>1, HopsAssumption
  <2> QED
    BY <1>1, <1>7, <1>8, <1>9, <2>1
<1> QED
  BY <1>1, <1>7, <1>8, <1>10 DEF WalkWell

\* A path is kept when it is long enough and new.
LEMMA WalkEnds ==
    ASSUME WalkWell, PathsWell, EndWalk, UNCHANGED <<spec, dataset>>
    PROVE  PathsWell'
<1>1. /\ WellPath(dataset, spec.ontology, Walked)
      /\ walk.len \in MinHops..MaxHops /\ Len(walk.hops) <= walk.len
  BY DEF EndWalk, WalkWell, Walked
<1>2. Walked.hops = walk.hops
  BY DEF Walked
<1>3. Len(walk.hops) \in Nat
  BY <1>1, <1>2, SeqParts DEF WellPath
<1>4. PICK S : paths \in Seq(S)
  BY DEF PathsWell, IsSeq
<1>5. qa' = "sample" /\ spec' = spec /\ dataset' = dataset
  BY DEF EndWalk
<1>6. CASE UNCHANGED paths
  BY <1>5, <1>6 DEF PathsWell
<1>7. CASE /\ ~(Len(walk.hops) < MinHops) /\ Walked \notin ToSet(paths)
           /\ paths' = Append(paths, Walked)
  <2>1. Len(Walked.hops) \in MinHops..MaxHops
    <3>1. walk.len \in Int /\ walk.len <= MaxHops /\ MinHops \in Int /\ MaxHops \in Int
      BY <1>1, HopsAssumption
    <3> QED
      BY <1>1, <1>2, <1>3, <1>7, <3>1
  <2>2. paths' \in Seq(S \cup {Walked}) /\ Len(paths') = Len(paths) + 1
    BY <1>4, <1>7
  <2>3. /\ Len(paths) \in Nat /\ DOMAIN paths = 1..Len(paths)
        /\ DOMAIN paths' = 1..(Len(paths) + 1)
        /\ \A j \in 1..Len(paths) : paths'[j] = paths[j]
        /\ paths'[Len(paths) + 1] = Walked
    BY <1>4, <1>7
  <2>4. \A j \in DOMAIN paths : paths[j] # Walked
    BY <1>7 DEF ToSet
  <2>5. \A j \in DOMAIN paths' : j \in DOMAIN paths \/ j = Len(paths) + 1
    BY <2>3
  <2>6. \A j \in DOMAIN paths' :
          /\ WellPath(dataset, spec.ontology, paths'[j])
          /\ Len(paths'[j].hops) \in MinHops..MaxHops
    BY <1>1, <2>1, <2>3, <2>5 DEF PathsWell
  <2>7. \A j, k \in DOMAIN paths' : paths'[j] = paths'[k] => j = k
    <3> SUFFICES ASSUME NEW j \in DOMAIN paths', NEW k \in DOMAIN paths', paths'[j] = paths'[k]
                 PROVE  j = k
      OBVIOUS
    <3>1. CASE j \in DOMAIN paths /\ k \in DOMAIN paths
      BY <2>3, <3>1 DEF PathsWell
    <3>2. CASE j \in DOMAIN paths /\ k = Len(paths) + 1
      BY <2>3, <2>4, <3>2
    <3>3. CASE j = Len(paths) + 1 /\ k \in DOMAIN paths
      BY <2>3, <2>4, <3>3
    <3> QED
      BY <2>5, <3>1, <3>2, <3>3
  <2>8. IsSeq(paths')
    BY <2>2 DEF IsSeq
  <2> QED
    BY <1>5, <2>6, <2>7, <2>8 DEF PathsWell, IsSeq
<1> QED
  BY <1>6, <1>7 DEF EndWalk, Walked

\* A question is asked of a path.
LEMMA AskedWell ==
    ASSUME IsEdges(dataset.edges), PathsWell, ItemsWell, Denials, NEW family \in Families, Ask(family),
           UNCHANGED <<spec, dataset>>
    PROVE  ItemsWell'
<1> DEFINE n == Len(items) + 1
<1>1. PICK item \in Built(paths[n], family) : items' = Append(items, item)
  BY DEF Ask
<1>2. PICK S : items \in Seq(S)
  BY DEF Denials
<1>3. n \in DOMAIN paths
  <2>1. n \in Nat \ {0} /\ n <= Len(paths)
    BY <1>2 DEF Ask
  <2>2. Len(paths) \in Nat /\ DOMAIN paths = 1..Len(paths)
    BY SeqParts DEF PathsWell
  <2> HIDE DEF n
  <2> QED
    BY <2>1, <2>2
<1> HIDE DEF n
<1>4. WellPath(dataset, spec.ontology, paths[n]) /\ paths[n].hops # <<>>
  <2>1. WellPath(dataset, spec.ontology, paths[n]) /\ Len(paths[n].hops) \in MinHops..MaxHops
    BY <1>3 DEF PathsWell
  <2>2. Len(paths[n].hops) > 0
    BY <2>1, HopsAssumption
  <2>3. paths[n].hops # <<>>
    BY <2>2
  <2> QED
    BY <2>1, <2>3
<1>5. WellItem(dataset, spec.ontology, item)
  BY <1>1, <1>4, BuiltWell
<1>6. \A j \in DOMAIN items' : (j \in DOMAIN items /\ items'[j] = items[j]) \/ items'[j] = item
  BY <1>1, <1>2, Appended
<1>7. \A j \in DOMAIN items' : WellItem(dataset, spec.ontology, items'[j])
  BY <1>5, <1>6 DEF ItemsWell
<1> QED
  BY <1>7 DEF ItemsWell

\* Walking and asking keep the paths and the items about the graph.
LEMMA QaFixture ==
    ASSUME Shaped, Fixture, Denials, QaNext, UNCHANGED <<spec, dataset>>
    PROVE  Fixture'
<1>1. IsEdges(dataset.edges) /\ spec' = spec /\ dataset' = dataset
  BY DEF Shaped, IsGraph
<1>2. WalkWell /\ PathsWell /\ ItemsWell
  BY DEF Fixture
<1>3. UNCHANGED items => ItemsWell'
  BY <1>1, <1>2 DEF ItemsWell
<1>4. UNCHANGED paths /\ qa' # "idle" => PathsWell'
  BY <1>1, <1>2 DEF PathsWell
<1>5. qa' # "walk" => WalkWell'
  BY DEF WalkWell
<1>6. CASE \E start \in DOMAIN dataset.nodes : \E len \in MinHops..MaxHops : StartWalk(start, len)
  <2>1. UNCHANGED <<paths, items>> /\ qa' = "walk"
    BY <1>6 DEF StartWalk
  <2>2. WalkWell'
    BY <1>6, WalkStarts
  <2> QED
    BY <1>3, <1>4, <2>1, <2>2 DEF Fixture
<1>7. CASE \E hop \in Candidates : Walk(hop)
  <2>1. UNCHANGED <<qa, paths, items>> /\ qa = "walk"
    BY <1>7 DEF Walk
  <2>2. WalkWell'
    BY <1>2, <1>7, WalkGoesOn
  <2> QED
    BY <1>3, <1>4, <2>1, <2>2 DEF Fixture
<1>8. CASE EndWalk
  <2>1. UNCHANGED items /\ qa' = "sample"
    BY <1>8 DEF EndWalk
  <2>2. PathsWell'
    BY <1>2, <1>8, WalkEnds
  <2> QED
    BY <1>3, <1>5, <2>1, <2>2 DEF Fixture
<1>9. CASE EndSampling
  <2>1. UNCHANGED <<paths, items>> /\ qa' \in {"failed", "ask"}
    BY <1>9 DEF EndSampling
  <2> QED
    BY <1>3, <1>4, <1>5, <2>1 DEF Fixture
<1>10. CASE \E family \in Families : Ask(family)
  <2>1. UNCHANGED paths /\ qa' \in {"done", "ask"}
    BY <1>10 DEF Ask
  <2>2. ItemsWell'
    BY <1>1, <1>2, <1>10, AskedWell
  <2> QED
    BY <1>4, <1>5, <2>1, <2>2 DEF Fixture
<1> QED
  BY <1>6, <1>7, <1>8, <1>9, <1>10 DEF QaNext

\* Before sampling there is neither a path nor an item.
LEMMA NoFixtureYet ==
    ASSUME Fixture, Denials, qa = "idle", UNCHANGED <<paths, items>>, qa' # "walk"
    PROVE  Fixture'
<1>1. paths = <<>> /\ items = <<>>
  BY DEF Fixture, PathsWell, Denials
<1>2. paths' = <<>> /\ items' = <<>>
  BY <1>1
<1>3. <<>> \in Seq({}) /\ DOMAIN <<>> = {}
  OBVIOUS
<1>4. PathsWell'
  BY <1>2, <1>3 DEF PathsWell, IsSeq
<1>5. ItemsWell'
  BY <1>2, <1>3 DEF ItemsWell
<1>6. WalkWell'
  BY DEF WalkWell
<1> QED
  BY <1>4, <1>5, <1>6 DEF Fixture

-----------------------------------------------------------------------------
(* The invariant.                                                          *)

\* The invariant of the engines is about their variables.
LEMMA SameGeneration ==
    ASSUME Generation, UNCHANGED genVars
    PROVE  Generation'
<1>1. UNCHANGED <<spec, plan, pc, shard, store, dataset>>
  BY DEF genVars
<1> QED
  BY <1>1 DEF Generation, ShardWell, StoreWell, DatasetWell, NoNodeLost

LEMMA InitInv == Init => GraphInv
<1> SUFFICES ASSUME Init PROVE GraphInv
  OBVIOUS
<1>1. Shaped
  <2>1. plan \in Seq([start : Nat, count : Nat]) \ {<<>>}
    BY PlansAssumption DEF Init, GenInit
  <2>2. Len(plan) > 0
    BY <2>1
  <2>3. IsGraph(EmptyGraph)
    BY NoEdges DEF IsGraph, EmptyGraph
  <2>4. store = <<>> /\ Len(store) = 0 /\ store \in Seq({})
    BY DEF Init, GenInit
  <2> QED
    BY <2>2, <2>3, <2>4 DEF Init, GenInit, PtbInit, Shaped
<1>2. Phases
  BY DEF Init, GenInit, PtbInit, QaInit, Phases
<1>3. Flagged
  BY DEF Init, PtbInit, Flagged, NoJob
<1>5. DegreesPreserved
  BY DEF Init, PtbInit, DegreesPreserved, NoJob
<1>6. Generation
  <2>1. pc = "engine" /\ shard = EmptyGraph /\ DOMAIN store = {}
    BY DEF Init, GenInit
  <2>2. ShardWell
    BY <2>1, EmptyIsWell DEF ShardWell
  <2>3. StoreWell /\ DatasetWell /\ NoNodeLost
    BY <2>1 DEF StoreWell, DatasetWell, NoNodeLost
  <2> QED
    BY <2>2, <2>3 DEF Generation
<1>4. Denials
  BY DEF Init, QaInit, Denials
<1>7. Fixture
  <2>1. qa = "idle" /\ paths = <<>> /\ items = <<>>
    BY DEF Init, QaInit
  <2>2. <<>> \in Seq({}) /\ DOMAIN <<>> = {}
    OBVIOUS
  <2> QED
    BY <2>1, <2>2 DEF Fixture, WalkWell, PathsWell, ItemsWell, IsSeq
<1> QED
  BY <1>1, <1>2, <1>3, <1>4, <1>5, <1>6, <1>7 DEF GraphInv

LEMMA NextInv == GraphInv /\ [Next]_vars => GraphInv'
<1> SUFFICES ASSUME GraphInv, [Next]_vars PROVE GraphInv'
  OBVIOUS
<1>i. Shaped /\ Generation /\ Phases /\ Flagged /\ DegreesPreserved /\ Denials /\ Fixture
  BY DEF GraphInv
<1>n. NoJob.family \notin {"violation", "degree_preserving"}
  BY DEF NoJob
<1>1. CASE GenNext /\ UNCHANGED <<ptbVars, qaVars>>
  <2>1. job = NoJob /\ qa = "idle"
    BY <1>1, <1>i, EnginePhases DEF Phases
  <2>2. UNCHANGED <<job, qa, items>>
    BY <1>1 DEF ptbVars, qaVars
  <2>3. Shaped'
    BY <1>1, <1>i, GenShape
  <2>4. Phases'
    BY <2>1, <2>2 DEF Phases
  <2>5. Flagged'
    BY <2>1, <2>2, <1>n DEF Flagged
  <2>6. Denials'
    BY <2>1, <2>2, <1>i DEF Denials
  <2>7. DegreesPreserved'
    BY <2>1, <2>2, <1>n DEF DegreesPreserved
  <2>8. Generation'
    BY <1>1, <1>i, GenShard, GenStore, GenDataset, GenNodes DEF Generation
  <2>9. Fixture'
    BY <1>1, <1>i, <2>1, <2>2, NoFixtureYet DEF qaVars
  <2> QED
    BY <2>3, <2>4, <2>5, <2>6, <2>7, <2>8, <2>9 DEF GraphInv
<1>2. CASE qa = "idle" /\ PtbNext /\ UNCHANGED qaVars
  <2>1. UNCHANGED <<qa, items>>
    BY <1>2 DEF qaVars
  <2>2. Shaped'
    BY <1>2, <1>i, PtbShape
  <2>3. Phases'
    BY <1>2, PerturbPhases DEF Phases
  <2>4. Flagged'
    BY <1>2, <1>i, PtbFlags DEF Shaped
  <2>5. Denials'
    BY <1>2, <2>1, <1>i DEF Denials
  <2>6. DegreesPreserved'
    BY <1>2, <1>i, PtbDegrees DEF Shaped
  <2>7. Generation'
    BY <1>2, <1>i, PerturbPhases DEF Generation, ShardWell, StoreWell, DatasetWell, NoNodeLost
  <2>8. Fixture'
    BY <1>2, <1>i, NoFixtureYet DEF qaVars
  <2> QED
    BY <2>2, <2>3, <2>4, <2>5, <2>6, <2>7, <2>8 DEF GraphInv
<1>3. CASE StartSampling /\ UNCHANGED genVars
  <2>1. Shaped'
    BY <1>3, <1>i DEF Shaped, genVars
  <2>2. Phases'
    BY <1>3 DEF Phases, StartSampling, genVars
  <2>3. Flagged'
    BY <1>3, <1>n DEF Flagged, StartSampling
  <2>4. Denials'
    BY <1>3, <1>i DEF Denials, StartSampling
  <2>5. DegreesPreserved'
    BY <1>3, <1>n DEF DegreesPreserved, StartSampling
  <2>6. Generation'
    BY <1>3, <1>i, SameGeneration
  <2>7. Fixture'
    BY <1>3, <1>i, NoFixtureYet DEF StartSampling
  <2> QED
    BY <2>1, <2>2, <2>3, <2>4, <2>5, <2>6, <2>7 DEF GraphInv
<1>4. CASE QaNext /\ UNCHANGED <<genVars, ptbVars>>
  <2>1. UNCHANGED <<spec, plan, shard, dataset, store, pc, job, parent>>
    BY <1>4 DEF genVars, ptbVars
  <2>2. Shaped'
    BY <2>1, <1>i DEF Shaped
  <2>3. qa # "idle"
    BY <1>4 DEF QaNext, StartWalk, Walk, EndWalk, EndSampling, Ask
  <2>4. Phases'
    BY <2>1, <2>3, <1>i DEF Phases
  <2>5. Flagged'
    BY <2>1, <1>i DEF Flagged
  <2>6. Denials'
    BY <1>4, <2>1, <1>i, QaKeeps
  <2>7. DegreesPreserved'
    BY <2>1, <1>i DEF DegreesPreserved
  <2>8. Generation'
    BY <1>4, <1>i, SameGeneration
  <2>9. Fixture'
    BY <1>4, <2>1, <1>i, QaFixture
  <2> QED
    BY <2>2, <2>4, <2>5, <2>6, <2>7, <2>8, <2>9 DEF GraphInv
<1>5. CASE UNCHANGED vars
  <2>1. UNCHANGED <<spec, plan, shard, dataset, store, pc, job, parent, qa, items>>
    BY <1>5 DEF vars, genVars, ptbVars, qaVars
  <2>2. ASSUME NEW CONSTANT i, \E j \in DOMAIN items : i = items[j]
        PROVE  Honest(i)'
    BY <2>1, <2>2, <1>i, StaysHonest DEF Denials
  <2>3. Denials'
    BY <2>1, <2>2, <1>i DEF Denials
  <2>4. Generation'
    BY <1>5, <1>i, SameGeneration DEF vars
  <2>5. UNCHANGED <<walk, paths>>
    BY <1>5 DEF vars, qaVars
  <2>6. Fixture'
    BY <2>1, <2>5, <1>i DEF Fixture, WalkWell, PathsWell, ItemsWell
  <2> QED
    BY <2>1, <2>3, <2>4, <2>6, <1>i DEF GraphInv, Shaped, Phases, Flagged, DegreesPreserved
<1> QED
  BY <1>1, <1>2, <1>3, <1>4, <1>5 DEF Next

\* The invariant holds in every reachable state.
THEOREM InvHolds == Spec => []GraphInv
  BY InitInv, NextInv, PTL DEF Spec

-----------------------------------------------------------------------------
(* The properties.                                                         *)

LEMMA Conforms == GraphInv => GraphConforms
<1> SUFFICES ASSUME GraphInv PROVE GraphConforms
  OBVIOUS
<1>1. Shaped /\ ShardWell /\ StoreWell /\ DatasetWell
  BY DEF GraphInv, Generation
<1>2. ASSUME Conforming(spec), NEW k \in DOMAIN store
      PROVE  LET g == store[k].graph
             IN EdgeViolations(g, spec.ontology)
                  = {i \in DOMAIN g.edges : i > Len(g.edges) - store[k].injected}
  <2> DEFINE g == store[k].graph
             m == store[k].injected
  <2>1. Len(g.edges) \in Nat /\ DOMAIN g.edges = 1..Len(g.edges)
    BY <1>1, SeqParts DEF Shaped, IsGraph, IsEdges
  <2>2. /\ m \in Nat
        /\ \A i \in DOMAIN g.edges : Fits(g, spec.ontology, g.edges[i]) <=> i <= Len(g.edges) - m
    BY <1>1, <1>2 DEF StoreWell, StoredWell
  <2> HIDE DEF g, m
  <2>3. \A i \in DOMAIN g.edges : i > Len(g.edges) - m <=> ~(i <= Len(g.edges) - m)
    BY <2>1, <2>2
  <2>4. EdgeViolations(g, spec.ontology) = {i \in DOMAIN g.edges : ~Fits(g, spec.ontology, g.edges[i])}
    BY FitsIs
  <2>5. EdgeViolations(g, spec.ontology) = {i \in DOMAIN g.edges : i > Len(g.edges) - m}
    BY <2>2, <2>3, <2>4
  <2> QED
    BY <2>5 DEF g, m
<1>3. pc = "done" /\ spec.inject = 0 /\ Conforming(spec) => EdgeViolations(dataset, spec.ontology) = {}
  BY <1>1, FitsIs DEF DatasetWell, AllFit
<1>4. spec.method = "topology" => \A g \in Generated : IntegersInRange(g, spec.ontology)
  BY <1>1 DEF Generated, ShardWell, StoreWell, StoredWell, MadeWell
<1> QED
  BY <1>2, <1>3, <1>4 DEF GraphConforms, Conforming

\* The engines emit what the validator that runs after them accepts, for every
\* community map, random graph and reply of the model: the edges it rejects in an
\* uploaded shard are the injected ones, and merging shards adds none, also when
\* the shards have nodes of one id.  The LLM engine keeps this for every ontology,
\* the others for those of directed, uniquely named relations.  The topology
\* engine's integers keep their ranges where its cut minimum lies within them and
\* the declaration it reads is the one the validator reads.
THEOREM EnginesConform == Spec => []GraphConforms
  BY InvHolds, Conforms, PTL

\* Shard-global ids: for every plan of consecutive shards and every size, the
\* assembled graph has as many nodes as its shards together.
THEOREM NoNodeIsLost == Spec => []NoNodeLost
<1>1. GraphInv => NoNodeLost
  BY DEF GraphInv, Generation
<1> QED
  BY <1>1, InvHolds, PTL

LEMMA JudgeCatches == GraphInv => JudgeCatchesViolations
<1>1. ASSUME GraphInv
      PROVE  Flagged
  BY <1>1 DEF GraphInv
<1> QED
  BY <1>1, RejectedFlagged, EdgesAgree DEF JudgeCatchesViolations, Flagged

\* The ontology judge of perturb_graph's caller flags every node and edge that
\* the violation family selected, and every edge that the generation-time validator
\* of the constraint layer flags, and every node where all bounds are numbers, for
\* every ontology, intensity and choice.
THEOREM JudgeSeesViolations == Spec => []JudgeCatchesViolations
  BY InvHolds, JudgeCatches, PTL

\* Degree-preserving rewiring keeps the in-degree and the out-degree of every
\* node, for every graph, number of swaps and choice of edges: also a swap of two
\* edges that earlier swaps changed, of parallel edges and of self-loops.
THEOREM RewiringPreservesDegrees == Spec => []DegreesPreserved
<1>1. GraphInv => DegreesPreserved
  BY DEF GraphInv
<1> QED
  BY <1>1, InvHolds, PTL

LEMMA NoContradictions == GraphInv => NoContradiction
<1> SUFFICES ASSUME GraphInv,
                    NEW j \in DOMAIN items, items[j].answer = <<"exists", FALSE>>,
                    NEW k \in DOMAIN paths, NEW h \in DOMAIN paths[k].hops,
                    paths[k].hops[h][1] = StartOf(items[j].path),
                    NEW e \in ToSet(dataset.edges), Carries(e, paths[k], h),
                    e.type = items[j].relation
             PROVE  FALSE
  BY DEF NoContradiction
<1>1. TypedNeighbors(StartOf(items[j].path), items[j].relation) = {}
  BY DEF GraphInv, Denials, Honest
<1>2. TypedNeighbors(paths[k].hops[h][1], e.type) # {}
  BY CarriedNeighbor
<1> QED
  BY <1>1, <1>2

\* What the typed neighbour index of question_gen.py denies, no path of
\* pathfinder.py follows, for every ontology and graph, duplicated edge ids,
\* relation names and dangling edges included.
THEOREM FixturesDoNotContradict == Spec => []NoContradiction
  BY InvHolds, NoContradictions, PTL

LEMMA RealFixture == GraphInv => FixtureIsReal
<1> SUFFICES ASSUME GraphInv PROVE FixtureIsReal
  OBVIOUS
<1>1. IsEdges(dataset.edges) /\ PathsWell /\ ItemsWell
  BY DEF GraphInv, Shaped, IsGraph, Fixture
<1>2. ASSUME NEW j \in DOMAIN paths
      PROVE  LET path == paths[j]
             IN /\ Len(path.hops) \in MinHops..MaxHops
                /\ Cardinality(PathNodes(path)) = Len(path.hops) + 1
                /\ \A k \in DOMAIN path.hops : \E e \in ToSet(dataset.edges) : Carries(e, path, k)
  <2> DEFINE path == paths[j]
  <2>1. WellPath(dataset, spec.ontology, path) /\ Len(path.hops) \in MinHops..MaxHops
    BY <1>1 DEF PathsWell
  <2>2. Cardinality(PathNodes(path)) = Len(path.hops) + 1
    BY <2>1, SimplePath
  <2>3. \A e : \A k : Hop(spec.ontology, e, path, k) <=> Carries(e, path, k)
    BY DEF Hop, Carries
  <2>4. \A k \in DOMAIN path.hops : \E e \in ToSet(dataset.edges) : Carries(e, path, k)
    BY <2>1, <2>3 DEF WellPath
  <2> QED
    BY <2>1, <2>2, <2>4
<1>3. \A j, k \in DOMAIN paths : paths[j] = paths[k] => j = k
  BY <1>1 DEF PathsWell
<1>4. ASSUME NEW j \in DOMAIN items
      PROVE  /\ PathResolves(items[j].path)
             /\ EdgeIdsUnique(dataset.edges) => PathRetraverses(items[j].path)
  <2>1. WellPath(dataset, spec.ontology, items[j].path) /\ items[j].path.hops # <<>>
    BY <1>1 DEF ItemsWell, WellItem
  <2> QED
    BY <1>1, <2>1, PathsRetraverse
<1>5. ASSUME EdgeIdsUnique(dataset.edges), NEW j \in DOMAIN items
      PROVE  \/ \E e \in ToSet(dataset.edges) : Dangling(dataset, e)
             \/ Grounded(items[j])
             \/ items[j].answer = <<"exists", FALSE>>
  BY <1>1, <1>5 DEF ItemsWell, WellItem, Grounded
<1> QED
  BY <1>2, <1>3, <1>4, <1>5 DEF FixtureIsReal

\* Every sampled path is a simple path of the graph in directions the ontology
\* allows, and the metrics that check the fixture later find every path and every
\* answer, for every graph, ontology and length of a walk.
THEOREM FixturesAreReal == Spec => []FixtureIsReal
  BY InvHolds, RealFixture, PTL

=============================================================================
