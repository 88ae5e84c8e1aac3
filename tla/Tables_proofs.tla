--------------------------- MODULE Tables_proofs ----------------------------
(***************************************************************************)
(* Proofs about a tabular dataset and its evaluation, for every sample,    *)
(* edit, spec, context, weight map and answer of the model.                *)
(***************************************************************************)
EXTENDS Tables, TLAPS, FiniteSetTheorems, WellFoundedInduction

-----------------------------------------------------------------------------
(* Induction, with the property as a set.                                  *)

\* Over natural numbers.
LEMMA NatSteps ==
    ASSUME NEW Good, 0 \in Good, \A n \in Nat : n \in Good => n + 1 \in Good
    PROVE  Nat \subseteq Good
<1> DEFINE R == OpToRel(<, Nat)
           T == Nat \ Good
<1>1. IsWellFoundedOn(R, Nat)
  BY NatLessThanWellFounded, Zenon
<1>2. \A x, y \in Nat : <<y, x>> \in R <=> y < x
  BY DEF OpToRel
<1> HIDE DEF R
<1>3. ASSUME T # {}
      PROVE  FALSE
  <2>1. PICK x \in T : \A y \in T : ~(<<y, x>> \in R)
    BY <1>1, <1>3, WFMin
  <2>2. x # 0 /\ x - 1 \in Nat /\ x - 1 < x
    OBVIOUS
  <2>3. x - 1 \in Good
    BY <1>2, <2>1, <2>2
  <2> QED
    BY <2>2, <2>3
<1> QED
  BY <1>3

\* Over the subsets of a finite set.
LEMMA SubsetSteps ==
    ASSUME NEW D, IsFiniteSet(D), NEW Good, {} \in Good,
           \A s \in SUBSET D : s # {} /\ (\A x \in s : s \ {x} \in Good) => s \in Good
    PROVE  SUBSET D \subseteq Good
<1> DEFINE Sizes == {n \in Nat : \A s \in SUBSET D : Cardinality(s) = n => s \in Good}
<1>1. \A s \in SUBSET D : IsFiniteSet(s) /\ Cardinality(s) \in Nat /\ (Cardinality(s) = 0 => s = {})
  BY FS_Subset, FS_CardinalityType, FS_EmptySet
<1>2. 0 \in Sizes
  BY <1>1
<1>3. ASSUME NEW n \in Nat, n \in Sizes
      PROVE  n + 1 \in Sizes
  <2> SUFFICES ASSUME NEW s \in SUBSET D, Cardinality(s) = n + 1
               PROVE  s \in Good
    OBVIOUS
  <2>1. s # {}
    BY FS_EmptySet
  <2>2. ASSUME NEW x \in s
        PROVE  s \ {x} \in Good
    <3>1. Cardinality(s \ {x}) = n
      BY <1>1, FS_RemoveElement
    <3> QED
      BY <1>3, <3>1
  <2> QED
    BY <2>1, <2>2
<1>4. Nat \subseteq Sizes
  <2> HIDE DEF Sizes
  <2> QED
    BY <1>2, <1>3, NatSteps
<1> QED
  BY <1>1, <1>4

-----------------------------------------------------------------------------
(* Sums.                                                                   *)

\* The element a fold over a set takes first.
Foremost(s) == CHOOSE x \in s : TRUE

\* I holds the sums of f over the subsets of its domain.
Unfolds(I, f, D) ==
  /\ SumOver(f) = I[D] /\ I[{}] = 0
  /\ \A s \in SUBSET D : s # {} => I[s] = f[Foremost(s)] + I[s \ {Foremost(s)}]

\* SumOver adds the values one by one, in some order of the domain.
LEMMA SumUnfolds ==
    ASSUME NEW f, NEW D, IsFiniteSet(D), DOMAIN f = D
    PROVE  \E I : Unfolds(I, f, D)
<1> DEFINE Body(g, T) == [s \in T |-> IF s = {} THEN 0 ELSE f[Foremost(s)] + g[s \ {Foremost(s)}]]
           Upto(n) == {s \in SUBSET D : Cardinality(s) <= n}
           Good == {n \in Nat : \E g : g = Body(g, Upto(n))}
<1>1. \A s \in SUBSET D : IsFiniteSet(s) /\ Cardinality(s) \in Nat /\ (Cardinality(s) = 0 <=> s = {})
  BY FS_Subset, FS_CardinalityType, FS_EmptySet
<1>2. 0 \in Good
  <2> DEFINE g == [s \in Upto(0) |-> 0]
  <2>1. g = Body(g, Upto(0))
    BY <1>1
  <2> QED
    BY <2>1
<1>3. ASSUME NEW n \in Nat, n \in Good
      PROVE  n + 1 \in Good
  <2>1. PICK h : h = Body(h, Upto(n))
    BY <1>3
  <2> DEFINE g == [s \in Upto(n + 1) |->
                     IF s \in Upto(n) THEN h[s] ELSE f[Foremost(s)] + h[s \ {Foremost(s)}]]
  <2>2. ASSUME NEW s \in Upto(n + 1), s # {}
        PROVE  s \ {Foremost(s)} \in Upto(n)
    <3>1. Foremost(s) \in s
      BY <2>2 DEF Foremost
      <3>2. Cardinality(s \ {Foremost(s)}) = Cardinality(s) - 1
      BY <1>1, <3>1, FS_RemoveElement
    <3> QED
      BY <1>1, <3>2
  <2>3. ASSUME NEW s \in Upto(n + 1)
        PROVE  g[s] = IF s = {} THEN 0 ELSE f[Foremost(s)] + g[s \ {Foremost(s)}]
    <3>1. CASE s = {}
      <4>1. s \in Upto(n)
        BY <1>1, <3>1
      <4> HIDE DEF Upto
      <4> QED
        BY <2>1, <3>1, <4>1
    <3>2. CASE s # {}
      <4>1. s \ {Foremost(s)} \in Upto(n)
        BY <2>2, <3>2
      <4>2. s \ {Foremost(s)} \in Upto(n + 1)
        BY <1>1, <4>1
      <4> HIDE DEF Upto
      <4>3. g[s \ {Foremost(s)}] = h[s \ {Foremost(s)}]
        BY <4>1, <4>2
      <4>4. g[s] = f[Foremost(s)] + h[s \ {Foremost(s)}]
        <5>1. CASE s \in Upto(n)
          <6>1. h[s] = f[Foremost(s)] + h[s \ {Foremost(s)}]
            BY <2>1, <3>2, <5>1
          <6>2. g[s] = h[s]
            BY <5>1
          <6> QED
            BY <6>1, <6>2
        <5>2. CASE s \notin Upto(n)
          BY <5>2
        <5> QED
          BY <5>1, <5>2
      <4> HIDE DEF g
      <4> QED
        BY <3>2, <4>3, <4>4
    <3> QED
      BY <3>1, <3>2
  <2>4. g = Body(g, Upto(n + 1))
    <3> HIDE DEF Upto
    <3> QED
      BY <2>3
  <2>5. \E q : q = Body(q, Upto(n + 1))
    <3> HIDE DEF Body, g, Upto
    <3> QED
      BY <2>4
  <2> HIDE DEF Body, Upto
  <2> QED
    BY <2>5
<1>4. Nat \subseteq Good
  <2> HIDE DEF Good
  <2> QED
    BY <1>2, <1>3, NatSteps
<1>5. Upto(Cardinality(D)) = SUBSET D
  BY FS_Subset, FS_CardinalityType
<1>6. \E g : g = Body(g, SUBSET D)
  <2>1. Cardinality(D) \in Good
    BY <1>1, <1>4
  <2> HIDE DEF Body, Upto
  <2>2. \E g : g = Body(g, Upto(Cardinality(D)))
    BY <2>1
  <2> QED
    BY <1>5, <2>2
<1> DEFINE I == CHOOSE g : g = Body(g, SUBSET D)
<1>7. I = Body(I, SUBSET D)
  <2> HIDE DEF Body
  <2> QED
    BY <1>6
<1>8. SumOver(f) = I[D]
  BY DEF SumOver, MapThenSumSet, MapThenFoldSet, Foremost
<1>9. \A s \in SUBSET D : s # {} => I[s] = f[Foremost(s)] + I[s \ {Foremost(s)}]
  <2> HIDE DEF I
  <2> QED
    BY <1>7
<1>10. I[{}] = 0
  <2> HIDE DEF I
  <2> QED
    BY <1>7
<1>11. Unfolds(I, f, D)
  <2> HIDE DEF I
  <2> QED
    BY <1>8, <1>9, <1>10 DEF Unfolds
<1> QED
  BY <1>11

\* A bound on each value, in terms of another, is one on the sums.
LEMMA SumBounds ==
    ASSUME NEW f, NEW g, NEW D, IsFiniteSet(D), DOMAIN f = D, DOMAIN g = D,
           NEW a \in Int, NEW b \in Int,
           \A d \in D : f[d] \in Int /\ g[d] \in Int /\ a * g[d] <= f[d] /\ f[d] <= b * g[d]
    PROVE  /\ SumOver(f) \in Int /\ SumOver(g) \in Int
           /\ a * SumOver(g) <= SumOver(f) /\ SumOver(f) <= b * SumOver(g)
<1>1. PICK F : Unfolds(F, f, D)
  BY SumUnfolds
<1>2. PICK G : Unfolds(G, g, D)
  BY SumUnfolds
<1> DEFINE Good == {s \in SUBSET D : /\ F[s] \in Int /\ G[s] \in Int
                                     /\ a * G[s] <= F[s] /\ F[s] <= b * G[s]}
<1>3. {} \in Good
  BY <1>1, <1>2 DEF Unfolds
<1>4. ASSUME NEW s \in SUBSET D, s # {}, \A x \in s : s \ {x} \in Good
      PROVE  s \in Good
  <2>1. PICK x \in s : F[s] = f[x] + F[s \ {x}] /\ G[s] = g[x] + G[s \ {x}]
    <3>1. Foremost(s) \in s
      BY <1>4 DEF Foremost
    <3> QED
      BY <1>1, <1>2, <1>4, <3>1 DEF Unfolds
  <2> DEFINE u == f[x]  v == g[x]  y == F[s \ {x}]  z == G[s \ {x}]
  <2>2. /\ u \in Int /\ v \in Int /\ y \in Int /\ z \in Int
        /\ a * v <= u /\ u <= b * v /\ a * z <= y /\ y <= b * z
    BY <1>4
  <2>3. F[s] = u + y /\ G[s] = v + z
    BY <2>1
  <2> HIDE DEF u, v, y, z
  <2>4. a * (v + z) = a * v + a * z /\ b * (v + z) = b * v + b * z
    BY <2>2
  <2>5. a * v \in Int /\ a * z \in Int /\ b * v \in Int /\ b * z \in Int
    BY <2>2
  <2>6. a * v + a * z <= u + y /\ u + y <= b * v + b * z
    BY <2>2, <2>5
  <2> QED
    BY <2>2, <2>3, <2>4, <2>6
<1>5. SUBSET D \subseteq Good
  <2> HIDE DEF Good
  <2> QED
    BY <1>3, <1>4, SubsetSteps
<1> QED
  BY <1>1, <1>2, <1>5 DEF Unfolds

\* A sum of ones counts.
LEMMA SumOnes ==
    ASSUME NEW D, IsFiniteSet(D)
    PROVE  SumOver([d \in D |-> 1]) = Cardinality(D)
<1> DEFINE g == [d \in D |-> 1]
<1>0. DOMAIN g = D /\ \A d \in D : g[d] = 1
  OBVIOUS
<1> HIDE DEF g
<1>1. PICK G : Unfolds(G, g, D)
  BY <1>0, SumUnfolds
<1> DEFINE Good == {s \in SUBSET D : G[s] = Cardinality(s)}
<1>2. {} \in Good
  BY <1>1, FS_EmptySet DEF Unfolds
<1>3. ASSUME NEW s \in SUBSET D, s # {}, \A x \in s : s \ {x} \in Good
      PROVE  s \in Good
  <2>1. PICK x \in s : G[s] = 1 + G[s \ {x}]
    <3>1. Foremost(s) \in s
      BY <1>3 DEF Foremost
    <3> QED
      BY <1>0, <1>1, <1>3, <3>1 DEF Unfolds
  <2>2. Cardinality(s \ {x}) = Cardinality(s) - 1 /\ Cardinality(s) \in Nat
    BY FS_Subset, FS_RemoveElement, FS_CardinalityType
  <2>3. G[s \ {x}] = Cardinality(s \ {x})
    BY <1>3
  <2> QED
    BY <2>1, <2>2, <2>3
<1>4. SUBSET D \subseteq Good
  <2> HIDE DEF Good
  <2> QED
    BY <1>2, <1>3, SubsetSteps
<1>5. SumOver(g) = Cardinality(D)
  BY <1>1, <1>4 DEF Unfolds
<1> QED
  BY <1>5 DEF g

\* A finite set of entries has one of the lowest value and one of the highest.
LEMMA Extremes ==
    ASSUME NEW f, NEW D, IsFiniteSet(D), D # {}, \A d \in D : f[d] \in Int
    PROVE  \E lo, hi \in D : \A d \in D : f[lo] <= f[d] /\ f[d] <= f[hi]
<1> DEFINE Has(s) == \E lo, hi \in s : \A d \in s : f[lo] <= f[d] /\ f[d] <= f[hi]
           Good == {s \in SUBSET D : s = {} \/ Has(s)}
<1>1. {} \in Good
  OBVIOUS
<1>2. ASSUME NEW s \in SUBSET D, s # {}, \A x \in s : s \ {x} \in Good
      PROVE  s \in Good
  <2>1. PICK x \in s : TRUE
    BY <1>2
  <2>2. CASE s \ {x} = {}
    <3>1. \A d \in s : d = x
      BY <2>2
    <3>2. f[x] <= f[x]
      OBVIOUS
    <3> QED
      BY <3>1, <3>2
  <2>3. CASE s \ {x} # {}
    <3>1. PICK lo, hi \in s \ {x} : \A d \in s \ {x} : f[lo] <= f[d] /\ f[d] <= f[hi]
      BY <1>2, <2>3
    <3>2. \E l \in {lo, x} : f[l] <= f[lo] /\ f[l] <= f[x]
      OBVIOUS
    <3>3. \E h \in {hi, x} : f[hi] <= f[h] /\ f[x] <= f[h]
      OBVIOUS
    <3>4. PICK l \in {lo, x} : f[l] <= f[lo] /\ f[l] <= f[x]
      BY <3>2
    <3>5. PICK h \in {hi, x} : f[hi] <= f[h] /\ f[x] <= f[h]
      BY <3>3
    <3>6. ASSUME NEW d \in s
          PROVE  f[l] <= f[d] /\ f[d] <= f[h]
      BY <3>1, <3>4, <3>5
    <3> QED
      BY <3>4, <3>5, <3>6
  <2> QED
    BY <2>2, <2>3
<1>3. SUBSET D \subseteq Good
  <2> HIDE DEF Good
  <2> QED
    BY <1>1, <1>2, SubsetSteps
<1> QED
  BY <1>3

\* A mean of integers no greater than n is no greater than n.
LEMMA MeanBound ==
    ASSUME NEW m, NEW D, IsFiniteSet(D), D # {}, DOMAIN m = D, \A d \in D : m[d] \in Int
    PROVE  /\ MeanContribution(m) \in Int
           /\ (\A d \in D : m[d] <= Unit) => MeanContribution(m) <= Unit
<1> DEFINE ones == [d \in D |-> 1]
           n == Cardinality(D)
<1>1. n \in Nat /\ n > 0
  BY FS_CardinalityType, FS_EmptySet
<1>2. PICK lo, hi \in D : \A d \in D : m[lo] <= m[d] /\ m[d] <= m[hi]
  BY Extremes
<1>3. /\ SumOver(m) \in Int /\ SumOver(ones) \in Int
      /\ SumOver(m) <= m[hi] * SumOver(ones)
  <2>1. \A d \in D : m[d] \in Int /\ ones[d] \in Int /\ m[lo] * ones[d] <= m[d] /\ m[d] <= m[hi] * ones[d]
    BY <1>2
  <2>2. m[lo] \in Int /\ m[hi] \in Int /\ DOMAIN ones = D
    OBVIOUS
  <2> HIDE DEF ones
  <2> QED
    BY <2>1, <2>2, SumBounds
<1>4. SumOver(ones) = n
  BY SumOnes
<1> DEFINE S == SumOver(m)  k == m[hi]
<1>5. S \in Int /\ k \in Int /\ S <= k * n /\ MeanContribution(m) = S \div n
  BY <1>3, <1>4 DEF MeanContribution
<1> HIDE DEF S, n
<1>6. S \div n \in Int
  BY <1>1, <1>5
<1>7. ASSUME k <= Unit
      PROVE  S \div n <= Unit
  <2> HIDE DEF k
  <2>1. S <= 300 * n
    BY <1>1, <1>5, <1>7 DEF Unit
  <2> QED
    BY <1>1, <1>5, <2>1 DEF Unit
<1> QED
  BY <1>5, <1>6, <1>7

-----------------------------------------------------------------------------
(* Judges, weights and metric providers.                                   *)

\* Every dimension a judge scores.
Dimensions == {"fidelity", "privacy", "utility", "diversity", "qualitative", "bias", "task_quality",
               "graph_structure", "graph_ontology", "graph_privacy", "graph_connectivity",
               "graph_utility", "graph_semantic"}

LEMMA FewFinite ==
    /\ IsFiniteSet({})
    /\ \A x : IsFiniteSet({x})
    /\ \A x, y : IsFiniteSet({x, y})
    /\ \A x, y, z : IsFiniteSet({x, y, z})
    /\ \A x, y, z, w : IsFiniteSet({x, y, z, w})
<1>1. IsFiniteSet({}) /\ \A x : IsFiniteSet({x})
  BY FS_EmptySet, FS_Singleton
<1>2. ASSUME NEW x, NEW y
      PROVE  IsFiniteSet({x, y})
  <2>1. IsFiniteSet({x} \cup {y}) /\ {x, y} = {x} \cup {y}
    BY <1>1, FS_AddElement
  <2> QED
    BY <2>1
<1>3. ASSUME NEW x, NEW y, NEW z
      PROVE  IsFiniteSet({x, y, z})
  <2>1. IsFiniteSet({x, y} \cup {z}) /\ {x, y, z} = {x, y} \cup {z}
    BY <1>2, FS_AddElement
  <2> QED
    BY <2>1
<1>4. ASSUME NEW x, NEW y, NEW z, NEW w
      PROVE  IsFiniteSet({x, y, z, w})
  <2>1. IsFiniteSet({x, y, z} \cup {w}) /\ {x, y, z, w} = {x, y, z} \cup {w}
    BY <1>3, FS_AddElement
  <2> QED
    BY <2>1
<1> QED
  BY <1>1, <1>2, <1>3, <1>4

LEMMA FiniteDimensions == IsFiniteSet(Dimensions)
<1> DEFINE A == {"fidelity", "privacy", "utility", "diversity"}
           B == {"qualitative", "bias", "task_quality", "graph_structure"}
           C == {"graph_ontology", "graph_privacy", "graph_connectivity", "graph_utility"}
           E == {"graph_semantic"}
<1>1. IsFiniteSet(A) /\ IsFiniteSet(B) /\ IsFiniteSet(C) /\ IsFiniteSet(E)
  BY FewFinite
<1>2. Dimensions = ((A \cup B) \cup C) \cup E
  BY DEF Dimensions
<1> HIDE DEF A, B, C, E
<1>3. IsFiniteSet(A \cup B)
  BY <1>1, FS_Union
<1>4. IsFiniteSet((A \cup B) \cup C)
  BY <1>1, <1>3, FS_Union
<1> QED
  BY <1>1, <1>2, <1>4, FS_Union

\* Every dimension has a default weight, a natural number.
LEMMA WeightsCover ==
    DOMAIN DefaultWeights = Dimensions /\ \A d \in Dimensions : DefaultWeights[d] \in Nat
<1>2. /\ DOMAIN TabularWeights = {"fidelity", "privacy", "utility", "diversity", "qualitative", "bias", "task_quality"}
      /\ \A d \in DOMAIN TabularWeights : TabularWeights[d] \in Nat
  BY DEF TabularWeights
<1>3. /\ DOMAIN GraphWeights = {"graph_structure", "graph_ontology", "graph_privacy", "graph_connectivity",
                                "graph_utility", "graph_semantic", "task_quality"}
      /\ \A d \in DOMAIN GraphWeights : GraphWeights[d] \in Nat
  BY DEF GraphWeights
<1>4. DOMAIN MediaWeights = {"task_quality", "qualitative"} /\ \A d \in DOMAIN MediaWeights : MediaWeights[d] \in Nat
  BY DEF MediaWeights
<1> DEFINE W == Updated(TabularWeights, GraphWeights)
<1>5. /\ DOMAIN W = DOMAIN TabularWeights \cup DOMAIN GraphWeights
      /\ \A d \in DOMAIN W : W[d] \in Nat
  BY <1>2, <1>3 DEF Updated
<1>6. DefaultWeights = Updated(W, MediaWeights)
  BY DEF DefaultWeights
<1> HIDE DEF W
<1>7. DOMAIN DefaultWeights = DOMAIN W \cup DOMAIN MediaWeights /\ \A d \in DOMAIN DefaultWeights : DefaultWeights[d] \in Nat
  BY <1>4, <1>5, <1>6 DEF Updated
<1>8. DOMAIN DefaultWeights = Dimensions
  BY <1>2, <1>3, <1>4, <1>5, <1>7 DEF Dimensions
<1> QED
  BY <1>7, <1>8

\* The judges of a modality score dimensions.
LEMMA JudgesScoreDimensions ==
    ASSUME NEW modality, NEW llm
    PROVE  Judges(modality, llm) \in Seq(Dimensions)
<1> DEFINE statistical ==
        CASE modality = "graph" -> <<"graph_structure", "graph_ontology", "graph_connectivity",
                                     "graph_utility", "graph_privacy">>
          [] modality \in Media -> <<>>
          [] OTHER -> <<"fidelity", "diversity", "privacy", "utility", "bias">>
           semantic == IF modality = "graph" THEN "graph_semantic" ELSE "qualitative"
<1>1. statistical \in Seq(Dimensions)
  <2>1. <<"graph_structure", "graph_ontology", "graph_connectivity",
          "graph_utility", "graph_privacy">> \in Seq(Dimensions)
    BY DEF Dimensions
  <2>2. <<"fidelity", "diversity", "privacy", "utility", "bias">> \in Seq(Dimensions)
    BY DEF Dimensions
  <2>3. <<>> \in Seq(Dimensions)
    OBVIOUS
  <2> QED
    BY <2>1, <2>2, <2>3, SMT
<1>2. <<semantic, "task_quality">> \in Seq(Dimensions)
  BY DEF Dimensions
<1>3. Judges(modality, llm) = IF llm THEN statistical \o <<semantic, "task_quality">> ELSE statistical
  BY SMT DEF Judges
<1> HIDE DEF statistical, semantic
<1> QED
  BY <1>1, <1>2, <1>3

\* A metric whose score reads the oracle is advertised as asking it, in every
\* provider but the generic one, which has no free metric; and every provider
\* has finitely many metrics.
LEMMA Advertised ==
    ASSUME NEW t \in Tasks
    PROVE  /\ IsFiniteSet(ProviderFor(t).free) /\ IsFiniteSet(ProviderFor(t).llm)
           /\ \/ t = "generic" /\ ProviderFor(t).free = {}
              \/ t # "generic" /\ OracleKeys(t) \cap ProviderFor(t).free \subseteq ProviderFor(t).llm
<1>1. CASE t = "text_classification"
  <2>1. ProviderFor(t) = TextClassificationProvider
    BY <1>1, SMT DEF ProviderFor
  <2>2. /\ IsFiniteSet({"class_balance", "duplicate_rate"})
        /\ IsFiniteSet({"accuracy", "macro_f1"})
    BY FewFinite
  <2>3. IsFiniteSet(ProviderFor(t).free) /\ IsFiniteSet(ProviderFor(t).llm)
    BY <2>1, <2>2 DEF TextClassificationProvider, Provider
  <2> QED
    BY <1>1, <2>1, <2>3 DEF TextClassificationProvider, Provider, OracleKeys
<1>2. CASE t = "qa"
  <2>1. ProviderFor(t) = QAProvider
    BY <1>2, SMT DEF ProviderFor
  <2>2. /\ IsFiniteSet({"answerable_rate", "question_type_diversity"})
        /\ IsFiniteSet({"answer_correctness", "groundedness"})
    BY FewFinite
  <2>3. IsFiniteSet(ProviderFor(t).free) /\ IsFiniteSet(ProviderFor(t).llm)
    BY <2>1, <2>2 DEF QAProvider, Provider
  <2> QED
    BY <1>2, <2>1, <2>3 DEF QAProvider, Provider, OracleKeys
<1>3. CASE t = "summarization"
  <2>1. ProviderFor(t) = SummarizationProvider
    BY <1>3, SMT DEF ProviderFor
  <2>2. /\ IsFiniteSet({"compression_ratio", "abstractiveness"})
        /\ IsFiniteSet({"faithfulness", "coverage", "conciseness"})
    BY FewFinite
  <2>3. IsFiniteSet(ProviderFor(t).free) /\ IsFiniteSet(ProviderFor(t).llm)
    BY <2>1, <2>2 DEF SummarizationProvider, Provider
  <2> QED
    BY <1>3, <2>1, <2>3 DEF SummarizationProvider, Provider, OracleKeys
<1>4. CASE t = "chat"
  <2>1. ProviderFor(t) = ChatProvider
    BY <1>4, SMT DEF ProviderFor
  <2>2. /\ IsFiniteSet({"turn_validity"})
        /\ IsFiniteSet({"instruction_following", "coherence"})
    BY FewFinite
  <2>3. IsFiniteSet(ProviderFor(t).free) /\ IsFiniteSet(ProviderFor(t).llm)
    BY <2>1, <2>2 DEF ChatProvider, Provider
  <2> QED
    BY <1>4, <2>1, <2>3 DEF ChatProvider, Provider, OracleKeys
<1>5. CASE t = "tabular_classification"
  <2>1. ProviderFor(t) = TabularClassificationProvider
    BY <1>5, SMT DEF ProviderFor
  <2>2. /\ IsFiniteSet({"class_balance", "feature_completeness"})
        /\ IsFiniteSet({"label_consistency"})
    BY FewFinite
  <2>3. IsFiniteSet(ProviderFor(t).free) /\ IsFiniteSet(ProviderFor(t).llm)
    BY <2>1, <2>2 DEF TabularClassificationProvider, Provider
  <2> QED
    BY <1>5, <2>1, <2>3 DEF TabularClassificationProvider, Provider, OracleKeys
<1>6. CASE t = "regression"
  <2>1. ProviderFor(t) = RegressionProvider
    BY <1>6, SMT DEF ProviderFor
  <2>2. /\ IsFiniteSet({"target_range_validity", "target_distribution_health", "feature_completeness"})
        /\ IsFiniteSet({})
    BY FewFinite
  <2>3. IsFiniteSet(ProviderFor(t).free) /\ IsFiniteSet(ProviderFor(t).llm)
    BY <2>1, <2>2 DEF RegressionProvider, Provider
  <2> QED
    BY <1>6, <2>1, <2>3 DEF RegressionProvider, Provider, OracleKeys
<1>7. CASE t = "image_classification"
  <2>1. ProviderFor(t) = ImageClassificationProvider
    BY <1>7, SMT DEF ProviderFor
  <2>2. /\ IsFiniteSet({"label_balance", "prompt_diversity", "duplicate_rate"})
        /\ IsFiniteSet({"prompt_label_consistency"})
    BY FewFinite
  <2>3. IsFiniteSet(ProviderFor(t).free) /\ IsFiniteSet(ProviderFor(t).llm)
    BY <2>1, <2>2 DEF ImageClassificationProvider, Provider
  <2> QED
    BY <1>7, <2>1, <2>3 DEF ImageClassificationProvider, Provider, OracleKeys
<1>8. CASE t = "image_generation"
  <2>1. ProviderFor(t) = ImageGenerationProvider
    BY <1>8, SMT DEF ProviderFor
  <2>2. /\ IsFiniteSet({"prompt_diversity", "duplicate_rate"})
        /\ IsFiniteSet({})
    BY FewFinite
  <2>3. IsFiniteSet(ProviderFor(t).free) /\ IsFiniteSet(ProviderFor(t).llm)
    BY <2>1, <2>2 DEF ImageGenerationProvider, Provider
  <2> QED
    BY <1>8, <2>1, <2>3 DEF ImageGenerationProvider, Provider, OracleKeys
<1>9. CASE t = "audio_classification"
  <2>1. ProviderFor(t) = AudioClassificationProvider
    BY <1>9, SMT DEF ProviderFor
  <2>2. /\ IsFiniteSet({"label_balance", "duration_uniformity"})
        /\ IsFiniteSet({"transcript_label_consistency", "transcript_quality"})
    BY FewFinite
  <2>3. IsFiniteSet(ProviderFor(t).free) /\ IsFiniteSet(ProviderFor(t).llm)
    BY <2>1, <2>2 DEF AudioClassificationProvider, Provider
  <2> QED
    BY <1>9, <2>1, <2>3 DEF AudioClassificationProvider, Provider, OracleKeys
<1>10. CASE t = "speech_synthesis"
  <2>1. ProviderFor(t) = SpeechSynthesisProvider
    BY <1>10, SMT DEF ProviderFor
  <2>2. /\ IsFiniteSet({"duration_uniformity"})
        /\ IsFiniteSet({"transcript_quality"})
    BY FewFinite
  <2>3. IsFiniteSet(ProviderFor(t).free) /\ IsFiniteSet(ProviderFor(t).llm)
    BY <2>1, <2>2 DEF SpeechSynthesisProvider, Provider
  <2> QED
    BY <1>10, <2>1, <2>3 DEF SpeechSynthesisProvider, Provider, OracleKeys
<1>11. CASE t = "text_to_video"
  <2>1. ProviderFor(t) = VideoTaskProvider
    BY <1>11, SMT DEF ProviderFor
  <2>2. /\ IsFiniteSet({"duration_conformance", "resolution_consistency", "fps_consistency", "prompt_diversity"})
        /\ IsFiniteSet({"prompt_quality"})
    BY FewFinite
  <2>3. IsFiniteSet(ProviderFor(t).free) /\ IsFiniteSet(ProviderFor(t).llm)
    BY <2>1, <2>2 DEF VideoTaskProvider, Provider
  <2> QED
    BY <1>11, <2>1, <2>3 DEF VideoTaskProvider, Provider, OracleKeys
<1>12. CASE t = "graph_qa"
  <2>1. ProviderFor(t) = GraphQAProvider
    BY <1>12, SMT DEF ProviderFor
  <2>2. /\ IsFiniteSet({"answerable_rate", "multi_hop_correctness", "answer_groundedness"})
        /\ IsFiniteSet({"question_clarity"})
    BY FewFinite
  <2>3. IsFiniteSet(ProviderFor(t).free) /\ IsFiniteSet(ProviderFor(t).llm)
    BY <2>1, <2>2 DEF GraphQAProvider, Provider
  <2> QED
    BY <1>12, <2>1, <2>3 DEF GraphQAProvider, Provider, OracleKeys
<1>13. CASE t = "generic"
  <2>1. ProviderFor(t) = GenericTaskProvider
    BY <1>13, SMT DEF ProviderFor
  <2>2. /\ IsFiniteSet({})
        /\ IsFiniteSet({"realism", "coherence", "task_fit"})
    BY FewFinite
  <2>3. IsFiniteSet(ProviderFor(t).free) /\ IsFiniteSet(ProviderFor(t).llm)
    BY <2>1, <2>2 DEF GenericTaskProvider, Provider
  <2> QED
    BY <1>13, <2>1, <2>3 DEF GenericTaskProvider, Provider, OracleKeys
<1> QED
  BY <1>1, <1>2, <1>3, <1>4, <1>5, <1>6, <1>7, <1>8, <1>9, <1>10, <1>11, <1>12, <1>13 DEF Tasks

\* detect_task finds a task class.
LEMMA TaskFound ==
    ASSUME NEW c, c.task \in Tasks \cup {"auto"}
    PROVE  TaskOf(c) \in Tasks
  BY SMT DEF TaskOf, Tasks

\* The selected metrics are finitely many, and one that reads the oracle is
\* advertised as asking it.
LEMMA Selection ==
    ASSUME NEW c, c.task \in Tasks \cup {"auto"}
    PROVE  /\ IsFiniteSet(SelectedKeys(c))
           /\ SelectedKeys(c) # {} /\ OracleMetrics(TaskOf(c), SelectedKeys(c)) # {} =>
                SelectedKeys(c) \cap ProviderFor(TaskOf(c)).llm # {}
<1> DEFINE t == TaskOf(c)  K == SelectedKeys(c)
<1>1. t \in Tasks
  BY TaskFound
<1>2. K \subseteq MetricCatalog(t)
  BY DEF SelectedKeys
<1> HIDE DEF t, K
<1>3. /\ IsFiniteSet(ProviderFor(t).free) /\ IsFiniteSet(ProviderFor(t).llm)
      /\ \/ t = "generic" /\ ProviderFor(t).free = {}
         \/ t # "generic" /\ OracleKeys(t) \cap ProviderFor(t).free \subseteq ProviderFor(t).llm
  BY <1>1, Advertised
<1>4. IsFiniteSet(MetricCatalog(t))
  BY <1>3, FS_Union DEF MetricCatalog
<1>5. IsFiniteSet(K)
  BY <1>2, <1>4, FS_Subset
<1>6. K # {} /\ OracleMetrics(t, K) # {} => K \cap ProviderFor(t).llm # {}
  BY <1>2, <1>3 DEF MetricCatalog, OracleMetrics
<1> QED
  BY <1>5, <1>6 DEF t, K

\* Metrics are integers.
LEMMA MetricsAreIntegers ==
    ASSUME NEW t, NEW K, NEW c, NEW m \in MetricMaps(t, K, c)
    PROVE  DOMAIN m = K /\ \A k \in K : m[k] \in Int
<1>1. \A k \in K : MetricValues(t, k, c) \subseteq Int
  <2> TAKE k \in K
  <2>1. Values \subseteq Int
    BY ValuesAssumption DEF Unit
  <2>2. \A r \in Ratings : Scaled(r) \in Int
    BY RatingsAssumption DEF Scaled, Unit
  <2>3. {Scaled(r) : r \in IF t = "generic" THEN Ratings ELSE Ratings \cap 1..5} \subseteq Int
    BY <2>2
  <2>4. {0} \subseteq Int
    OBVIOUS
  <2> QED
    BY <2>1, <2>3, <2>4, Zenon DEF MetricValues
<1> QED
  BY <1>1 DEF MetricMaps

-----------------------------------------------------------------------------
(* The evaluation.                                                         *)

\* Every score is an integer of a dimension, and beyond 1.0 only by a rating
\* that broke its rubric.
ScoresKept ==
  /\ wild \in BOOLEAN
  /\ DOMAIN scores \subseteq Dimensions
  /\ \A d \in DOMAIN scores : scores[d] \in Int /\ (wild \/ scores[d] <= Unit)

\* What an evaluation was started with stays.
ContextKept ==
  IF phase = "idle" THEN asked = FALSE
  ELSE ctx.task \in Tasks \cup {"auto"} /\ overrides \in Overrides /\ todo \in Seq(Dimensions)

EvalInv == ScoresKept /\ ContextKept /\ OracleAsAdvertised /\ OverallIsAMean

\* One judge's verdict.
LEMMA VerdictKeeps ==
    ASSUME ScoresKept, todo \in Seq(Dimensions), todo # <<>>, NEW v \in Int, Verdict(v),
           wild' \in BOOLEAN, wild => wild', wild' \/ v <= Unit
    PROVE  ScoresKept' /\ todo' \in Seq(Dimensions)
<1>1. Judge \in Dimensions /\ Tail(todo) \in Seq(Dimensions)
  BY DEF Judge
<1> HIDE DEF Judge
<1>2. /\ DOMAIN scores' = DOMAIN scores \cup {Judge}
      /\ \A d \in DOMAIN scores' : scores'[d] = IF d = Judge THEN v ELSE scores[d]
      /\ todo' = Tail(todo)
  BY DEF Verdict, Updated
<1> QED
  BY <1>1, <1>2 DEF ScoresKept

\* The mean of the scores, taken over weights of which none is negative and the
\* sum is positive.
LEMMA MeanLies ==
    ASSUME NEW D, IsFiniteSet(D), D # {},
           NEW score, DOMAIN score = D, \A d \in D : score[d] \in Int,
           NEW weight, DOMAIN weight = D, \A d \in D : weight[d] \in Nat,
           NEW top \in Int, SumOver(weight) > 0
    PROVE  LET all == SumOver([d \in D |-> score[d] * weight[d]])
               sum == SumOver(weight)
           IN /\ \E lo, hi \in D : score[lo] * sum <= all /\ all <= score[hi] * sum
              /\ (\A d \in D : score[d] <= top) => all <= top * sum
<1> DEFINE part == [d \in D |-> score[d] * weight[d]]
<1>1. PICK lo, hi \in D : \A d \in D : score[lo] <= score[d] /\ score[d] <= score[hi]
  BY Extremes
<1> DEFINE a == score[lo]  b == score[hi]
<1>2. ASSUME NEW d \in D
      PROVE  /\ part[d] \in Int /\ weight[d] \in Int
             /\ a * weight[d] <= part[d] /\ part[d] <= b * weight[d]
  <2> DEFINE x == score[d]  w == weight[d]
  <2>1. x \in Int /\ w \in Nat /\ a \in Int /\ b \in Int /\ a <= x /\ x <= b /\ part[d] = x * w
    BY <1>1
  <2> HIDE DEF x, w, a, b, part
  <2>2. x * w \in Int /\ a * w <= x * w /\ x * w <= b * w
    BY <2>1
  <2> QED
    BY <2>1, <2>2 DEF w
<1>3. DOMAIN part = D /\ a \in Int /\ b \in Int
  OBVIOUS
<1> HIDE DEF part, a, b
<1>4. /\ SumOver(part) \in Int /\ SumOver(weight) \in Int
      /\ a * SumOver(weight) <= SumOver(part) /\ SumOver(part) <= b * SumOver(weight)
  BY <1>2, <1>3, SumBounds
<1>5. ASSUME \A d \in D : score[d] <= top
      PROVE  SumOver(part) <= top * SumOver(weight)
  <2> DEFINE n == SumOver(weight)  all == SumOver(part)
  <2>1. b <= top
    BY <1>5 DEF b
  <2>2. n \in Int /\ n > 0 /\ all \in Int /\ all <= b * n
    BY <1>4
  <2> HIDE DEF n, all
  <2>3. b * n \in Int /\ top * n \in Int /\ b * n <= top * n
    BY <1>3, <2>1, <2>2
  <2>4. all <= top * n
    BY <2>2, <2>3
  <2> QED
    BY <2>4 DEF n, all
<1> QED
  BY <1>4, <1>5 DEF part, a, b

\* aggregate takes such a mean: where the weights that are present sum to
\* nothing, every score weighs one.
LEMMA AggregateIsAMean ==
    ASSUME ScoresKept, ContextKept, Aggregate
    PROVE  OverallIsAMean'
<1> SUFFICES ASSUME DOMAIN scores # {}, \A d \in DOMAIN overrides : overrides[d] >= 0
             PROVE  /\ total' > 0
                    /\ \E lo, hi \in DOMAIN scores :
                         scores[lo] * total' <= overall' /\ overall' <= scores[hi] * total'
                    /\ wild \/ overall' <= Unit * total'
  BY DEF OverallIsAMean, Aggregate
<1> DEFINE D == DOMAIN scores
           W == IF SumOver(Present) > 0 THEN Present ELSE [d \in D |-> 1]
<1>1. IsFiniteSet(D) /\ D # {} /\ D \subseteq Dimensions
  BY FiniteDimensions, FS_Subset DEF ScoresKept
<1>2. total' = SumOver(W) /\ overall' = SumOver([d \in D |-> scores[d] * W[d]])
  BY DEF Aggregate
<1>3. DOMAIN Present = D /\ \A d \in D : Present[d] \in Nat
  <2>1. \A d \in DOMAIN overrides : overrides[d] \in Nat
    BY OverridesAssumption DEF ContextKept, Aggregate
  <2>2. \A d \in Dimensions : Updated(DefaultWeights, overrides)[d] \in Nat
    BY <2>1, WeightsCover DEF Updated
  <2> QED
    BY <1>1, <2>2 DEF Present
<1>4. DOMAIN W = D /\ (\A d \in D : W[d] \in Nat) /\ SumOver(W) > 0
  <2>1. CASE SumOver(Present) > 0
    BY <1>3, <2>1
  <2>2. CASE ~(SumOver(Present) > 0)
    <3>1. SumOver([d \in D |-> 1]) > 0
      BY <1>1, SumOnes, FS_CardinalityType, FS_EmptySet
    <3> QED
      BY <2>2, <3>1
  <2> QED
    BY <2>1, <2>2
<1>5. \A d \in D : scores[d] \in Int /\ (wild \/ scores[d] <= Unit)
  BY DEF ScoresKept
<1> HIDE DEF D, W
<1>6. /\ \E lo, hi \in D : scores[lo] * total' <= overall' /\ overall' <= scores[hi] * total'
      /\ (\A d \in D : scores[d] <= Unit) => overall' <= Unit * total'
  <2>1. DOMAIN scores = D /\ Unit \in Int
    BY DEF D, Unit
  <2> QED
    BY <1>1, <1>2, <1>4, <1>5, <2>1, MeanLies
<1> QED
  BY <1>2, <1>4, <1>5, <1>6 DEF D

\* What is left to show of a judge's turn: the scores, what is to do, and that a
\* call of the model was advertised.
LEMMA TurnKeeps ==
    ASSUME EvalInv, phase = "judging", phase' \in {"judging", "failed"}, UNCHANGED <<ctx, overrides>>,
           ScoresKept', todo' \in Seq(Dimensions),
           asked' => SelectedKeys(ctx) \cap ProviderFor(TaskOf(ctx)).llm # {}
    PROVE  EvalInv'
<1>1. ctx.task \in Tasks \cup {"auto"} /\ overrides \in Overrides
  BY DEF EvalInv, ContextKept
<1>2. ContextKept'
  BY <1>1 DEF ContextKept
<1>3. OracleAsAdvertised'
  BY DEF OracleAsAdvertised
<1>4. OverallIsAMean'
  BY DEF OverallIsAMean
<1> QED
  BY <1>2, <1>3, <1>4 DEF EvalInv

LEMMA JudgingKeeps ==
    ASSUME EvalInv, EvalNext
    PROVE  EvalInv'
<1> USE DEF EvalInv
<1> DEFINE Told == SelectedKeys(ctx) \cap ProviderFor(TaskOf(ctx)).llm # {}
<1>1. asked => Told
  BY DEF OracleAsAdvertised
<1>2. /\ phase = "judging"
      /\ ctx.task \in Tasks \cup {"auto"} /\ todo \in Seq(Dimensions)
  BY DEF ContextKept, EvalNext, JudgeScores, JudgeNotApplicable, JudgeRaises, RubricScores,
         RubricUnparseable, TaskScores, TaskNotApplicable, TaskRaises, Aggregate, Judging
<1>3. Tail(todo) \in Seq(Dimensions) \/ todo = <<>>
  BY <1>2
<1>4. CASE JudgeScores
  <2>1. PICK v \in Values : Verdict(v)
    BY <1>4 DEF JudgeScores
  <2>2. v \in Int /\ v <= Unit
    BY ValuesAssumption DEF Unit
  <2>3. todo # <<>> /\ UNCHANGED <<phase, ctx, overrides, asked, wild>>
    BY <1>4 DEF JudgeScores, Judging
  <2>4. ScoresKept' /\ todo' \in Seq(Dimensions)
    BY <1>2, <2>1, <2>2, <2>3, VerdictKeeps DEF ScoresKept
  <2> QED
    BY <1>1, <1>2, <2>3, <2>4, TurnKeeps
<1>5. CASE JudgeNotApplicable
  <2>1. todo # <<>> /\ todo' = Tail(todo) /\ UNCHANGED <<phase, ctx, overrides, scores, asked, wild>>
    BY <1>5 DEF JudgeNotApplicable, Judging, Drop
  <2>2. ScoresKept'
    BY <2>1 DEF ScoresKept
  <2> QED
    BY <1>1, <1>2, <1>3, <2>1, <2>2, TurnKeeps
<1>6. CASE JudgeRaises \/ RubricUnparseable \/ TaskRaises
  <2>1. phase' = "failed" /\ UNCHANGED <<todo, ctx, overrides, scores, asked, wild>>
    BY <1>6 DEF JudgeRaises, RubricUnparseable, TaskRaises, Abort
  <2>2. ScoresKept'
    BY <2>1 DEF ScoresKept
  <2> QED
    BY <1>1, <1>2, <2>1, <2>2, TurnKeeps
<1>7. CASE RubricScores
  <2> DEFINE Score(lo, hi) == IF Judge = "qualitative" THEN QualitativeScore(lo, lo, hi) ELSE SemanticScore(lo, hi)
  <2>1. PICK lo, hi \in Ratings : Verdict(Score(lo, hi)) /\ wild' = (wild \/ ~({lo, hi} \subseteq 1..5))
    BY <1>7 DEF RubricScores
  <2>2. lo \in Int /\ hi \in Int
    BY RatingsAssumption
  <2>3. Score(lo, hi) \in Int /\ (lo <= 5 /\ hi <= 5 => Score(lo, hi) <= Unit)
    <3> HIDE DEF Judge
    <3>1. Scaled(lo) = 60 * lo /\ Scaled(hi) = 60 * hi
      BY <2>2 DEF Scaled, Unit
    <3>2. QualitativeScore(lo, lo, hi) \in Int /\ (lo <= 5 /\ hi <= 5 => QualitativeScore(lo, lo, hi) <= Unit)
      BY <2>2, <3>1 DEF QualitativeScore, Unit
    <3>3. SemanticScore(lo, hi) \in Int /\ (lo <= 5 /\ hi <= 5 => SemanticScore(lo, hi) <= Unit)
      BY <2>2, <3>1 DEF SemanticScore, Unit
    <3> QED
      BY <3>2, <3>3
  <2> HIDE DEF Score
  <2>4. todo # <<>> /\ UNCHANGED <<phase, ctx, overrides, asked>>
    BY <1>7 DEF RubricScores, Judging
  <2>5. wild' \in BOOLEAN /\ (wild => wild') /\ (wild' \/ Score(lo, hi) <= Unit)
    <3> DEFINE broken == ~({lo, hi} \subseteq 1..5)
    <3>1. broken \in BOOLEAN /\ wild \in BOOLEAN /\ wild' = (wild \/ broken)
      BY <2>1 DEF ScoresKept
    <3>2. broken \/ Score(lo, hi) <= Unit
      BY <2>2, <2>3
    <3> HIDE DEF broken
    <3> QED
      BY <3>1, <3>2, Zenon
  <2>6. ScoresKept' /\ todo' \in Seq(Dimensions)
    BY <1>2, <2>1, <2>3, <2>4, <2>5, VerdictKeeps
  <2> QED
    BY <1>1, <1>2, <2>4, <2>6, TurnKeeps
<1>8. CASE TaskScores
  <2> DEFINE task == TaskOf(ctx)  keys == SelectedKeys(ctx)
  <2>1. /\ todo # <<>> /\ keys # {} /\ UNCHANGED <<phase, ctx, overrides>>
        /\ asked' = (OracleMetrics(task, keys) # {} /\ ~NothingSampled(task, ctx))
        /\ \E m \in MetricMaps(task, keys, ctx) :
             Verdict(MeanContribution(m)) /\ wild' = (wild \/ \E k \in keys : m[k] > Unit)
    BY <1>8, Zenon DEF TaskScores, Judging
  <2>2. IsFiniteSet(keys) /\ (asked' => Told)
    BY <1>2, <2>1, Selection
  <2>3. PICK m \in MetricMaps(task, keys, ctx) :
          Verdict(MeanContribution(m)) /\ wild' = (wild \/ \E k \in keys : m[k] > Unit)
    BY <2>1
  <2> HIDE DEF task, keys
  <2>4. DOMAIN m = keys /\ \A k \in keys : m[k] \in Int
    BY MetricsAreIntegers
  <2>5. /\ MeanContribution(m) \in Int
        /\ (\A k \in keys : m[k] <= Unit) => MeanContribution(m) <= Unit
    BY <2>1, <2>2, <2>4, MeanBound
  <2>6. wild' \in BOOLEAN /\ (wild => wild') /\ (wild' \/ MeanContribution(m) <= Unit)
    <3>1. CASE \E k \in keys : m[k] > Unit
      BY <2>3, <3>1 DEF ScoresKept
    <3>2. CASE ~ \E k \in keys : m[k] > Unit
      <4>1. \A k \in keys : m[k] <= Unit
        BY <2>4, <3>2 DEF Unit
      <4> QED
        BY <2>3, <2>5, <3>2, <4>1 DEF ScoresKept
    <3> QED
      BY <3>1, <3>2
  <2>7. ScoresKept' /\ todo' \in Seq(Dimensions)
    BY <1>2, <2>1, <2>3, <2>5, <2>6, VerdictKeeps
  <2> QED
    BY <1>2, <2>1, <2>2, <2>7, TurnKeeps
<1>9. CASE TaskNotApplicable
  <2>1. /\ todo # <<>> /\ todo' = Tail(todo) /\ UNCHANGED <<phase, ctx, overrides, scores, wild>>
        /\ \/ UNCHANGED asked
           \/ /\ SelectedKeys(ctx) # {}
              /\ OracleMetrics(TaskOf(ctx), SelectedKeys(ctx)) # {}
    BY <1>9, Zenon DEF TaskNotApplicable, Judging, Drop
  <2>2. asked' => Told
    BY <1>1, <1>2, <2>1, Selection
  <2>3. ScoresKept'
    BY <2>1 DEF ScoresKept
  <2> QED
    BY <1>2, <1>3, <2>1, <2>2, <2>3, TurnKeeps
<1>10. CASE Aggregate
  <2>1. phase' = "done" /\ UNCHANGED <<ctx, overrides, todo, scores, asked, wild>>
    BY <1>10 DEF Aggregate
  <2>2. ScoresKept' /\ ContextKept'
    BY <1>2, <2>1 DEF ScoresKept, ContextKept
  <2>3. OracleAsAdvertised'
    BY <2>1 DEF OracleAsAdvertised
  <2>4. OverallIsAMean'
    BY <1>10, AggregateIsAMean
  <2> QED
    BY <2>2, <2>3, <2>4
<1> QED
  BY <1>4, <1>5, <1>6, <1>7, <1>8, <1>9, <1>10 DEF EvalNext

LEMMA StartKeeps ==
    ASSUME EvalInv, NEW c, c.task \in Tasks \cup {"auto"}, StartJudging(c)
    PROVE  EvalInv'
<1>1. /\ phase = "idle" /\ phase' = "judging" /\ ctx' = c /\ overrides' \in Overrides
      /\ todo' = Judges(c.modality, c.llm) /\ UNCHANGED <<scores, asked, wild>>
  BY DEF StartJudging
<1>2. asked' = FALSE
  BY <1>1 DEF EvalInv, ContextKept
<1>3. ScoresKept'
  BY <1>1 DEF EvalInv, ScoresKept
<1>4. ContextKept'
  BY <1>1, JudgesScoreDimensions DEF ContextKept
<1> QED
  BY <1>1, <1>2, <1>3, <1>4 DEF EvalInv, OracleAsAdvertised, OverallIsAMean

LEMMA StayKeeps ==
    ASSUME EvalInv, UNCHANGED evalVars
    PROVE  EvalInv'
<1>1. UNCHANGED <<phase, ctx, overrides, todo, scores, asked, wild, total, overall>>
  BY DEF evalVars
<1>2. ScoresKept' /\ ContextKept'
  BY <1>1 DEF EvalInv, ScoresKept, ContextKept
<1>3. OracleAsAdvertised'
  BY <1>1 DEF EvalInv, OracleAsAdvertised
<1>4. OverallIsAMean'
  BY <1>1 DEF EvalInv, OverallIsAMean
<1> QED
  BY <1>2, <1>3, <1>4 DEF EvalInv

\* The scores of an evaluation, what it was started with, and the two promises
\* of the mixture hold in every state, whatever judges drop out or fail.
THEOREM EvaluationHolds == Spec => []EvalInv
<1>1. TablesInit => EvalInv
  <2> SUFFICES ASSUME TablesInit
               PROVE  EvalInv
    OBVIOUS
  <2>1. phase = "idle" /\ scores = <<>> /\ asked = FALSE /\ wild = FALSE
    BY DEF TablesInit, Idle
  <2>2. ScoresKept
    <3>1. DOMAIN scores = {}
      BY <2>1
    <3>2. wild \in BOOLEAN
      BY <2>1, Zenon
    <3> QED
      BY <3>1, <3>2 DEF ScoresKept
  <2> QED
    BY <2>1, <2>2 DEF EvalInv, ContextKept, OracleAsAdvertised, OverallIsAMean
<1>2. EvalInv /\ [Next]_vars => EvalInv'
  <2> SUFFICES ASSUME EvalInv, [Next]_vars
               PROVE  EvalInv'
    OBVIOUS
  <2>1. CASE UNCHANGED evalVars
    BY <2>1, StayKeeps
  <2>2. CASE EvalNext
    BY <2>2, JudgingKeeps
  <2>3. CASE Evaluate
    <3>1. PICK q \in Questions : StartJudging(EvaluationContext(parent.modality, child, parent.table, q))
      BY <2>3 DEF Evaluate
    <3>2. EvaluationContext(parent.modality, child, parent.table, q).task = "auto"
      BY DEF EvaluationContext
    <3> QED
      BY <3>1, <3>2, StartKeeps
  <2>4. CASE EvaluateOther
    <3>1. PICK c \in Contexts : StartJudging(c)
      BY <2>4 DEF EvaluateOther
    <3> QED
      BY <3>1, ContextsAssumption, StartKeeps
  <2>5. CASE UploadSample
    BY <2>5, <2>1 DEF UploadSample
  <2>6. CASE KeepFields \/ RetypeField \/ BoundField \/ AddField \/ DropField
    BY <2>6, <2>1 DEF KeepFields, RetypeField, BoundField, AddField, DropField, Edited
  <2>7. CASE Generate \/ GenerateRaises \/ Publish \/ OtherVersion
    BY <2>7, <2>1 DEF Generate, GenerateRaises, Publish, OtherVersion
  <2>8. CASE PerturbNothing \/ PerturbCells \/ PerturbRows \/ PerturbRaises
    BY <2>8, <2>1 DEF PerturbNothing, PerturbCells, PerturbRows, PerturbRaises, Perturbed
  <2>9. CASE Finished \/ UNCHANGED vars
    BY <2>9, <2>1 DEF Finished, vars
  <2> QED
    BY <2>2, <2>3, <2>4, <2>5, <2>6, <2>7, <2>8, <2>9 DEF Next
<1> QED
  BY <1>1, <1>2, PTL DEF Spec

\* The task judge calls the model only if a selected metric is advertised as
\* asking it, for every selection, task class and dataset.
THEOREM OracleIsAdvertised == Spec => []OracleAsAdvertised
<1>1. EvalInv => OracleAsAdvertised
  BY DEF EvalInv
<1> QED
  BY <1>1, EvaluationHolds, PTL

\* The overall score lies between the lowest and the highest score, for every
\* set of judges that answered and every map of non-negative overrides, and is
\* at most 1.0 as long as the ratings keep to their rubric.
THEOREM OverallStaysAMean == Spec => []OverallIsAMean
<1>1. EvalInv => OverallIsAMean
  BY DEF EvalInv
<1> QED
  BY <1>1, EvaluationHolds, PTL

-----------------------------------------------------------------------------
(* Profiles and fields.                                                    *)

\* A set of numbers has a least and a greatest, and holds them.
LEMMA NumbersHaveEnds ==
    ASSUME NEW S, S \subseteq Numbers, S # {}
    PROVE  Min(S) \in S /\ Max(S) \in S
<1> DEFINE id == [x \in S |-> x]
<1>1. IsFiniteSet(S)
  <2>1. IsFiniteSet(0..4)
    BY FS_Interval, 0 \in Int, 4 \in Int
  <2> QED
    BY <2>1, FS_Subset DEF Numbers
<1>2. S \subseteq Int
  BY DEF Numbers
<1>3. \A x \in S : id[x] \in Int /\ id[x] = x
  BY <1>2
<1> HIDE DEF id
<1>4. PICK lo, hi \in S : \A x \in S : id[lo] <= id[x] /\ id[x] <= id[hi]
  BY <1>1, <1>3, Extremes
<1>5. \A x \in S : lo <= x /\ hi >= x
  BY <1>2, <1>3, <1>4
<1>6. Min(S) \in S
  BY <1>5 DEF Min
<1>7. Max(S) \in S
  BY <1>5 DEF Max
<1> QED
  BY <1>6, <1>7

\* The type and the nullability of a profile, and its bounds, which are numbers
\* of the column.
LEMMA ProfileParts ==
    ASSUME NEW col, SampleColumn(col)
    PROVE  LET p == ColumnProfile(col) IN
           /\ p.type = InferType(col)
           /\ p.nullable = (Range(col.cells) \cap Missing # {})
           /\ "min" \in DOMAIN p <=> "max" \in DOMAIN p
           /\ "min" \in DOMAIN p => p.min \in Numbers /\ p.max \in Numbers
           /\ p.type = "categorical" =>
                p.categories = [v \in {Str(w) : w \in Known(col.cells)} |-> Frequency(col.cells, v)]
<1> DEFINE p == ColumnProfile(col)
           type == InferType(col)
           known == Known(col.cells)
           base == [type |-> type, nullable |-> Range(col.cells) \cap Missing # {}]
           ends == [min |-> Min(known), max |-> Max(known)]
           counts == [categories |-> [v \in {Str(w) : w \in known} |-> Frequency(col.cells, v)]]
<1>1. p = CASE type \in {"integer", "float"} /\ known # {} -> Updated(base, ends)
            [] type = "categorical" -> Updated(base, counts)
            [] OTHER -> base
  BY SMT DEF ColumnProfile
<1>2. CASE type \in {"integer", "float"} /\ known # {}
  <2>1. p = Updated(base, ends)
    BY <1>1, <1>2, SMT
  <2>2. col.dtype \in {"int", "float"}
    BY <1>2, SMT DEF InferType, SampleColumn
  <2>3. Min(known) \in Numbers /\ Max(known) \in Numbers
    BY <1>2, <2>2, NumbersHaveEnds DEF SampleColumn
  <2> HIDE DEF p, type, known
  <2>4. /\ p.type = type /\ p.nullable = (Range(col.cells) \cap Missing # {})
        /\ DOMAIN p = {"type", "nullable", "min", "max"}
        /\ p.min = Min(known) /\ p.max = Max(known)
    BY <2>1 DEF Updated
  <2> QED
    BY <1>2, <2>3, <2>4 DEF p, type, known
<1>3. CASE type = "categorical"
  <2>1. p = Updated(base, counts)
    BY <1>1, <1>3, SMT
  <2> HIDE DEF p, type, known
  <2>2. /\ p.type = type /\ p.nullable = (Range(col.cells) \cap Missing # {})
        /\ DOMAIN p = {"type", "nullable", "categories"}
        /\ p.categories = [v \in {Str(w) : w \in known} |-> Frequency(col.cells, v)]
    BY <2>1 DEF Updated
  <2> QED
    BY <1>3, <2>2 DEF p, type, known
<1>4. CASE ~(type \in {"integer", "float"} /\ known # {}) /\ type # "categorical"
  <2>1. p = base
    BY <1>1, <1>4, SMT
  <2> QED
    BY <1>4, <2>1 DEF p, type
<1> QED
  BY <1>2, <1>3, <1>4

\* Bounds are numbers and choices are strings.
Sound(c) ==
  /\ \A key \in DOMAIN c \cap {"min", "max"} : c[key] \in Numbers
  /\ "choices" \in DOMAIN c => c.choices \cap (Bools \cup Missing) = {}

LEMMA ProposedConstraints ==
    ASSUME NEW col, SampleColumn(col)
    PROVE  LET p == ColumnProfile(col) IN
           Sound(Constraints(p)) /\ ("choices" \in DOMAIN Constraints(p) => p.type = "categorical")
<1> DEFINE p == ColumnProfile(col)
           c == Constraints(p)
<1>1. /\ "min" \in DOMAIN p => p.min \in Numbers /\ p.max \in Numbers
      /\ p.type = "categorical" =>
           p.categories = [v \in {Str(w) : w \in Known(col.cells)} |-> Frequency(col.cells, v)]
  BY ProfileParts
<1> HIDE DEF p
<1>2. CASE "min" \in DOMAIN p
  <2>1. c = [min |-> p.min, max |-> p.max]
    BY <1>2 DEF Constraints
  <2> QED
    BY <1>1, <1>2, <2>1 DEF Sound, p
<1>3. CASE "min" \notin DOMAIN p /\ p.type # "categorical"
  <2>1. c = <<>>
    BY <1>3 DEF Constraints, Nothing
  <2>2. DOMAIN c = {}
    BY <2>1
  <2> HIDE DEF c
  <2> QED
    BY <2>2 DEF Sound, c, p
<1>4. CASE "min" \notin DOMAIN p /\ p.type = "categorical"
  <2>1. DOMAIN c = {"choices", "most_frequent"} /\ c.choices = DOMAIN p.categories
    BY <1>4 DEF Constraints
  <2>2. c.choices = {Str(w) : w \in Known(col.cells)}
    BY <1>1, <1>4, <2>1
  <2>3. \A w \in Known(col.cells) : Str(w) \notin Bools \cup Missing
    <3>1. Known(col.cells) \subseteq Int /\ Known(col.cells) \cap Missing = {}
      BY DEF Known, SampleColumn, Range, Held, Numbers, Texts, Bools, Moments, Missing, None, NaN
    <3> QED
      BY <3>1 DEF Str, Bools, Missing, None, NaN
  <2> HIDE DEF c
  <2> QED
    BY <1>4, <2>1, <2>2, <2>3 DEF Sound, c, p
<1> QED
  BY <1>2, <1>3, <1>4

-----------------------------------------------------------------------------
(* Synthesis.                                                              *)

\* A known number is clipped into bounds that are not inverted.
LEMMA ClipsIntoBounds ==
    ASSUME NEW v \in Int, NEW c, {"min", "max"} \subseteq DOMAIN c,
           c.min \in Numbers, c.max \in Numbers, c.min <= c.max
    PROVE  Clip(Number(v), c) \in c.min..c.max
<1>1. Min(Bools) = 20
  <2>1. \A y \in Bools : 20 <= y
    BY DEF Bools
  <2>2. \A x \in Bools : (\A y \in Bools : x <= y) => x = 20
    BY DEF Bools
  <2>3. 20 \in Bools
    BY DEF Bools
  <2> QED
    BY <2>1, <2>2, <2>3 DEF Min
<1>2. Number(v) \in Int
  BY <1>1 DEF Number
<1> DEFINE w == Number(v)  lo == c.min  hi == c.max
<1>3. w \in Int /\ lo \in Int /\ hi \in Int /\ lo <= hi
  BY <1>2 DEF Numbers
<1>4. Clip(w, c) = LET raised == IF w < lo THEN lo ELSE w IN IF raised > hi THEN hi ELSE raised
  BY DEF Clip
<1> HIDE DEF w, lo, hi
<1>5. Clip(w, c) \in lo..hi
  BY <1>3, <1>4
<1> QED
  BY <1>5 DEF w, lo, hi

\* One field of a generated version, sampled or added by the user.
LEMMA FieldConforms ==
    ASSUME NEW name, name \in DOMAIN fields, Sound(fields[name].constraints),
           name \in DOMAIN sample =>
             /\ SampleColumn(sample[name])
             /\ profile[name] = ColumnProfile(sample[name])
             /\ \/ fields[name].type = profile[name].type
                \/ fields[name].constraints = Constraints(profile[name]),
           NEW raw \in [1..NRows -> FieldCells(name)]
    PROVE  LET f == fields[name]  c == f.constraints
               cells == Range(EnforceColumn(raw, f))
               sampled == name \in DOMAIN sample
           IN /\ Bounded(f) /\ {"min", "max"} \subseteq DOMAIN c /\ c.min <= c.max =>
                   \A v \in cells \ Missing :
                     \/ v \in c.min..c.max
                     \/ v = Wrapped /\ f.type = "integer" /\ sampled /\ profile[name].nullable
              /\ OneOf(f) => cells \subseteq c.choices \cup {MostFrequent(c)}
              /\ f.type \notin Modeled /\ sampled /\ profile[name].type \notin Modeled =>
                   cells \cap Range(sample[name].cells) = {}
              /\ OneOf(f) /\ sampled /\ Known(sample[name].cells) \cap Bools # {} =>
                   Cardinality(cells) = 1
<1> DEFINE f == fields[name]
           c == f.constraints
           cells == Range(EnforceColumn(raw, f))
           sampled == name \in DOMAIN sample
           col == sample[name]
           p == profile[name]
<1>1. cells = {Enforced(raw[r], f) : r \in 1..NRows}
  BY DEF EnforceColumn, Range
<1>2. \A r \in 1..NRows : raw[r] \in FieldCells(name)
  OBVIOUS
<1>3. /\ sampled => SampleColumn(col) /\ p = ColumnProfile(col) /\ (f.type = p.type \/ c = Constraints(p))
      /\ Sound(c)
  OBVIOUS
<1>4. sampled => /\ Known(col.cells) \subseteq Int /\ Range(col.cells) \subseteq Held
                 /\ p.type = InferType(col) /\ p.nullable = (Range(col.cells) \cap Missing # {})
  <2> SUFFICES ASSUME sampled
               PROVE  /\ Known(col.cells) \subseteq Int /\ Range(col.cells) \subseteq Held
                      /\ p.type = InferType(col) /\ p.nullable = (Range(col.cells) \cap Missing # {})
    OBVIOUS
  <2>1. SampleColumn(col) /\ p = ColumnProfile(col)
    BY <1>3
  <2> HIDE DEF col, p
  <2>2. Range(col.cells) \subseteq Held
    BY <2>1 DEF SampleColumn, Range
  <2>3. Held \subseteq Int
    BY DEF Held, Numbers, Texts, Bools, Moments, Missing, None, NaN
  <2>4. p.type = InferType(col) /\ p.nullable = (Range(col.cells) \cap Missing # {})
    BY <2>1, ProfileParts
  <2> QED
    BY <2>2, <2>3, <2>4 DEF Known
<1>5. name \in ModeledNames <=> sampled /\ p.type \in Modeled
  BY DEF ModeledNames
<1>6. FieldCells(name) = IF name \in ModeledNames THEN Decoded(col)
                         ELSE IF f.type \in Modeled THEN FallbackCells(f) ELSE {Fake}
  BY DEF FieldCells
<1> HIDE DEF f, c, cells, sampled, col, p
<1>7. ASSUME Bounded(f), {"min", "max"} \subseteq DOMAIN c, c.min <= c.max, NEW v \in cells, v \notin Missing
      PROVE  v \in c.min..c.max \/ (v = Wrapped /\ f.type = "integer" /\ sampled /\ p.nullable)
  <2>1. PICK r \in 1..NRows : v = Enforced(raw[r], f)
    BY <1>1, <1>7
  <2> DEFINE w == raw[r]
  <2>2. w \in FieldCells(name)
    BY <1>2
  <2>3. c = f.constraints
    BY DEF c, f
  <2>4. c.min \in Numbers /\ c.max \in Numbers
    BY <1>3, <1>7 DEF Sound
  <2> HIDE DEF w
  <2>5. CASE w \in Missing
    <3>1. f.type = "integer" /\ v = Wrapped
      BY <1>7, <2>1, <2>5 DEF Enforced, Missing, NaN, w
    <3>2. name \in ModeledNames
      <4>1. f.type \in Modeled
        BY <3>1 DEF Modeled
      <4>2. FallbackCells(f) = c.min..c.max
        BY <1>7, <2>3, <3>1, SMT DEF FallbackCells
      <4>3. w \notin c.min..c.max
        BY <2>4, <2>5 DEF Missing, None, NaN, Numbers
      <4> QED
        BY <1>6, <2>2, <4>1, <4>2, <4>3
    <3>3. w \in Decoded(col)
      BY <1>6, <2>2, <3>2
    <3>4. Range(col.cells) \cap Missing # {}
      BY <2>5, <3>3 DEF Decoded, Known, Missing, None, NaN
    <3> QED
      BY <1>4, <1>5, <3>1, <3>2, <3>4
  <2>6. CASE w \notin Missing
    <3>1. v = Clip(Number(w), c)
      BY <1>7, <2>1, <2>3, <2>6 DEF Enforced, w
    <3>2. w \in Int
      <4>1. CASE name \in ModeledNames
        <5>1. w \in Decoded(col) /\ Known(col.cells) \subseteq Int
          BY <1>4, <1>5, <1>6, <2>2, <4>1
        <5>2. Decoded(col) \subseteq Known(col.cells) \cup {0, 3} \cup Missing
          BY DEF Decoded, Missing
        <5> QED
          BY <2>6, <5>1, <5>2
      <4>2. CASE name \notin ModeledNames
        <5>1. f.type \in {"integer", "float"}
          BY <1>7 DEF Bounded
        <5>2. FallbackCells(f) = c.min..c.max
          BY <1>7, <2>3, <5>1, SMT DEF FallbackCells
        <5> QED
          BY <1>6, <2>2, <2>4, <4>2, <5>1, <5>2 DEF Modeled, Numbers
      <4> QED
        BY <4>1, <4>2
    <3> QED
      <4>1. Clip(Number(w), c) \in c.min..c.max
        BY <1>7, <2>4, <3>2, ClipsIntoBounds
      <4> QED
        BY <3>1, <4>1
  <2> QED
    BY <2>5, <2>6
<1>8. OneOf(f) => ~Bounded(f) /\ f.type = "categorical" /\ "choices" \in DOMAIN c /\ c = f.constraints
  BY DEF OneOf, Bounded, c, f
<1>9. ASSUME OneOf(f)
      PROVE  cells \subseteq c.choices \cup {MostFrequent(c)}
  BY <1>1, <1>8, <1>9 DEF Enforced
<1>10. ASSUME f.type \notin Modeled, sampled, p.type \notin Modeled
       PROVE  cells \cap Range(col.cells) = {}
  <2>1. ~Bounded(f) /\ ~OneOf(f)
    BY <1>10 DEF Bounded, OneOf, Modeled
  <2>2. FieldCells(name) = {Fake}
    BY <1>5, <1>6, <1>10
  <2>3. cells \subseteq {Fake}
    BY <1>1, <1>2, <2>1, <2>2 DEF Enforced
  <2>4. Fake \notin Held
    BY DEF Fake, Held, Numbers, Texts, Bools, Moments, Missing, None, NaN
  <2> QED
    BY <1>4, <1>10, <2>3, <2>4
<1>11. ASSUME OneOf(f), sampled, Known(col.cells) \cap Bools # {}
       PROVE  Cardinality(cells) = 1
  <2>1. p.type = "categorical"
    <3>1. "choices" \in DOMAIN Constraints(p) => p.type = "categorical"
      BY <1>3, <1>11, ProposedConstraints
    <3> QED
      BY <1>3, <1>8, <1>11, <3>1
  <2>2. Known(col.cells) \subseteq Bools /\ col.dtype \notin {"int", "float"}
    <3>1. Known(col.cells) \subseteq Bools
      BY <1>3, <1>11 DEF SampleColumn
    <3>2. \A x \in Bools : x \notin Numbers
      BY DEF Bools, Numbers
    <3> QED
      BY <1>3, <1>11, <3>1, <3>2 DEF SampleColumn
  <2>3. FieldCells(name) \subseteq Bools \cup Missing
    BY <1>5, <1>6, <1>11, <2>1, <2>2 DEF Decoded, Modeled
  <2>4. c.choices \cap (Bools \cup Missing) = {}
    BY <1>3, <1>8, <1>11 DEF Sound
  <2>5. \A r \in 1..NRows : Enforced(raw[r], f) = MostFrequent(c)
    BY <1>2, <1>8, <1>11, <2>3, <2>4 DEF Enforced
  <2>6. 1 \in 1..NRows
    BY RowsAssumption
  <2>7. cells = {MostFrequent(c)}
    BY <1>1, <2>5, <2>6
  <2> QED
    BY <2>7, FS_Singleton
<1> QED
  BY <1>7, <1>9, <1>10, <1>11 DEF f, c, cells, sampled, col, p

-----------------------------------------------------------------------------
(* Perturbation.                                                           *)

LEMMA PicksAre ==
    ASSUME NEW options, NEW f \in Picks(options)
    PROVE  /\ DOMAIN f = DOMAIN options /\ f = [x \in DOMAIN options |-> f[x]]
           /\ \A x \in DOMAIN options : f[x] \in options[x]
  BY DEF Picks

LEMMA Lengths ==
    ASSUME NEW n \in Nat, NEW f, f = [r \in 1..n |-> f[r]]
    PROVE  f \in Seq(Range(f)) /\ Len(f) = n
<1>1. DOMAIN f = 1..n
  OBVIOUS
<1>2. f \in [1..n -> Range(f)]
  BY <1>1 DEF Range
<1>3. f \in Seq(Range(f))
  BY <1>2
<1> QED
  BY <1>1, <1>3

LEMMA HasCells ==
    ASSUME NEW col, col = [type |-> col.type, cells |-> col.cells]
    PROVE  "cells" \in DOMAIN col
<1> DEFINE a == col.type  b == col.cells
<1>1. col = [type |-> a, cells |-> b]
  OBVIOUS
<1> HIDE DEF a, b
<1> QED
  BY <1>1

\* All columns of a table have a cell in every row.
LEMMA Rectangle ==
    ASSUME NEW T, IsTable(T)
    PROVE  /\ Rows(T) \in Nat
           /\ \A name \in DOMAIN T :
                /\ Len(T[name].cells) = Rows(T) /\ DOMAIN T[name].cells = 1..Rows(T)
                /\ T[name].cells = [r \in 1..Rows(T) |-> T[name].cells[r]]
                /\ T[name] = [type |-> T[name].type, cells |-> T[name].cells]
<1>1. /\ \A name \in DOMAIN T :
           /\ T[name] = [type |-> T[name].type, cells |-> T[name].cells]
           /\ T[name].cells \in Seq(Range(T[name].cells))
      /\ \A name, other \in DOMAIN T : Len(T[name].cells) = Len(T[other].cells)
  BY DEF IsTable
<1>2. CASE DOMAIN T = {}
  BY <1>2 DEF Rows
<1>3. CASE DOMAIN T # {}
  <2>1. PICK some \in DOMAIN T : T[some] = CHOOSE col \in Range(T) : TRUE
    <3>1. (CHOOSE col \in Range(T) : TRUE) \in Range(T)
      BY <1>3 DEF Range
    <3> QED
      BY <3>1 DEF Range
  <2>2. Rows(T) = Len(T[some].cells)
    BY <1>3, <2>1 DEF Rows
  <2>3. ASSUME NEW name \in DOMAIN T
        PROVE  /\ Len(T[name].cells) = Rows(T) /\ DOMAIN T[name].cells = 1..Rows(T) /\ Rows(T) \in Nat
               /\ T[name].cells = [r \in 1..Rows(T) |-> T[name].cells[r]]
    <3> DEFINE s == T[name].cells
    <3>1. s \in Seq(Range(s)) /\ Len(s) = Rows(T)
      BY <1>1, <2>2
    <3> HIDE DEF s
    <3>2. DOMAIN s = 1..Len(s) /\ Len(s) \in Nat /\ s = [r \in 1..Len(s) |-> s[r]]
      BY <3>1
    <3> QED
      BY <3>1, <3>2 DEF s
  <2> QED
    BY <1>1, <1>3, <2>3
<1> QED
  BY <1>2, <1>3

\* A cell of a table whose rewriting keeps it, or keeps a null.
LEMMA CellKept ==
    ASSUME NEW col, NEW s, NEW r, NEW modality, modality = "tabular",
           s.family \in {"noise", "drift", "outliers", "edge_case"}, s.kind # "concept",
           s.family = "noise" => col.type \in {"number", "string"},
           s.family = "drift" => col.type = "number",
           NEW w \in NewCell(modality, col, s, r)
    PROVE  /\ s.intensity = "zero" => w = col.cells[r]
           /\ s.family # "edge_case" /\ col.cells[r] = None => w = None
<1> USE DEF Hit, Moved
<1> DEFINE v == col.cells[r]
<1>1. CASE s.family = "noise"
  <2>1. w \in NoiseCell(col, s, r)
    BY <1>1, SMT DEF NewCell
  <2>2. CASE col.type = "number"
    <3>1. NoiseCell(col, s, r) = IF v \in Missing THEN {v} ELSE Moved(s, v)
      BY <2>2, SMT DEF NoiseCell
    <3> QED
      BY <1>1, <2>1, <3>1 DEF Missing
  <2>3. CASE col.type = "string"
    <3>1. NoiseCell(col, s, r) = IF v = None THEN {v} ELSE Hit(s.intensity, v, Known(col.cells) \ {v})
      BY <2>3, SMT DEF NoiseCell
    <3> QED
      BY <1>1, <2>1, <3>1
  <2> QED
    BY <1>1, <2>2, <2>3
<1>2. CASE s.family = "drift"
  <2>1. w \in DriftCell(col, s, r)
    BY <1>2, SMT DEF NewCell
  <2>2. DriftCell(col, s, r) = IF v \in Missing \/ (s.kind = "temporal" /\ r = 1) THEN {v} ELSE Moved(s, v)
    BY <1>2, SMT DEF DriftCell
  <2> QED
    BY <1>2, <2>1, <2>2 DEF Missing
<1>3. CASE s.family = "outliers"
  <2>1. w \in OutlierCell(col, s, r)
    BY <1>3, SMT DEF NewCell
  <2> QED
    BY <1>3, <2>1 DEF OutlierCell
<1>4. CASE s.family = "edge_case"
  <2>1. w \in EdgeCell(col, s, r)
    BY <1>4, SMT DEF NewCell
  <2>2. s.intensity = "zero" => EdgeCell(col, s, r) = {v}
    BY SMT DEF EdgeCell
  <2> QED
    BY <1>4, <2>1, <2>2
<1> QED
  BY <1>1, <1>2, <1>3, <1>4

\* What PerturbationKeepsRows says of a version, a spec and the perturbed table.
KeepsRows(v, s, c) ==
  LET old == v.table IN
  /\ DOMAIN c = DOMAIN old
  /\ \A name \in DOMAIN old : Len(c[name].cells) = Len(old[name].cells)
  /\ s.family = "bias" =>
       \A r \in 1..Rows(old) : \E q \in 1..Rows(old) :
         \A name \in DOMAIN old : c[name].cells[r] = old[name].cells[q]
  /\ s.family # "bias" =>
       \A name \in DOMAIN old :
         /\ s.targets # <<>> /\ name \notin Range(s.targets) => c[name] = old[name]
         /\ s.intensity = "zero" /\ s.kind # "concept" /\ v.modality = "tabular" =>
              c[name] = old[name]
         /\ v.modality = "tabular" /\ s.family # "edge_case" /\ s.kind # "concept" =>
              \A r \in 1..Rows(old) : old[name].cells[r] = None => c[name].cells[r] = None

LEMMA CellsKeep ==
    ASSUME NEW v, IsTable(v.table), NEW s, s.family \in {"noise", "drift", "outliers", "edge_case"},
           NEW cells \in Picks([name \in Rewritten(v, s) |-> NewCells(v, s, name)])
    PROVE  KeepsRows(v, s, Rebuild(v, cells))
<1> DEFINE old == v.table
           c == Rebuild(v, cells)
           n == Rows(old)
<1>1. DOMAIN cells = Rewritten(v, s) /\ \A name \in Rewritten(v, s) : cells[name] \in NewCells(v, s, name)
  BY PicksAre
<1>2. /\ n \in Nat
      /\ \A name \in DOMAIN old :
           /\ Len(old[name].cells) = n /\ DOMAIN old[name].cells = 1..n
           /\ old[name].cells = [r \in 1..n |-> old[name].cells[r]]
           /\ old[name] = [type |-> old[name].type, cells |-> old[name].cells]
  BY Rectangle
<1>3. DOMAIN c = DOMAIN old
  BY DEF Rebuild
<1>4. ASSUME NEW name \in DOMAIN old
      PROVE  /\ Len(c[name].cells) = Len(old[name].cells)
             /\ s.targets # <<>> /\ name \notin Range(s.targets) => c[name] = old[name]
             /\ s.intensity = "zero" /\ s.kind # "concept" /\ v.modality = "tabular" => c[name] = old[name]
             /\ v.modality = "tabular" /\ s.family # "edge_case" /\ s.kind # "concept" =>
                  \A r \in 1..n : old[name].cells[r] = None => c[name].cells[r] = None
  <2>1. CASE name \notin Rewritten(v, s)
    <3>1. c[name] = old[name]
      BY <1>1, <2>1 DEF Rebuild
    <3> QED
      BY <3>1
  <2>2. CASE name \in Rewritten(v, s)
    <3> DEFINE col == old[name]
               new == cells[name]
    <3>1. ~(s.targets # <<>> /\ name \notin Range(s.targets))
      BY <2>2 DEF Rewritten, Selected
    <3>2. /\ DOMAIN new = 1..n /\ new = [r \in 1..n |-> new[r]]
          /\ \A r \in 1..n : new[r] \in NewCell(v.modality, col, s, r)
      <4>1. new \in Picks([r \in 1..n |-> NewCell(v.modality, col, s, r)])
        BY <1>1, <1>2, <2>2 DEF NewCells
      <4> HIDE DEF new, col, n
      <4> QED
        BY <4>1, PicksAre
    <3>3. c[name].cells = new /\ (v.modality # "text" => c[name] = [col EXCEPT !.cells = new])
      <4>1. c[name] = IF v.modality = "text" THEN Column(cells[name]) ELSE [old[name] EXCEPT !.cells = cells[name]]
        BY <1>1, <2>2 DEF Rebuild
      <4>2. "cells" \in DOMAIN old[name]
        BY <1>2, HasCells
      <4> HIDE DEF c, old
      <4> QED
        BY <4>1, <4>2 DEF Column
    <3>4. Len(new) = n
      <4> HIDE DEF new, n
      <4> QED
        BY <1>2, <3>2, Lengths
    <3>5. ASSUME v.modality = "tabular", s.kind # "concept", NEW r \in 1..n
          PROVE  /\ s.intensity = "zero" => new[r] = col.cells[r]
                 /\ s.family # "edge_case" /\ col.cells[r] = None => new[r] = None
      <4>1. /\ s.family = "noise" => col.type \in {"number", "string"}
            /\ s.family = "drift" => col.type = "number"
        <5> DEFINE types == CASE v.modality = "text" -> {"string"}
                              [] s.family = "drift" -> {IF s.kind = "concept" THEN "string" ELSE "number"}
                              [] s.family = "outliers" -> {IF s.kind = "contextual" THEN "string" ELSE "number"}
                              [] OTHER -> {"number", "string"}
        <5>1. col.type \in types
          BY <2>2, SMT DEF Rewritten, Selected
        <5>2. s.family = "noise" => types = {"number", "string"}
          BY <3>5, SMT
        <5>3. s.family = "drift" => types = {"number"}
          BY <3>5, SMT
        <5> HIDE DEF types, col
        <5> QED
          BY <5>1, <5>2, <5>3
      <4> HIDE DEF new, col, n
      <4> QED
        BY <3>2, <3>5, <4>1, CellKept
    <3>6. ASSUME s.intensity = "zero", s.kind # "concept", v.modality = "tabular"
          PROVE  c[name] = col
      <4>1. \A r \in 1..n : new[r] = col.cells[r]
        BY <3>5, <3>6
      <4>2. new = col.cells
        <5>1. col.cells = [r \in 1..n |-> col.cells[r]]
          BY <1>2, Zenon
        <5> HIDE DEF new, col, n
        <5> QED
          BY <3>2, <4>1, <5>1
      <4>3. c[name] = [col EXCEPT !.cells = new]
        BY <3>3, <3>6
      <4>4. col = [type |-> col.type, cells |-> col.cells]
        BY <1>2
      <4> HIDE DEF new, col, c
      <4> QED
        BY <4>2, <4>3, <4>4
    <3> QED
      BY <1>2, <3>1, <3>3, <3>4, <3>5, <3>6
  <2> QED
    BY <2>1, <2>2
<1> QED
  BY <1>3, <1>4 DEF KeepsRows

\* The field a bias spec names, or the table's first, is one of its columns.
LEMMA BiasFieldExists ==
    ASSUME NEW T, IsTable(T), Rows(T) > 0, NEW s
    PROVE  BiasField(T, s) \in DOMAIN T
<1> DEFINE At == {i \in DOMAIN ColumnOrder : ColumnOrder[i] \in DOMAIN T}
           R == OpToRel(<, Nat)
<1>1. PICK name \in DOMAIN T : TRUE
  BY DEF Rows
<1>2. PICK i \in DOMAIN ColumnOrder : ColumnOrder[i] = name
  BY <1>1 DEF IsTable, Range
<1>3. At \subseteq Nat /\ At # {} /\ DOMAIN ColumnOrder = 1..Len(ColumnOrder) /\ Len(ColumnOrder) \in Nat
  BY <1>1, <1>2, SamplesAssumption
<1>4. IsWellFoundedOn(R, Nat)
  BY NatLessThanWellFounded, Zenon
<1>5. \A x, y \in Nat : <<y, x>> \in R <=> y < x
  BY DEF OpToRel
<1> HIDE DEF R
<1>6. PICK first \in At : \A y \in At : ~(<<y, first>> \in R)
  BY <1>3, <1>4, WFMin
<1>7. \A j \in 1..(first - 1) : ColumnOrder[j] \notin DOMAIN T
  <2> SUFFICES ASSUME NEW j \in 1..(first - 1), ColumnOrder[j] \in DOMAIN T
               PROVE  FALSE
    OBVIOUS
  <2>1. j \in At /\ j < first /\ first \in Nat
    BY <1>3
  <2> QED
    BY <1>3, <1>5, <1>6, <2>1
<1> DEFINE chosen == CHOOSE k \in DOMAIN ColumnOrder :
                       ColumnOrder[k] \in DOMAIN T /\ \A j \in 1..(k - 1) : ColumnOrder[j] \notin DOMAIN T
<1>8. ColumnOrder[chosen] \in DOMAIN T
  BY <1>6, <1>7
<1> QED
  BY <1>8 DEF BiasField

LEMMA RowsKeep ==
    ASSUME NEW v, IsTable(v.table), Rows(v.table) > 0, NEW s, s.family = "bias",
           NEW order \in Orders(v.table, s)
    PROVE  KeepsRows(v, s, Reindex(v.table, s, order))
<1> DEFINE T == v.table
           c == Reindex(T, s, order)
           n == Rows(T)
<1>1. /\ n \in Nat
      /\ \A name \in DOMAIN T :
           /\ Len(T[name].cells) = n /\ DOMAIN T[name].cells = 1..n
           /\ T[name] = [type |-> T[name].type, cells |-> T[name].cells]
  BY Rectangle
<1>2. order \in [1..n -> 1..n]
  <2>1. DOMAIN T[BiasField(T, s)].cells = 1..n
    BY <1>1, BiasFieldExists
  <2> HIDE DEF n
  <2> QED
    BY <2>1 DEF Orders
<1>3. DOMAIN c = DOMAIN T
  BY DEF Reindex
<1>4. ASSUME NEW name \in DOMAIN T
      PROVE  c[name].cells = [r \in 1..n |-> T[name].cells[order[r]]]
  <2>1. "cells" \in DOMAIN T[name]
    BY <1>1, HasCells
  <2>2. c[name] = [T[name] EXCEPT !.cells = [r \in DOMAIN order |-> T[name].cells[order[r]]]]
    BY DEF Reindex
  <2> HIDE DEF c, T, n
  <2> QED
    BY <1>2, <2>1, <2>2
<1> HIDE DEF c, n
<1>5. \A name \in DOMAIN T : Len(c[name].cells) = Len(T[name].cells)
  <2> SUFFICES ASSUME NEW name \in DOMAIN T
               PROVE  Len(c[name].cells) = n
    BY <1>1, Zenon
  <2>1. c[name].cells = [r \in 1..n |-> c[name].cells[r]]
    BY <1>4
  <2> QED
    BY <1>1, <2>1, Lengths
<1>6. ASSUME NEW r \in 1..n
      PROVE  \E q \in 1..n : \A name \in DOMAIN T : c[name].cells[r] = T[name].cells[q]
  <2>1. order[r] \in 1..n /\ \A name \in DOMAIN T : c[name].cells[r] = T[name].cells[order[r]]
    BY <1>2, <1>4
  <2> QED
    BY <2>1
<1> QED
  BY <1>3, <1>5, <1>6 DEF KeepsRows, c, n

-----------------------------------------------------------------------------
(* The dataset.                                                            *)

\* The sample is one a user may upload, and the profile is the sample's.
SampleKept ==
  stage \in {"profiled", "edited", "generated"} =>
    /\ DOMAIN sample = DOMAIN SampleColumns /\ \A name \in DOMAIN sample : SampleColumn(sample[name])
    /\ profile = [name \in DOMAIN sample |-> ColumnProfile(sample[name])]

\* One edit leaves a sampled field its type or its constraints.
FieldsKept ==
  /\ stage = "profiled" => fields = FieldsFromProfile(profile)
  /\ stage \in {"edited", "generated"} =>
       /\ DOMAIN fields \subseteq Range(ColumnOrder)
       /\ \A name \in DOMAIN fields :
            /\ Sound(fields[name].constraints)
            /\ name \in DOMAIN sample => \/ fields[name].type = profile[name].type
                                         \/ fields[name].constraints = Constraints(profile[name])

ParentKept == stage \in {"generated", "version", "perturbed"} => IsTable(parent.table)

TableInv == SampleKept /\ FieldsKept /\ ParentKept /\ SyntheticConforms /\ PerturbationKeepsRows

\* A proposed field is sound.
LEMMA Proposed ==
    ASSUME SampleKept, FieldsKept, stage = "profiled", NEW name \in DOMAIN fields
    PROVE  /\ name \in DOMAIN sample /\ name \in Range(ColumnOrder) \ {Last(ColumnOrder)}
           /\ fields[name] = [type |-> profile[name].type, constraints |-> Constraints(profile[name])]
           /\ Sound(Constraints(profile[name]))
<1>1. /\ DOMAIN sample = DOMAIN SampleColumns /\ \A n \in DOMAIN sample : SampleColumn(sample[n])
      /\ profile = [n \in DOMAIN sample |-> ColumnProfile(sample[n])]
      /\ fields = FieldsFromProfile(profile)
  BY DEF SampleKept, FieldsKept
<1>2. /\ name \in DOMAIN profile
      /\ fields[name] = [type |-> profile[name].type, constraints |-> Constraints(profile[name])]
  BY <1>1 DEF FieldsFromProfile
<1>3. name \in DOMAIN sample /\ profile[name] = ColumnProfile(sample[name])
  BY <1>1, <1>2
<1>4. Sound(Constraints(profile[name]))
  BY <1>1, <1>3, ProposedConstraints
<1> QED
  BY <1>1, <1>2, <1>3, <1>4, SamplesAssumption

\* What is left to show of an edit.
LEMMA EditKeeps ==
    ASSUME TableInv, NEW f, Edited(f), DOMAIN f \subseteq Range(ColumnOrder),
           \A name \in DOMAIN f :
             /\ Sound(f[name].constraints)
             /\ name \in DOMAIN sample => \/ f[name].type = profile[name].type
                                          \/ f[name].constraints = Constraints(profile[name])
    PROVE  TableInv'
<1>1. stage = "profiled" /\ stage' = "edited" /\ fields' = f /\ UNCHANGED <<sample, profile>>
  BY DEF Edited
<1>2. SampleKept'
  BY <1>1 DEF TableInv, SampleKept
<1>3. FieldsKept'
  BY <1>1 DEF FieldsKept
<1> QED
  BY <1>1, <1>2, <1>3 DEF TableInv, ParentKept, SyntheticConforms, PerturbationKeepsRows

LEMMA EditsKeep ==
    ASSUME TableInv, KeepFields \/ RetypeField \/ BoundField \/ AddField \/ DropField
    PROVE  TableInv'
<1>1. stage = "profiled"
  BY DEF KeepFields, RetypeField, BoundField, AddField, DropField, Edited
<1>2. \A name \in DOMAIN fields :
        /\ name \in DOMAIN sample /\ name \in Range(ColumnOrder) \ {Last(ColumnOrder)}
        /\ fields[name] = [type |-> profile[name].type, constraints |-> Constraints(profile[name])]
        /\ Sound(Constraints(profile[name]))
  BY <1>1, Proposed DEF TableInv
<1>3. \A name \in DOMAIN fields :
        /\ fields[name].type = profile[name].type /\ fields[name].constraints = Constraints(profile[name])
        /\ Sound(fields[name].constraints) /\ name \in Range(ColumnOrder)
  BY <1>2
<1>4. \A c \in EditBounds : Sound(c)
  <2>1. Strings \cap (Bools \cup Missing) = {}
    BY DEF Strings, Bools, Missing, Texts, BoolTexts, Fake, Letter, Typo, Rare, EmptyText, Blank, None, NaN
  <2> QED
    BY <2>1, EditsAssumption DEF Sound
<1>5. CASE KeepFields
  BY <1>3, <1>5, EditKeeps DEF KeepFields
<1>6. CASE RetypeField
  <2>1. PICK name \in DOMAIN fields, type \in EditTypes : Edited([fields EXCEPT ![name].type = type])
    BY <1>6 DEF RetypeField
  <2> DEFINE f == [fields EXCEPT ![name].type = type]
  <2>2. DOMAIN f = DOMAIN fields /\ \A n \in DOMAIN f : f[n].constraints = fields[n].constraints
    BY <1>2
  <2> HIDE DEF f
  <2>3. Edited(f)
    BY <2>1 DEF f
  <2> QED
    BY <1>3, <2>2, <2>3, EditKeeps
<1>7. CASE BoundField
  <2>1. PICK name \in DOMAIN fields, c \in EditBounds : Edited([fields EXCEPT ![name].constraints = c])
    BY <1>7 DEF BoundField
  <2> DEFINE f == [fields EXCEPT ![name].constraints = c]
  <2>2. /\ DOMAIN f = DOMAIN fields
        /\ \A n \in DOMAIN f : f[n].type = fields[n].type /\ (f[n].constraints = fields[n].constraints \/ f[n].constraints = c)
    BY <1>2
  <2> HIDE DEF f
  <2>3. Edited(f)
    BY <2>1 DEF f
  <2> QED
    BY <1>3, <1>4, <2>2, <2>3, EditKeeps
<1>8. CASE AddField
  <2>1. PICK type \in EditTypes, c \in EditBounds :
          Edited(Updated(fields, [name \in {Last(ColumnOrder)} |-> [type |-> type, constraints |-> c]]))
    BY <1>8 DEF AddField
  <2> DEFINE last == Last(ColumnOrder)
             f == Updated(fields, [name \in {last} |-> [type |-> type, constraints |-> c]])
  <2>2. last \in Range(ColumnOrder)
    BY SamplesAssumption DEF Range, Last
  <2>3. last \notin DOMAIN sample
    BY <1>1, SamplesAssumption DEF TableInv, SampleKept
  <2>4. /\ DOMAIN f = DOMAIN fields \cup {last} /\ f[last].constraints = c
        /\ \A n \in DOMAIN f \ {last} : n \in DOMAIN fields /\ f[n] = fields[n]
    BY DEF Updated
  <2>5. Edited(f)
    BY <2>1
  <2> HIDE DEF f, last
  <2> QED
    BY <1>3, <1>4, <2>2, <2>3, <2>4, <2>5, EditKeeps
<1>9. CASE DropField
  <2>1. PICK name \in DOMAIN fields : Edited(Restrict(fields, DOMAIN fields \ {name}))
    BY <1>9 DEF DropField
  <2> DEFINE f == Restrict(fields, DOMAIN fields \ {name})
  <2>2. DOMAIN f \subseteq DOMAIN fields /\ \A n \in DOMAIN f : f[n] = fields[n]
    BY DEF Restrict
  <2> HIDE DEF f
  <2>3. Edited(f)
    BY <2>1 DEF f
  <2> QED
    BY <1>3, <2>2, <2>3, EditKeeps
<1> QED
  BY <1>5, <1>6, <1>7, <1>8, <1>9

LEMMA GenerateKeeps ==
    ASSUME TableInv, Generate
    PROVE  TableInv'
<1>1. stage = "edited" /\ stage' = "generated" /\ UNCHANGED <<sample, profile, fields>>
  BY DEF Generate
<1>2. /\ \A name \in DOMAIN sample : SampleColumn(sample[name]) /\ profile[name] = ColumnProfile(sample[name])
      /\ DOMAIN fields \subseteq Range(ColumnOrder)
      /\ \A name \in DOMAIN fields :
           /\ Sound(fields[name].constraints)
           /\ name \in DOMAIN sample => \/ fields[name].type = profile[name].type
                                        \/ fields[name].constraints = Constraints(profile[name])
  BY <1>1 DEF TableInv, SampleKept, FieldsKept
<1>3. PICK raw \in Picks([name \in DOMAIN fields |-> Raw(name)]) :
        parent' = [modality |-> "tabular",
                   table |-> [name \in DOMAIN fields |-> Column(EnforceColumn(raw[name], fields[name]))]]
  BY DEF Generate
<1> DEFINE T == parent'.table
<1>4. T = [name \in DOMAIN fields |-> Column(EnforceColumn(raw[name], fields[name]))]
  BY <1>3
<1>5. \A name \in DOMAIN fields : raw[name] \in [1..NRows -> FieldCells(name)]
  <2>1. \A name \in DOMAIN fields : raw[name] \in Raw(name)
    BY PicksAre
  <2> QED
    BY <2>1 DEF Raw
<1>6. ASSUME NEW name \in DOMAIN fields
      PROVE  /\ T[name].cells = EnforceColumn(raw[name], fields[name])
             /\ T[name] = [type |-> T[name].type, cells |-> T[name].cells]
             /\ T[name].cells \in Seq(Range(T[name].cells)) /\ Len(T[name].cells) = NRows
  <2> DEFINE e == EnforceColumn(raw[name], fields[name])
  <2>1. T[name] = Column(e)
    BY <1>4
  <2>2. e = [r \in 1..NRows |-> e[r]]
    BY <1>5 DEF EnforceColumn
  <2> HIDE DEF T, e
  <2>3. e \in Seq(Range(e)) /\ Len(e) = NRows
    BY <2>2, RowsAssumption, Lengths
  <2>4. T[name].cells = e /\ T[name] = [type |-> T[name].type, cells |-> T[name].cells]
    BY <2>1 DEF Column
  <2> QED
    BY <2>3, <2>4 DEF e
<1>7. DOMAIN T = DOMAIN fields
  BY <1>4
<1> HIDE DEF T
<1>8. IsTable(T)
  BY <1>2, <1>6, <1>7 DEF IsTable
<1>9. SyntheticConforms'
  <2>1. ASSUME NEW name \in DOMAIN fields
        PROVE  LET f == fields[name]  c == f.constraints  cells == Range(T[name].cells)
                   sampled == name \in DOMAIN sample
               IN /\ Bounded(f) /\ {"min", "max"} \subseteq DOMAIN c /\ c.min <= c.max =>
                       \A v \in cells \ Missing :
                         \/ v \in c.min..c.max
                         \/ v = Wrapped /\ f.type = "integer" /\ sampled /\ profile[name].nullable
                  /\ OneOf(f) => cells \subseteq c.choices \cup {MostFrequent(c)}
                  /\ f.type \notin Modeled /\ sampled /\ profile[name].type \notin Modeled =>
                       cells \cap Range(sample[name].cells) = {}
                  /\ OneOf(f) /\ sampled /\ Known(sample[name].cells) \cap Bools # {} =>
                       Cardinality(cells) = 1
    <3>1. raw[name] \in [1..NRows -> FieldCells(name)] /\ T[name].cells = EnforceColumn(raw[name], fields[name])
      BY <1>5, <1>6
    <3>2. /\ Sound(fields[name].constraints)
          /\ name \in DOMAIN sample =>
               /\ SampleColumn(sample[name])
               /\ profile[name] = ColumnProfile(sample[name])
               /\ \/ fields[name].type = profile[name].type
                  \/ fields[name].constraints = Constraints(profile[name])
      BY <1>2
    <3> QED
      BY <3>1, <3>2, FieldConforms
  <2> QED
    BY <1>1, <1>7, <2>1 DEF SyntheticConforms, T
<1>10. SampleKept' /\ FieldsKept'
  BY <1>1 DEF TableInv, SampleKept, FieldsKept
<1>11. ParentKept'
  BY <1>8 DEF ParentKept, T
<1> QED
  BY <1>1, <1>9, <1>10, <1>11 DEF TableInv, PerturbationKeepsRows

LEMMA PerturbKeeps ==
    ASSUME TableInv, PerturbNothing \/ PerturbCells \/ PerturbRows
    PROVE  TableInv'
<1>1. stage = "version" /\ stage' = "perturbed" /\ UNCHANGED <<sample, profile, fields, parent>>
  BY DEF PerturbNothing, PerturbCells, PerturbRows, Perturbed
<1>2. IsTable(parent.table)
  BY <1>1 DEF TableInv, ParentKept
<1>3. KeepsRows(parent, spec', child')
  <2>1. CASE PerturbNothing
    <3>1. Rows(parent.table) = 0 /\ child' = parent.table
      BY <2>1 DEF PerturbNothing, Perturbed
    <3> QED
      BY <3>1 DEF KeepsRows
  <2>2. CASE PerturbCells
    <3>1. PICK s \in Specs :
            /\ s.family # "bias" /\ spec' = s
            /\ \E cells \in Picks([name \in Rewritten(parent, s) |-> NewCells(parent, s, name)]) :
                 Perturbed(Rebuild(parent, cells))
      BY <2>2 DEF PerturbCells
    <3>2. PICK cells \in Picks([name \in Rewritten(parent, s) |-> NewCells(parent, s, name)]) :
            child' = Rebuild(parent, cells)
      BY <3>1 DEF Perturbed
    <3>3. s.family \in {"noise", "drift", "outliers", "edge_case"}
      BY <3>1, SpecsAssumption
    <3>4. KeepsRows(parent, s, Rebuild(parent, cells))
      BY <1>2, <3>3, CellsKeep
    <3> QED
      BY <3>1, <3>2, <3>4
  <2>3. CASE PerturbRows
    <3>1. PICK s \in Specs :
            /\ s.family = "bias" /\ spec' = s
            /\ \E order \in Orders(parent.table, s) : Perturbed(Reindex(parent.table, s, order))
      BY <2>3 DEF PerturbRows
    <3>2. PICK order \in Orders(parent.table, s) : child' = Reindex(parent.table, s, order)
      BY <3>1 DEF Perturbed
    <3>3. Rows(parent.table) > 0
      BY <2>3 DEF PerturbRows
    <3>4. KeepsRows(parent, s, Reindex(parent.table, s, order))
      BY <1>2, <3>1, <3>3, RowsKeep
    <3> QED
      BY <3>1, <3>2, <3>4
  <2> QED
    BY <2>1, <2>2, <2>3
<1>4. PerturbationKeepsRows'
  BY <1>1, <1>3 DEF PerturbationKeepsRows, KeepsRows
<1>5. SampleKept' /\ FieldsKept' /\ ParentKept' /\ SyntheticConforms'
  BY <1>1, <1>2 DEF SampleKept, FieldsKept, ParentKept, SyntheticConforms
<1> QED
  BY <1>4, <1>5 DEF TableInv

\* From the upload of a sample to the perturbed version, the profile is the
\* sample's, an edit leaves a field half as proposed, versions are rectangular,
\* and a version keeps what its fields and its spec promise.
THEOREM DatasetHolds == Spec => []TableInv
<1>1. TablesInit => TableInv
  BY DEF TablesInit, TableInv, SampleKept, FieldsKept, ParentKept, SyntheticConforms, PerturbationKeepsRows
<1>2. TableInv /\ [Next]_vars => TableInv'
  <2> SUFFICES ASSUME TableInv, [Next]_vars
               PROVE  TableInv'
    OBVIOUS
  <2>1. CASE UploadSample
    <3>1. PICK s \in Picks(SampleColumns) :
            /\ sample' = s
            /\ profile' = [name \in DOMAIN s |-> ColumnProfile(s[name])]
            /\ fields' = FieldsFromProfile(profile')
      BY <2>1 DEF UploadSample
    <3>2. stage' = "profiled"
      BY <2>1 DEF UploadSample
    <3>3. DOMAIN s = DOMAIN SampleColumns /\ \A name \in DOMAIN s : SampleColumn(s[name])
      BY PicksAre, SamplesAssumption
    <3>4. SampleKept'
      BY <3>1, <3>2, <3>3 DEF SampleKept
    <3>5. FieldsKept'
      BY <3>1, <3>2 DEF FieldsKept
    <3> QED
      BY <3>2, <3>4, <3>5 DEF TableInv, ParentKept, SyntheticConforms, PerturbationKeepsRows
  <2>2. CASE KeepFields \/ RetypeField \/ BoundField \/ AddField \/ DropField
    BY <2>2, EditsKeep
  <2>3. CASE Generate
    BY <2>3, GenerateKeeps
  <2>4. CASE Publish
    <3>1. stage = "generated" /\ stage' = "version" /\ UNCHANGED parent
      BY <2>4 DEF Publish
    <3> QED
      BY <3>1 DEF TableInv, SampleKept, FieldsKept, ParentKept, SyntheticConforms, PerturbationKeepsRows
  <2>5. CASE OtherVersion
    <3>1. stage' = "version" /\ parent' \in OtherVersions
      BY <2>5 DEF OtherVersion
    <3> QED
      BY <3>1, VersionsAssumption
      DEF TableInv, SampleKept, FieldsKept, ParentKept, SyntheticConforms, PerturbationKeepsRows
  <2>6. CASE PerturbNothing \/ PerturbCells \/ PerturbRows
    BY <2>6, PerturbKeeps
  <2>7. CASE stage' \in {"failed", "evaluating"}
    BY <2>7 DEF TableInv, SampleKept, FieldsKept, ParentKept, SyntheticConforms, PerturbationKeepsRows
  <2>8. CASE UNCHANGED tableVars
    <3>1. UNCHANGED <<stage, sample, profile, fields, parent, spec, child>>
      BY <2>8 DEF tableVars
    <3>2. SampleKept' /\ FieldsKept' /\ ParentKept'
      BY <3>1 DEF TableInv, SampleKept, FieldsKept, ParentKept
    <3>3. SyntheticConforms'
      BY <3>1 DEF TableInv, SyntheticConforms
    <3>4. PerturbationKeepsRows'
      BY <3>1 DEF TableInv, PerturbationKeepsRows
    <3> QED
      BY <3>2, <3>3, <3>4 DEF TableInv
  <2>9. GenerateRaises \/ PerturbRaises \/ Evaluate \/ EvaluateOther => stage' \in {"failed", "evaluating"}
    BY DEF GenerateRaises, PerturbRaises, Evaluate, EvaluateOther
  <2>10. Finished \/ UNCHANGED vars => UNCHANGED tableVars
    BY DEF Finished, vars
  <2> QED
    BY <2>1, <2>2, <2>3, <2>4, <2>5, <2>6, <2>7, <2>8, <2>9, <2>10 DEF Next
<1> QED
  BY <1>1, <1>2, PTL DEF Spec

\* A generated version keeps what its fields promise, for every sample a file
\* can hold, every edit of a field and every draw of the fitted model, except
\* the INT64_MIN of an integer column whose sample had nulls; nothing is said
\* of the privacy of a column that was profiled as modelled and then retyped.
THEOREM SyntheticVersionConforms == Spec => []SyntheticConforms
<1>1. TableInv => SyntheticConforms
  BY DEF TableInv
<1> QED
  BY <1>1, DatasetHolds, PTL

\* A perturbed version is its parent with what the spec names changed, for every
\* table, spec and draw.
THEOREM PerturbedVersionKeepsRows == Spec => []PerturbationKeepsRows
<1>1. TableInv => PerturbationKeepsRows
  BY DEF TableInv
<1> QED
  BY <1>1, DatasetHolds, PTL

=============================================================================
