------------------------------ MODULE Mixture -------------------------------
(***************************************************************************)
(* The mixture of experts of one evaluation: detect_task resolves the task *)
(* class, judges_for_modality picks the judges, the runner takes them in   *)
(* turn and drops those that do not apply, TaskMetricsJudge dispatches to  *)
(* the metric provider of the task, and WeightedAggregator.aggregate forms *)
(* the weighted mean.                                                      *)
(*                                                                         *)
(* A dataset is what the judges' conditions can tell apart: its columns,   *)
(* which of them are numeric, which hold a value, and counts.  Weights are *)
(* in hundredths; a score of 1.0 is Unit, which the rubric's fifths and    *)
(* the means of up to five metrics divide.                                 *)
(***************************************************************************)
EXTENDS Integers, Sequences, SequencesExt, FiniteSetsExt

CONSTANTS Contexts,  \* evaluation contexts of datasets made elsewhere
          Values,    \* what a statistical judge or metric may return
          Ratings,   \* integers the model may answer in a rubric
          Overrides  \* EvaluationConfig.weights of a run

Unit == 300

\* TaskType
Tasks == {"text_classification", "qa", "summarization", "chat", "tabular_classification",
          "regression", "image_classification", "image_generation", "audio_classification",
          "speech_synthesis", "text_to_video", "graph_qa", "generic"}

ASSUME ContextsAssumption == \A c \in Contexts : c.task \in Tasks \cup {"auto"}
ASSUME ValuesAssumption == Values \subseteq 0..Unit
ASSUME RatingsAssumption == Ratings \subseteq Int
ASSUME OverridesAssumption == \A o \in Overrides : \A d \in DOMAIN o : o[d] \in Int

VARIABLES phase,     \* "idle", "judging", "failed" or "done"
          ctx,       \* EvaluationContext
          overrides,
          todo, scores,
          asked,     \* history: the task judge called the model
          wild,      \* history: a rating outside 1..5 was taken
          total, overall

evalVars == <<phase, ctx, overrides, todo, scores, asked, wild, total, overall>>

---------------------------------------------------------------------------
(* Weights and judges.                                                     *)

\* {**f, **g}
Updated(f, g) == [x \in DOMAIN f \cup DOMAIN g |-> IF x \in DOMAIN g THEN g[x] ELSE f[x]]

TabularWeights ==
  [fidelity |-> 22, privacy |-> 17, utility |-> 17, diversity |-> 12,
   qualitative |-> 8, bias |-> 9, task_quality |-> 15]
GraphWeights ==
  [graph_structure |-> 22, graph_ontology |-> 18, graph_privacy |-> 13,
   graph_connectivity |-> 13, graph_utility |-> 13, graph_semantic |-> 8,
   task_quality |-> 13]
MediaWeights == [task_quality |-> 70, qualitative |-> 30]

\* {**TABULAR_WEIGHTS, **GRAPH_WEIGHTS, **MEDIA_WEIGHTS}: the last one wins.
DefaultWeights == Updated(Updated(TabularWeights, GraphWeights), MediaWeights)

Media == {"image", "audio", "video"}

\* judges_for_modality: the judges in order, the last two need a model.
Judges(modality, llm) ==
  LET statistical ==
        CASE modality = "graph" -> <<"graph_structure", "graph_ontology", "graph_connectivity",
                                     "graph_utility", "graph_privacy">>
          [] modality \in Media -> <<>>
          [] OTHER -> <<"fidelity", "diversity", "privacy", "utility", "bias">>
      semantic == IF modality = "graph" THEN "graph_semantic" ELSE "qualitative"
  IN IF llm THEN statistical \o <<semantic, "task_quality">> ELSE statistical

---------------------------------------------------------------------------
(* What a judge does with a context: "skip" raises JudgeNotApplicable,     *)
(* "raise" anything else, "score" returns a statistic clamped to 0..1,     *)
(* "ask" needs the model's ratings.                                        *)

FidelityJudge(c) ==
  LET ref == c.reference IN
  CASE ~ref.given -> "skip"
    [] ref.given /\ (c.numeric \cap c.filled \cap ref.filled) \ ref.numeric # {} -> "raise"
    [] OTHER -> "score"

DiversityJudge(c) == IF c.rows > 0 THEN "score" ELSE "skip"

PrivacyJudge(c) ==
  IF c.reference.given /\ c.columns \cap c.reference.columns # {} /\ c.rows > 0 THEN "score" ELSE "skip"

\* A regressor cannot be trained on labels.
UtilityJudge(c) ==
  LET ref == c.reference
      applies == /\ ref.given
                 /\ c.target \in c.columns \cap ref.columns
                 /\ (c.numeric \cap ref.columns) \ {c.target} # {}
                 /\ c.complete >= 2 /\ ref.complete >= 2
  IN IF ~applies THEN "skip" ELSE IF ref.wide /\ c.target \notin c.numeric THEN "raise" ELSE "score"

BiasJudge(c) == IF c.sensitive \in c.filled THEN "score" ELSE "skip"

\* For a graph, rows counts nodes and kinds the node types.
StructuralFidelityGraphJudge(c) ==
  IF c.reference.given /\ c.rows > 0 /\ c.reference.rows > 0 THEN "score" ELSE "skip"
OntologyConsistencyGraphJudge(c) == IF c.rows > 0 THEN "score" ELSE "skip"
ConnectivityCoverageGraphJudge(c) == IF c.rows > 0 THEN "score" ELSE "skip"
GraphPrivacyJudge(c) ==
  IF c.reference.given /\ c.rows > 0 /\ c.reference.rows > 0 THEN "score" ELSE "skip"
GraphUtilityJudge(c) ==
  LET ref == c.reference
  IN IF ref.given /\ Min({c.rows, ref.rows, c.kinds, ref.kinds}) >= 2 THEN "score" ELSE "skip"

SemanticPlausibilityGraphJudge(c) == IF c.edges > 0 THEN "ask" ELSE "skip"
QualitativeJudge(c) == "ask"

Conduct(judge, c) ==
  CASE judge = "fidelity" -> FidelityJudge(c)
    [] judge = "diversity" -> DiversityJudge(c)
    [] judge = "privacy" -> PrivacyJudge(c)
    [] judge = "utility" -> UtilityJudge(c)
    [] judge = "bias" -> BiasJudge(c)
    [] judge = "graph_structure" -> StructuralFidelityGraphJudge(c)
    [] judge = "graph_ontology" -> OntologyConsistencyGraphJudge(c)
    [] judge = "graph_connectivity" -> ConnectivityCoverageGraphJudge(c)
    [] judge = "graph_privacy" -> GraphPrivacyJudge(c)
    [] judge = "graph_utility" -> GraphUtilityJudge(c)
    [] judge = "graph_semantic" -> SemanticPlausibilityGraphJudge(c)
    [] judge = "qualitative" -> QualitativeJudge(c)
    [] judge = "task_quality" -> "dispatch"

---------------------------------------------------------------------------
(* Task metric providers: the metrics one advertises as free or as asking  *)
(* the model, those its score takes from the oracle's reply (as fractions  *)
(* of judged rows, or as ratings of a rubric), and the columns each reads. *)

Provider(free, llm, fractions, ratings, reads) ==
  [free |-> free, llm |-> llm, fractions |-> fractions, ratings |-> ratings, reads |-> reads]

Every(keys, columns) == [k \in keys |-> columns]

TextClassificationProvider ==
  LET free == {"class_balance", "duplicate_rate"}  llm == {"accuracy", "macro_f1"}
  IN Provider(free, llm, {"accuracy", "macro_f1"}, {}, Every(free \cup llm, {"text", "label"}))

QAProvider ==
  LET free == {"answerable_rate", "question_type_diversity"}  llm == {"answer_correctness", "groundedness"}
  IN Provider(free, llm, {"answer_correctness", "groundedness"}, {}, Every(free \cup llm, {"question", "answer"}))

SummarizationProvider ==
  LET free == {"compression_ratio", "abstractiveness"}  llm == {"faithfulness", "coverage", "conciseness"}
  IN Provider(free, llm, {}, {"faithfulness", "coverage", "conciseness"},
              Every(free \cup llm, {"document", "summary"}))

ChatProvider ==
  LET free == {"turn_validity"}  llm == {"instruction_following", "coherence"}
  IN Provider(free, llm, {}, {"instruction_following", "coherence"},
              Every(free \cup llm, {"instruction", "response"}))

TabularClassificationProvider ==
  LET free == {"class_balance", "feature_completeness"}
  IN Provider(free, {"label_consistency"}, {"label_consistency"}, {}, Every(free \cup {"label_consistency"}, {}))

RegressionProvider ==
  LET free == {"target_range_validity", "target_distribution_health", "feature_completeness"}
  IN Provider(free, {}, {}, {}, Every(free, {}))

ImageReads == [label_balance |-> {"label"}, prompt_label_consistency |-> {"prompt", "label"},
               prompt_diversity |-> {"prompt"}, duplicate_rate |-> {"prompt"}]
ImageClassificationProvider ==
  Provider({"label_balance", "prompt_diversity", "duplicate_rate"}, {"prompt_label_consistency"},
           {"prompt_label_consistency"}, {}, ImageReads)
ImageGenerationProvider ==
  Provider({"prompt_diversity", "duplicate_rate"}, {}, {"prompt_label_consistency"}, {}, ImageReads)

AudioReads == [label_balance |-> {"label"}, transcript_label_consistency |-> {"text", "label"},
               duration_uniformity |-> {"duration_seconds"}, transcript_quality |-> {"text"}]
AudioClassificationProvider ==
  Provider({"label_balance", "duration_uniformity"}, {"transcript_label_consistency", "transcript_quality"},
           {"transcript_label_consistency"}, {"transcript_quality"}, AudioReads)
SpeechSynthesisProvider ==
  Provider({"duration_uniformity"}, {"transcript_quality"},
           {"transcript_label_consistency"}, {"transcript_quality"}, AudioReads)

VideoTaskProvider ==
  Provider({"duration_conformance", "resolution_consistency", "fps_consistency", "prompt_diversity"},
           {"prompt_quality"}, {}, {"prompt_quality"},
           [duration_conformance |-> {"duration_seconds"}, resolution_consistency |-> {"width", "height"},
            fps_consistency |-> {"fps"}, prompt_diversity |-> {"prompt"}, prompt_quality |-> {"prompt"}])

GraphQAProvider ==
  LET free == {"answerable_rate", "multi_hop_correctness", "answer_groundedness"}
  IN Provider(free, {"question_clarity"}, {}, {"question_clarity"}, Every(free \cup {"question_clarity"}, {}))

\* The generic rubric is always asked as a whole.
GenericTaskProvider ==
  LET llm == {"realism", "coherence", "task_fit"} IN Provider({}, llm, {}, llm, Every(llm, {}))

\* provider_for
ProviderFor(task) ==
  CASE task = "text_classification" -> TextClassificationProvider
    [] task = "qa" -> QAProvider
    [] task = "summarization" -> SummarizationProvider
    [] task = "chat" -> ChatProvider
    [] task = "tabular_classification" -> TabularClassificationProvider
    [] task = "regression" -> RegressionProvider
    [] task = "image_classification" -> ImageClassificationProvider
    [] task = "image_generation" -> ImageGenerationProvider
    [] task = "audio_classification" -> AudioClassificationProvider
    [] task = "speech_synthesis" -> SpeechSynthesisProvider
    [] task = "text_to_video" -> VideoTaskProvider
    [] task = "graph_qa" -> GraphQAProvider
    [] task = "generic" -> GenericTaskProvider

MetricCatalog(task) == ProviderFor(task).free \cup ProviderFor(task).llm

\* A score without its input raises TaskMetricError.
MissingInput(task, keys, c) ==
  CASE task \in {"tabular_classification", "regression"} -> c.target \notin c.columns
    [] task = "graph_qa" -> c.items = 0 \/ c.modality # "graph"
    [] OTHER -> ~(UNION {ProviderFor(task).reads[k] : k \in keys} \subseteq c.columns)

\* Metrics of a provider that come out of the oracle's reply.
OracleKeys(task) == ProviderFor(task).fractions \cup ProviderFor(task).ratings

\* Mutant: a score that reads the oracle whatever was selected.
OracleAlways(task, keys) == OracleKeys(task)

\* Metrics of the selection the oracle is asked for.
OracleMetrics(task, keys) == IF task = "generic" THEN OracleKeys(task) ELSE keys \cap OracleKeys(task)

\* sample_frame is empty, so the oracle's metrics are 0.0 without a call.
NothingSampled(task, c) == task \notin {"generic", "graph_qa"} /\ c.rows = 0

Scaled(rating) == rating * (Unit \div 5)

\* What a metric may be.  Intrinsic metrics are fractions of rows; only the
\* generic provider takes a rating without checking its range.
MetricValues(task, key, c) ==
  IF key \in OracleKeys(task) /\ NothingSampled(task, c) THEN {0}
  ELSE IF key \in ProviderFor(task).ratings
       THEN {Scaled(r) : r \in IF task = "generic" THEN Ratings ELSE Ratings \cap 1..5}
  ELSE Values

\* duplicate_rate of images is one minus their prompt_diversity.
Coherent(task, m) ==
  task \in {"image_classification", "image_generation"}
    /\ {"prompt_diversity", "duplicate_rate"} \subseteq DOMAIN m =>
       m["prompt_diversity"] + m["duplicate_rate"] = Unit

MetricMaps(task, keys, c) ==
  {m \in [keys -> UNION {MetricValues(task, k, c) : k \in keys}] :
     Coherent(task, m) /\ \A k \in keys : m[k] \in MetricValues(task, k, c)}

SumOver(f) == MapThenSumSet(LAMBDA d : f[d], DOMAIN f)

MeanContribution(m) == SumOver(m) \div Cardinality(DOMAIN m)

\* detect_task; an explicit task_type wins.
TaskOf(c) ==
  CASE c.task # "auto" -> c.task
    [] c.modality = "text" ->
         CASE {"text", "label"} \subseteq c.columns -> "text_classification"
           [] {"question", "answer"} \subseteq c.columns -> "qa"
           [] {"document", "summary"} \subseteq c.columns -> "summarization"
           [] {"instruction", "response"} \subseteq c.columns \/ "messages" \in c.columns -> "chat"
           [] OTHER -> "generic"
    [] c.modality = "tabular" /\ c.target # "none" ->
         IF c.target \in c.numeric THEN "regression" ELSE "tabular_classification"
    [] c.modality = "image" ->
         IF "label" \in c.columns THEN "image_classification" ELSE "image_generation"
    [] c.modality = "audio" ->
         IF "label" \in c.columns THEN "audio_classification" ELSE "speech_synthesis"
    [] c.modality = "video" -> "text_to_video"
    [] OTHER -> "generic"

\* TaskMetricsJudge: the selected keys the provider knows, or all of them.
SelectedKeys(c) ==
  LET keys == MetricCatalog(TaskOf(c)) IN IF c.selected = {} THEN keys ELSE c.selected \cap keys

---------------------------------------------------------------------------
(* The runner.                                                             *)

Idle ==
  /\ phase = "idle" /\ ctx = <<>> /\ overrides = <<>> /\ todo = <<>> /\ scores = <<>>
  /\ asked = FALSE /\ wild = FALSE /\ total = 0 /\ overall = 0

\* MoEEvaluator.evaluate begins.
StartJudging(c) ==
  /\ phase = "idle"
  /\ phase' = "judging"
  /\ ctx' = c
  /\ overrides' \in Overrides
  /\ todo' = Judges(c.modality, c.llm)
  /\ UNCHANGED <<scores, asked, wild, total, overall>>

Judge == Head(todo)
Judging(conduct) == phase = "judging" /\ todo # <<>> /\ Conduct(Judge, ctx) = conduct

Verdict(v) == scores' = Updated(scores, [d \in {Judge} |-> v]) /\ todo' = Tail(todo)
Drop == todo' = Tail(todo) /\ UNCHANGED scores
Abort == phase' = "failed" /\ UNCHANGED <<todo, scores>>

\* A statistical judge returns a clamped score,
JudgeScores ==
  /\ Judging("score")
  /\ \E v \in Values : Verdict(v)
  /\ UNCHANGED <<phase, ctx, overrides, asked, wild, total, overall>>

\* raises JudgeNotApplicable, as the semantic judge may,
JudgeNotApplicable ==
  /\ Judging("skip")
  /\ Drop
  /\ UNCHANGED <<phase, ctx, overrides, asked, wild, total, overall>>

\* or anything else, which the runner lets through.
JudgeRaises ==
  /\ Judging("raise")
  /\ Abort
  /\ UNCHANGED <<ctx, overrides, asked, wild, total, overall>>

\* The ratings are taken as the model gives them.
QualitativeScore(realism, coherence, fit) == (Scaled(realism) + Scaled(coherence) + Scaled(fit)) \div 3
SemanticScore(realism, coherence) == (Scaled(realism) + Scaled(coherence)) \div 2

RubricScores ==
  /\ Judging("ask")
  /\ \E lo, hi \in Ratings :
       /\ Verdict(IF Judge = "qualitative" THEN QualitativeScore(lo, lo, hi) ELSE SemanticScore(lo, hi))
       /\ wild' = (wild \/ ~({lo, hi} \subseteq 1..5))
  /\ UNCHANGED <<phase, ctx, overrides, asked, total, overall>>

\* Their own parse errors are not JudgeNotApplicable.
RubricUnparseable ==
  /\ Judging("ask")
  /\ Abort
  /\ UNCHANGED <<ctx, overrides, asked, wild, total, overall>>

TaskScores ==
  /\ Judging("dispatch")
  /\ LET task == TaskOf(ctx)  keys == SelectedKeys(ctx) IN
     /\ keys # {} /\ ~MissingInput(task, keys, ctx)
     /\ "target_distribution_health" \in keys => ctx.target \in ctx.numeric
     /\ asked' = (OracleMetrics(task, keys) # {} /\ ~NothingSampled(task, ctx))
     /\ \E m \in MetricMaps(task, keys, ctx) :
          /\ Verdict(MeanContribution(m))
          /\ wild' = (wild \/ \E k \in keys : m[k] > Unit)
  /\ UNCHANGED <<phase, ctx, overrides, total, overall>>

\* TaskMetricError: a missing column or target, no fixture, or a reply of the
\* oracle that does not parse.
TaskNotApplicable ==
  /\ Judging("dispatch")
  /\ LET task == TaskOf(ctx)  keys == SelectedKeys(ctx) IN
     \/ (keys = {} \/ MissingInput(task, keys, ctx)) /\ UNCHANGED asked
     \/ /\ keys # {} /\ ~MissingInput(task, keys, ctx)
        /\ OracleMetrics(task, keys) # {} /\ ~NothingSampled(task, ctx)
        /\ asked' = TRUE
  /\ Drop
  /\ UNCHANGED <<phase, ctx, overrides, wild, total, overall>>

\* The skewness of a column of labels is no TaskMetricError.
TaskRaises ==
  /\ Judging("dispatch")
  /\ "target_distribution_health" \in SelectedKeys(ctx)
  /\ ctx.target \in ctx.columns \ ctx.numeric
  /\ Abort
  /\ UNCHANGED <<ctx, overrides, asked, wild, total, overall>>

\* Mutant: all weights are kept, with or without a score.
PresentAll == Updated(DefaultWeights, overrides)

\* effective.get(s.dimension, 0.0) over the dimensions that have a score.
Present ==
  LET effective == Updated(DefaultWeights, overrides)
  IN [d \in DOMAIN scores |-> effective[d]]

\* aggregate: overall is a quotient, kept as overall / total.
Aggregate ==
  /\ phase = "judging"
  /\ todo = <<>>
  /\ phase' = "done"
  /\ LET weights == IF SumOver(Present) > 0 THEN Present
                                            ELSE [d \in DOMAIN scores |-> 1]
     IN /\ total' = SumOver(weights)
        /\ overall' = SumOver([d \in DOMAIN scores |-> scores[d] * weights[d]])
  /\ UNCHANGED <<ctx, overrides, todo, scores, asked, wild>>

EvalNext ==
  \/ JudgeScores \/ JudgeNotApplicable \/ JudgeRaises
  \/ RubricScores \/ RubricUnparseable
  \/ TaskScores \/ TaskNotApplicable \/ TaskRaises
  \/ Aggregate

---------------------------------------------------------------------------
(* Properties.                                                             *)

\* The 360-degree score is a mean of the scores that exist: it lies between the
\* lowest and the highest of them, whatever judges dropped out and whatever
\* non-negative overrides a run carries, and an all-zero map still yields one.
\* It is normalized to 0..1 as long as the model keeps to its rubric: only the
\* judges that take ratings unchecked can carry it further.
OverallIsAMean ==
  phase = "done" /\ DOMAIN scores # {} /\ (\A d \in DOMAIN overrides : overrides[d] >= 0) =>
    /\ total > 0
    /\ \E lo, hi \in DOMAIN scores :
         scores[lo] * total <= overall /\ overall <= scores[hi] * total
    /\ wild \/ overall <= Unit * total

\* The task judge calls the model only if a selected metric is advertised as
\* requiring one: a user who selects intrinsic metrics pays for no call.
OracleAsAdvertised ==
  asked => SelectedKeys(ctx) \cap ProviderFor(TaskOf(ctx)).llm # {}
=============================================================================
