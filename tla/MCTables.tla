------------------------------ MODULE MCTables ------------------------------
(* Samples of two rows and two columns, and the contexts of other datasets. *)
EXTENDS Tables

Col(dtype, hint, cells) ==
  {[dtype |-> dtype, hint |-> hint, cells |-> c] : c \in cells}

\* int and bool columns have no missing cell in pandas.
MCSampleColumns ==
  [age |-> Col("int", "none", {<<1, 2>>}) \cup Col("float", "none", {<<1, 2>>, <<2, NaN>>, <<NaN, NaN>>})
             \cup Col("bool", "none", {<<20, 21>>}) \cup Col("datetime", "none", {<<40, 41>>, <<40, None>>})
             \cup Col("object", "none", {<<10, 11>>, <<10, 10>>, <<11, None>>, <<None, None>>, <<20, None>>})
             \cup Col("object", "email", {<<10, 11>>}),
   plan |-> Col("object", "none", {<<10, 10>>})]

MCColumnOrder == <<"age", "plan", "text", "label", "extra">>

MCEditBounds == {<<>>, [min |-> 1, max |-> 1], [min |-> 2, max |-> 1], [choices |-> {Letter}], [choices |-> {}]}

Described(modality, columns) == [modality |-> modality, table |-> [n \in DOMAIN columns |-> Column(columns[n])]]

MCOtherVersions ==
  {Described("tabular", [age |-> <<1, None>>, plan |-> <<10, 11>>]),
   Described("tabular", [age |-> <<1, 2>>, label |-> <<10, 11>>, text |-> <<10, None>>]),
   Described("tabular", [age |-> <<>>]),
   Described("text", [text |-> <<10, None>>, label |-> <<11, 10>>]),
   Described("image", [label |-> <<10, 10>>])}

P(family, kind, targets, intensity) ==
  [family |-> family, kind |-> kind, targets |-> targets, intensity |-> intensity,
   relabel |-> <<>>, field |-> "none", value |-> <<>>, ratio |-> 0]

MCSpecs ==
  {P(family, kind, targets, intensity) :
     family \in {"noise"}, kind \in {"char", "mask"}, targets \in {<<>>, <<"plan">>}, intensity \in {"zero", "some"}}
  \cup {P("drift", kind, targets, intensity) :
     kind \in {"covariate", "temporal", "concept"}, targets \in {<<>>, <<"age">>}, intensity \in {"zero", "some"}}
  \cup {[P("drift", "concept", <<>>, "some") EXCEPT !.relabel = (10 :> 11)]}
  \cup {P("outliers", kind, <<>>, intensity) : kind \in {"point", "contextual"}, intensity \in {"zero", "some"}}
  \cup {P("edge_case", kind, targets, "some") :
     kind \in {"nulls", "boundary", "format"}, targets \in {<<>>, <<"age">>}}
  \cup {[P("bias", "class_imbalance", targets, "some") EXCEPT !.ratio = ratio, !.field = field] :
     targets \in {<<>>, <<"plan">>}, field \in {"none", "label"}, ratio \in {50, 100, 150}}
  \cup {[P("bias", "demographic_skew", <<>>, "some") EXCEPT !.ratio = 100, !.value = <<11>>, !.field = "plan"]}

MCQuestions ==
  {[target |-> "none", sensitive |-> "none", selected |-> {}, llm |-> FALSE, against |-> TRUE],
   [target |-> "plan", sensitive |-> "age", selected |-> {"class_balance"}, llm |-> TRUE, against |-> TRUE]}

Blind == [given |-> FALSE, columns |-> {}, numeric |-> {}, filled |-> {}, rows |-> 0, complete |-> 0,
          kinds |-> 0, wide |-> FALSE]
Ctx(modality, columns) ==
  [modality |-> modality, rows |-> 2, columns |-> columns, numeric |-> {}, filled |-> columns, complete |-> 2,
   target |-> "none", sensitive |-> "none", task |-> "auto", selected |-> {}, llm |-> TRUE,
   items |-> 0, edges |-> 1, kinds |-> 2, reference |-> Blind]

\* A reference whose target has more than ten values is regressed on.
Other(c) == [given |-> TRUE, columns |-> c.columns, numeric |-> c.numeric, filled |-> c.columns, rows |-> 2,
             complete |-> 2, kinds |-> c.kinds, wide |-> TRUE]
Against(c) == [c EXCEPT !.reference = Other(c)]

MCContexts ==
  {Ctx("text", columns) : columns \in {{"question", "answer"}, {"document", "summary"},
                                       {"instruction", "response"}, {"messages"}, {"body"}}}
  \cup {[Ctx("text", {"text", "label"}) EXCEPT !.selected = {"class_balance", "duplicate_rate"}]}
  \cup {Ctx("image", {"prompt"}), Ctx("image", {"prompt", "label"}), Ctx("image", {"label"}),
        [Ctx("image", {"label"}) EXCEPT !.selected = {"label_balance"}],
        Ctx("audio", {"text", "duration_seconds"}), Ctx("audio", {"text", "duration_seconds", "label"}),
        Ctx("video", {"prompt", "duration_seconds", "width", "height", "fps"}),
        [Ctx("video", {}) EXCEPT !.rows = 0]}
  \cup {Ctx("graph", {}), [Ctx("graph", {}) EXCEPT !.edges = 0, !.rows = 0],
        Against(Ctx("graph", {})), [Against(Ctx("graph", {})) EXCEPT !.task = "graph_qa", !.items = 1],
        [Ctx("graph", {}) EXCEPT !.task = "graph_qa", !.items = 1, !.selected = {"answerable_rate"}]}
  \cup {[Against([Ctx("tabular", {"x", "y"}) EXCEPT !.numeric = numeric]) EXCEPT !.target = "y", !.task = task] :
          numeric \in {{"x"}, {"x", "y"}}, task \in {"auto", "regression"}}
  \cup {[Against(Ctx("tabular", {"x"})) EXCEPT !.numeric = {"x"}],
        [Ctx("tabular", {"y"}) EXCEPT !.target = "y", !.task = "regression"]}

MCOverrides == {<<>>, [task_quality |-> 0, qualitative |-> 0, fidelity |-> 100], [qualitative |-> -50]}
=============================================================================
