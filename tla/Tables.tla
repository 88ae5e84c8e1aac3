------------------------------- MODULE Tables -------------------------------
(***************************************************************************)
(* A tabular dataset from an uploaded sample to its evaluation: the        *)
(* sample is profiled, the profile proposes fields, the user edits one,    *)
(* a synthesizer fitted to the sample fills the fields and the constraints *)
(* are enforced; a version, made so or elsewhere, is perturbed; and the    *)
(* perturbed version is judged against its parent (Mixture).               *)
(*                                                                         *)
(* A cell is a number that stands for its class: real numbers, strings of  *)
(* the sample, booleans, moments, and what the code makes up.  A column is *)
(* a sequence of cells; random draws are choices.                          *)
(***************************************************************************)
EXTENDS Mixture

CONSTANTS SampleColumns,  \* column name -> the columns a sample may have under it
          ColumnOrder,    \* all column names in file order, the added field's last
          EditTypes,      \* semantic types the user may choose
          EditBounds,     \* constraints the user may give
          MaxCategories,  \* max_categories of the profiler
          NRows,          \* rows generated
          OtherVersions,  \* versions made from a description, with their modality
          Specs,          \* perturbation specs
          Questions       \* target, sensitive field and use of a model of an evaluation

VARIABLES stage,     \* how far the dataset is
          sample, profile,
          fields,    \* DatasetSpec.fields
          parent,    \* version: modality and table
          spec,      \* PerturbationSpec
          child      \* the perturbed table

tableVars == <<stage, sample, profile, fields, parent, spec, child>>
vars == <<tableVars, evalVars>>

Nothing == <<>>

TablesInit ==
  /\ stage = "new"
  /\ sample = Nothing /\ profile = Nothing /\ fields = Nothing
  /\ parent = Nothing /\ spec = Nothing /\ child = Nothing
  /\ Idle

---------------------------------------------------------------------------
(* Cells.                                                                  *)

None == -1                \* an Arrow null
NaN == -2                 \* what pandas and numpy hold for a missing number
Wrapped == -3             \* NaN cast to int64
Numbers == 0..4
Far == 4                  \* a number no sample holds
Texts == 10..19           \* strings of the sample
Bools == 20..21
BoolTexts == 30..31       \* their str()
Moments == 40..49
Fake == 50  Letter == 51  \* Faker's strings, and "a", "b", "c"
Typo == 52  Rare == 53  EmptyText == 54  Blank == 55
Strings == Texts \cup BoolTexts \cup {Fake, Letter, Typo, Rare, EmptyText, Blank}

Missing == {None, NaN}
Held == Numbers \cup Texts \cup Bools \cup Moments \cup Missing  \* what a sample holds
Known(cells) == Range(cells) \ Missing
Finite(cells) == Known(cells) \cap (Numbers \cup {Wrapped})

Str(v) == IF v \in Bools THEN v + 10 ELSE v

\* Type of pa.array(cells); strings and NaN together are refused.
ArrowType(cells) ==
  CASE Range(cells) \subseteq {None} -> "null"
    [] Range(cells) \subseteq Numbers \cup {Wrapped, NaN, None} -> "number"
    [] Range(cells) \subseteq Strings \cup {None} -> "string"
    [] Range(cells) \subseteq Bools \cup {None} \/ Range(cells) \subseteq Moments \cup {None} -> "other"
    [] OTHER -> "refused"

Column(cells) == [type |-> ArrowType(cells), cells |-> cells]

\* A file's column has one type; _infer_semantic_type hints at three names.
SampleColumn(col) ==
  /\ col.hint \in {"none", "email", "address", "name"}
  /\ col.cells \in Seq(Held)
  /\ col.dtype \in {"int", "float"} => Known(col.cells) \subseteq Numbers
  /\ Known(col.cells) \cap Bools = {} \/ Known(col.cells) \subseteq Bools

\* Columns of one length, known to the order.
IsTable(table) ==
  /\ DOMAIN table \subseteq Range(ColumnOrder)
  /\ \A name \in DOMAIN table :
       LET col == table[name] IN
       col = [type |-> col.type, cells |-> col.cells] /\ col.cells \in Seq(Range(col.cells))
  /\ \A name, other \in DOMAIN table : Len(table[name].cells) = Len(table[other].cells)

ASSUME SamplesAssumption ==
  /\ ColumnOrder \in Seq(STRING) /\ ColumnOrder # <<>>
  /\ DOMAIN SampleColumns \subseteq Range(ColumnOrder) \ {Last(ColumnOrder)}
  /\ \A name \in DOMAIN SampleColumns : \A col \in SampleColumns[name] : SampleColumn(col)
ASSUME EditsAssumption ==
  \A c \in EditBounds : /\ \A key \in DOMAIN c \cap {"min", "max"} : c[key] \in Numbers
                        /\ "choices" \in DOMAIN c => c.choices \subseteq Strings
ASSUME RowsAssumption == NRows \in Nat \ {0}  \* no shard is empty
ASSUME VersionsAssumption == \A v \in OtherVersions : IsTable(v.table)
ASSUME SpecsAssumption ==
  \A s \in Specs : s.family \in {"noise", "drift", "outliers", "edge_case", "bias"}

\* Every way to pick one option of each entry.
Picks(options) ==
  {f \in [DOMAIN options -> UNION Range(options)] : \A x \in DOMAIN options : f[x] \in options[x]}

---------------------------------------------------------------------------
(* Profile and proposed fields.                                            *)

Modeled == {"integer", "float", "boolean", "categorical", "datetime"}

\* _infer_semantic_type: dtype first, the name only for object columns.
InferType(col) ==
  CASE col.dtype = "bool" -> "boolean"
    [] col.dtype = "datetime" -> "datetime"
    [] col.dtype = "int" -> "integer"
    [] col.dtype = "float" -> "float"
    [] OTHER -> CASE Known(col.cells) = {} -> "text"
                  [] col.hint # "none" -> col.hint
                  [] Cardinality({Str(v) : v \in Known(col.cells)}) <= MaxCategories -> "categorical"
                  [] OTHER -> "text"

Frequency(cells, v) == Cardinality({r \in DOMAIN cells : Str(cells[r]) = v})

ColumnProfile(col) ==
  LET type == InferType(col)
      numbers == Known(col.cells)
      base == [type |-> type, nullable |-> Range(col.cells) \cap Missing # {}]
  IN CASE type \in {"integer", "float"} /\ numbers # {} ->
            Updated(base, [min |-> Min(numbers), max |-> Max(numbers)])
       [] type = "categorical" ->
            Updated(base, [categories |-> [v \in {Str(w) : w \in numbers} |-> Frequency(col.cells, v)]])
       [] OTHER -> base

\* fields_from_profile: bounds, or choices and the most frequent one.
Constraints(p) ==
  IF "min" \in DOMAIN p THEN [min |-> p.min, max |-> p.max]
  ELSE IF p.type # "categorical" THEN Nothing
  ELSE [choices |-> DOMAIN p.categories,
        most_frequent |-> CHOOSE v \in DOMAIN p.categories :
                            \A w \in DOMAIN p.categories : p.categories[w] <= p.categories[v]]

FieldsFromProfile(p) ==
  [name \in DOMAIN p |-> [type |-> p[name].type, constraints |-> Constraints(p[name])]]

\* upload_sample: read_sample and profile_dataframe.
UploadSample ==
  /\ stage = "new"
  /\ stage' = "profiled"
  /\ \E s \in Picks(SampleColumns) :
       /\ sample' = s
       /\ profile' = [name \in DOMAIN s |-> ColumnProfile(s[name])]
       /\ fields' = FieldsFromProfile(profile')
  /\ UNCHANGED <<parent, spec, child, evalVars>>

Edited(f) == stage = "profiled" /\ stage' = "edited" /\ fields' = f
             /\ UNCHANGED <<sample, profile, parent, spec, child, evalVars>>

\* PATCH /datasets/{id} replaces the field list: accepted as it is,
KeepFields == Edited(fields)
\* with another type or other bounds for one field,
RetypeField ==
  \E name \in DOMAIN fields, type \in EditTypes : Edited([fields EXCEPT ![name].type = type])
BoundField ==
  \E name \in DOMAIN fields, c \in EditBounds : Edited([fields EXCEPT ![name].constraints = c])
\* with one field more, or one less.
AddField ==
  \E type \in EditTypes, c \in EditBounds :
    Edited(Updated(fields, [name \in {Last(ColumnOrder)} |-> [type |-> type, constraints |-> c]]))
DropField ==
  \E name \in DOMAIN fields : Edited(Restrict(fields, DOMAIN fields \ {name}))

---------------------------------------------------------------------------
(* Synthesis.                                                              *)

\* Cells the fitted model may decode for a column (external): numbers within
\* and beyond the sample's range, otherwise values of the sample; missing ones
\* only if the sample misses some.
Decoded(col) ==
  LET numeric == col.dtype \in {"int", "float"}
  IN Known(col.cells) \cup (IF numeric THEN {0, 3} ELSE {})
       \cup (IF Range(col.cells) \cap Missing = {} THEN {}
             ELSE IF numeric THEN {NaN} ELSE Missing)

\* _fallback_column; no cell stands for the ValueError of an empty range.
FallbackCells(field) ==
  LET c == field.constraints
      bound(key, default) == IF key \in DOMAIN c THEN c[key] ELSE default
      widest == IF field.type = "float" THEN 1 ELSE Max(Numbers)
  IN CASE field.type \in {"integer", "float"} -> bound("min", 0)..bound("max", widest)
       [] field.type = "boolean" -> Bools
       [] OTHER -> bound("choices", {Letter})

\* Mutant: every column of the sample is modelled.
ModeledNamesAll == DOMAIN sample

\* _modeled_names: by the type the profile saw, whatever the user made of it.
ModeledNames == {name \in DOMAIN sample : profile[name].type \in Modeled}

\* generate, for one field.
FieldCells(name) ==
  IF name \in ModeledNames THEN Decoded(sample[name])
  ELSE IF fields[name].type \in Modeled THEN FallbackCells(fields[name])
  ELSE {Fake}

Number(v) == IF v \in Bools THEN v - Min(Bools) ELSE v

Clip(v, c) ==
  LET raised == IF "min" \in DOMAIN c /\ v < c.min THEN c.min ELSE v
  IN IF "max" \in DOMAIN c /\ raised > c.max THEN c.max ELSE raised

Bounded(field) ==
  field.type \in {"integer", "float"} /\ DOMAIN field.constraints \cap {"min", "max"} # {}
OneOf(field) == field.type = "categorical" /\ "choices" \in DOMAIN field.constraints

MostFrequent(c) ==
  IF "most_frequent" \in DOMAIN c THEN c.most_frequent
  ELSE IF c.choices = {} THEN None ELSE CHOOSE v \in c.choices : TRUE

\* _enforce_column, for one cell and for all.
Enforced(v, field) ==
  LET c == field.constraints IN
  IF Bounded(field)
  THEN IF v \notin Missing THEN Clip(Number(v), c)
       ELSE IF field.type = "integer" THEN Wrapped ELSE NaN
  ELSE IF OneOf(field) /\ v \notin c.choices THEN MostFrequent(c) ELSE v

EnforceColumn(cells, field) == [r \in DOMAIN cells |-> Enforced(cells[r], field)]

\* A column that pa.array or the cast to float64 refuses.
Refused(cells, field) ==
  \/ ArrowType(cells) = "refused"
  \/ Bounded(field) /\ Range(cells) \cap (Strings \cup Moments) # {}

Raw(name) == {cells \in [1..NRows -> FieldCells(name)] : ~Refused(cells, fields[name])}

\* generate: NRows rows of every field, then enforce.
Generate ==
  /\ stage = "edited"
  /\ stage' = "generated"
  /\ \E raw \in Picks([name \in DOMAIN fields |-> Raw(name)]) :
       parent' = [modality |-> "tabular",
                  table |-> [name \in DOMAIN fields |->
                               Column(EnforceColumn(raw[name], fields[name]))]]
  /\ UNCHANGED <<sample, profile, fields, spec, child, evalVars>>

\* A field without a cell to draw, or a refused column, fails the shard.
GenerateRaises ==
  /\ stage = "edited"
  /\ stage' = "failed"
  /\ \E name \in DOMAIN fields :
       \/ FieldCells(name) = {}
       \/ \E cells \in [1..NRows -> FieldCells(name)] : Refused(cells, fields[name])
  /\ UNCHANGED <<sample, profile, fields, parent, spec, child, evalVars>>

\* The version is complete; nothing reads the sample any more.
Publish ==
  /\ stage = "generated"
  /\ stage' = "version"
  /\ sample' = Nothing /\ profile' = Nothing /\ fields' = Nothing
  /\ UNCHANGED <<parent, spec, child, evalVars>>

\* A version made from a description.
OtherVersion ==
  /\ stage = "new"
  /\ stage' = "version"
  /\ parent' \in OtherVersions
  /\ UNCHANGED <<sample, profile, fields, spec, child, evalVars>>

---------------------------------------------------------------------------
(* Perturbation.  A spec has a family, a kind, target_fields, an intensity *)
(* ("zero", "some": each row by a draw) and, where the family reads them,  *)
(* relabel, field, value and ratio (percent).                              *)

Hit(intensity, old, new) == IF intensity = "zero" THEN {old} ELSE {old} \cup new

\* _selected and _string_columns.
Selected(table, s, types) ==
  {name \in DOMAIN table : table[name].type \in types /\ (s.targets = <<>> \/ name \in Range(s.targets))}

Moved(s, v) == Hit(s.intensity, v, {Far})

\* The next string of the sorted observed ones, around the end.
Rotate(observed, v) ==
  LET later == {w \in observed : w > v} IN IF later = {} THEN Min(observed) ELSE Min(later)

Relabel(s, v) == IF Str(v) \in DOMAIN s.relabel THEN s.relabel[Str(v)] ELSE v

NoiseCell(col, s, r) ==
  LET v == col.cells[r] IN
  CASE col.type = "number" -> IF v \in Missing THEN {v} ELSE Moved(s, v)
    [] col.type = "string" -> IF v = None THEN {v} ELSE Hit(s.intensity, v, Known(col.cells) \ {v})

\* Concept drift asks no intensity; a trend leaves the first row alone.
DriftCell(col, s, r) ==
  LET v == col.cells[r]  observed == Known(col.cells) IN
  CASE col.type = "string" ->
         IF s.relabel # Nothing THEN {Relabel(s, v)}
         ELSE IF v # None /\ Cardinality(observed) >= 2 THEN {Rotate(observed, v)} ELSE {v}
    [] col.type = "number" ->
         IF v \in Missing \/ (s.kind = "temporal" /\ r = 1) THEN {v} ELSE Moved(s, v)

\* A missing number that pandas wrote as NaN is no None: it is hit as well.
OutlierCell(col, s, r) ==
  LET v == col.cells[r] IN
  IF v = None \/ (col.type = "number" /\ Finite(col.cells) = {}) THEN {v}
  ELSE Hit(s.intensity, v, {IF col.type = "number" THEN Far ELSE Rare})

EdgeCell(col, s, r) ==
  LET finite == Finite(col.cells)
      new == CASE s.kind = "nulls" -> {None}
               [] s.kind = "boundary" /\ col.type = "string" -> {EmptyText}
               [] s.kind = "boundary" /\ col.type = "number" ->
                    IF Range(col.cells) \subseteq {None} THEN {None}
                    ELSE (IF finite = {} THEN {} ELSE {Min(finite), Max(finite)})
                           \cup (Range(col.cells) \cap {NaN})
               [] s.kind = "format" -> IF col.type = "number" THEN {0} ELSE {Blank}
  IN Hit(s.intensity, col.cells[r], new)

\* Text: a null becomes "" under every family that rewrites cells.
TextCell(col, s, r) ==
  LET v == IF col.cells[r] = None THEN EmptyText ELSE col.cells[r]
      typos == IF v = EmptyText THEN {v} ELSE {Typo} IN
  CASE s.family = "noise" -> Hit(s.intensity, v, IF s.kind = "mask" THEN {Typo} ELSE typos)
    [] s.family = "outliers" -> Hit(s.intensity, v, {Rare})
    [] s.family = "edge_case" -> Hit(s.intensity, v, {IF s.kind = "format" THEN Blank ELSE EmptyText})
    [] s.family = "drift" ->
         IF s.kind = "concept" /\ s.relabel # Nothing THEN {Relabel(s, col.cells[r])}
         ELSE IF r = 1 THEN {v} ELSE Hit(s.intensity, v, typos)

\* Columns a family rewrites.
Rewritten(v, s) ==
  LET types == CASE v.modality = "text" -> {"string"}
                 [] s.family = "drift" -> {IF s.kind = "concept" THEN "string" ELSE "number"}
                 [] s.family = "outliers" -> {IF s.kind = "contextual" THEN "string" ELSE "number"}
                 [] OTHER -> {"number", "string"}
  IN Selected(v.table, s, types)

\* What a family may make of a cell.
NewCell(modality, col, s, r) ==
  CASE modality = "text" -> TextCell(col, s, r)
    [] modality # "text" /\ s.family = "noise" -> NoiseCell(col, s, r)
    [] modality # "text" /\ s.family = "drift" -> DriftCell(col, s, r)
    [] modality # "text" /\ s.family = "outliers" -> OutlierCell(col, s, r)
    [] modality # "text" /\ s.family = "edge_case" -> EdgeCell(col, s, r)

NewCells(v, s, name) ==
  LET col == v.table[name] IN Picks([r \in DOMAIN col.cells |-> NewCell(v.modality, col, s, r)])

Rows(table) == IF DOMAIN table = {} THEN 0 ELSE Len((CHOOSE col \in Range(table) : TRUE).cells)

\* bias_reindex: the field asked for, the first target, or the first column.
BiasField(table, s) ==
  LET wanted == IF s.field # "none" \/ s.targets = <<>> THEN s.field ELSE Head(s.targets)
      first == CHOOSE i \in DOMAIN ColumnOrder :
                 /\ ColumnOrder[i] \in DOMAIN table
                 /\ \A j \in 1..(i - 1) : ColumnOrder[j] \notin DOMAIN table
  IN IF wanted \in DOMAIN table THEN wanted ELSE ColumnOrder[first]

\* The rows that carry the target value: the one asked for, or the first of the
\* most frequent.  A NaN equals nothing, so it counts once and matches no row.
Positives(cells, s) ==
  LET equal(v) == {r \in DOMAIN cells : cells[r] = v /\ v # NaN}
      count(r) == IF cells[r] = NaN THEN 1 ELSE Cardinality(equal(cells[r]))
      first == CHOOSE r \in DOMAIN cells :
                 \A q \in DOMAIN cells : count(q) < count(r) \/ (count(q) = count(r) /\ r <= q)
  IN IF s.value # Nothing THEN {r \in DOMAIN cells : Str(cells[r]) = s.value[1]}
                          ELSE equal(cells[first])

Quota(s, n) == (s.ratio * n) \div 100

\* Reindexing needs both positive and negative rows.
Reindexed(table, s) ==
  LET cells == table[BiasField(table, s)].cells
      pos == Positives(cells, s)
  IN Cardinality(Range(cells)) >= 2 /\ pos # {} /\ pos # DOMAIN cells

\* Row orders: the quota of positive rows, the rest negative, shuffled.
Orders(table, s) ==
  LET cells == table[BiasField(table, s)].cells
      pos == Positives(cells, s)
  IN IF ~Reindexed(table, s) THEN {[r \in DOMAIN cells |-> r]}
     ELSE {order \in [DOMAIN cells -> DOMAIN cells] :
             Cardinality({r \in DOMAIN cells : order[r] \in pos}) = Quota(s, Len(cells))}

\* Mutant: only the field that is skewed is reindexed.
ReindexOneColumn(table, s, order) ==
  [table EXCEPT ![BiasField(table, s)].cells = [r \in DOMAIN order |-> @[order[r]]]]

Reindex(table, s, order) ==
  [name \in DOMAIN table |->
     [table[name] EXCEPT !.cells = [r \in DOMAIN order |-> @[order[r]]]]]

\* _rebuild keeps a column's type; a text table's types are inferred again.
Rebuild(v, cells) ==
  [name \in DOMAIN v.table |->
     IF name \notin DOMAIN cells THEN v.table[name]
     ELSE IF v.modality = "text" THEN Column(cells[name])
     ELSE [v.table[name] EXCEPT !.cells = cells[name]]]

Perturbed(c) == stage = "version" /\ stage' = "perturbed" /\ child' = c
                /\ UNCHANGED <<sample, profile, fields, parent, evalVars>>

\* perturb_tabular and perturb_text, by modality; an empty table is returned.
PerturbNothing ==
  /\ stage = "version" /\ parent.modality \in {"tabular", "text"}
  /\ Rows(parent.table) = 0
  /\ spec' \in Specs
  /\ Perturbed(parent.table)

PerturbCells ==
  /\ stage = "version" /\ parent.modality \in {"tabular", "text"}
  /\ Rows(parent.table) > 0
  /\ \E s \in Specs :
       /\ s.family # "bias"
       /\ spec' = s
       /\ \E cells \in Picks([name \in Rewritten(parent, s) |-> NewCells(parent, s, name)]) :
            Perturbed(Rebuild(parent, cells))

PerturbRows ==
  /\ stage = "version" /\ parent.modality \in {"tabular", "text"}
  /\ Rows(parent.table) > 0
  /\ \E s \in Specs :
       /\ s.family = "bias"
       /\ spec' = s
       /\ \E order \in Orders(parent.table, s) : Perturbed(Reindex(parent.table, s, order))

\* _UnsupportedModalityHandler, or a draw of a negative number of rows.
PerturbRaises ==
  /\ stage = "version"
  /\ \/ parent.modality \in Media
     \/ /\ parent.modality \notin Media /\ Rows(parent.table) > 0
        /\ \E s \in Specs : /\ s.family = "bias" /\ Reindexed(parent.table, s)
                            /\ Quota(s, Rows(parent.table)) > Rows(parent.table)
  /\ stage' = "failed"
  /\ UNCHANGED <<sample, profile, fields, parent, spec, child, evalVars>>

---------------------------------------------------------------------------
(* Evaluation: run_evaluation's context of a version against its parent.   *)

\* is_numeric_dtype of the loaded column.
Numeric(table) ==
  {name \in DOMAIN table : \/ table[name].type = "number"
                           \/ Range(table[name].cells) \subseteq Bools /\ Rows(table) > 0}
Filled(table) == {name \in DOMAIN table : Known(table[name].cells) # {}}
Complete(table, names) ==
  Cardinality({r \in 1..Rows(table) : \A n \in names \cap DOMAIN table : table[n].cells[r] \notin Missing})

EvaluationContext(modality, subject, reference, q) ==
  LET used == ((Numeric(subject) \cap DOMAIN reference) \ {q.target}) \cup {q.target} IN
  [modality |-> modality, rows |-> Rows(subject), columns |-> DOMAIN subject,
   numeric |-> Numeric(subject), filled |-> Filled(subject), complete |-> Complete(subject, used),
   target |-> q.target, sensitive |-> q.sensitive, task |-> "auto", selected |-> q.selected,
   llm |-> q.llm, items |-> 0, edges |-> 0, kinds |-> 0,
   reference |-> [given |-> q.against, columns |-> DOMAIN reference, numeric |-> Numeric(reference),
                  filled |-> Filled(reference), rows |-> Rows(reference),
                  complete |-> Complete(reference, used), kinds |-> 0, wide |-> FALSE]]

Evaluate ==
  /\ stage = "perturbed"
  /\ \E q \in Questions :
       StartJudging(EvaluationContext(parent.modality, child, parent.table, q))
  /\ stage' = "evaluating"
  /\ parent' = Nothing /\ spec' = Nothing /\ child' = Nothing
  /\ UNCHANGED <<sample, profile, fields>>

\* Other datasets: graphs, media, and references of other shapes.
EvaluateOther ==
  /\ stage = "new"
  /\ \E c \in Contexts : StartJudging(c)
  /\ stage' = "evaluating"
  /\ UNCHANGED <<sample, profile, fields, parent, spec, child>>

Over == stage = "failed" \/ phase \in {"failed", "done"}

Finished == Over /\ UNCHANGED vars

Next ==
  \/ UploadSample \/ KeepFields \/ RetypeField \/ BoundField \/ AddField \/ DropField
  \/ Generate \/ GenerateRaises \/ Publish \/ OtherVersion
  \/ PerturbNothing \/ PerturbCells \/ PerturbRows \/ PerturbRaises
  \/ Evaluate \/ EvaluateOther
  \/ EvalNext /\ UNCHANGED tableVars
  \/ Finished

Spec == TablesInit /\ [][Next]_vars

---------------------------------------------------------------------------
(* Properties.                                                             *)

\* A generated version keeps what its fields promise, whatever the user edited
\* after the profile: bounds that are not inverted hold for every known number,
\* choices for every cell, and a field typed as a name, an email or free text
\* holds nothing of the sample.  Exactly two things escape: an INTEGER over a
\* column with missing numbers holds INT64_MIN in their place, and a column the
\* profile typed as modelled is copied whatever the user calls it.  A column
\* of booleans with nulls, whose choices are the strings of its values, is
\* flattened to one of them.
SyntheticConforms ==
  stage = "generated" =>
    /\ DOMAIN parent.table = DOMAIN fields
    /\ \A name \in DOMAIN fields :
         LET f == fields[name]  c == f.constraints  cells == Range(parent.table[name].cells)
             sampled == name \in DOMAIN sample
         IN /\ Bounded(f) /\ {"min", "max"} \subseteq DOMAIN c /\ c.min <= c.max =>
                 \A v \in cells \ Missing :
                   \/ v \in c.min..c.max
                   \/ v = Wrapped /\ f.type = "integer" /\ sampled /\ profile[name].nullable
            /\ OneOf(f) => cells \subseteq c.choices \cup {MostFrequent(c)}
            /\ f.type \notin Modeled /\ sampled /\ profile[name].type \notin Modeled =>
                 cells \cap Range(sample[name].cells) = {}
            /\ OneOf(f) /\ sampled /\ Known(sample[name].cells) \cap Bools # {} =>
                 Cardinality(cells) = 1

\* A perturbed version is the parent with what the spec names changed: the same
\* columns and number of rows; under bias every row is a whole row of the
\* parent; otherwise a column that is not targeted is untouched, intensity zero
\* changes nothing of a table unless a drift relabels it, and a null of a table
\* stays a null unless nulls are what is injected or relabelled.
PerturbationKeepsRows ==
  stage = "perturbed" =>
    LET old == parent.table IN
    /\ DOMAIN child = DOMAIN old
    /\ \A name \in DOMAIN old : Len(child[name].cells) = Len(old[name].cells)
    /\ spec.family = "bias" =>
         \A r \in 1..Rows(old) : \E q \in 1..Rows(old) :
           \A name \in DOMAIN old : child[name].cells[r] = old[name].cells[q]
    /\ spec.family # "bias" =>
         \A name \in DOMAIN old :
           /\ spec.targets # <<>> /\ name \notin Range(spec.targets) => child[name] = old[name]
           /\ spec.intensity = "zero" /\ spec.kind # "concept" /\ parent.modality = "tabular" =>
                child[name] = old[name]
           /\ parent.modality = "tabular" /\ spec.family # "edge_case" /\ spec.kind # "concept" =>
                \A r \in 1..Rows(old) : old[name].cells[r] = None => child[name].cells[r] = None
=============================================================================
