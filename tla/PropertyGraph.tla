---------------------------- MODULE PropertyGraph ---------------------------
(***************************************************************************)
(* The labelled property graph of anodyne_graph and its two checkers: the  *)
(* OntologyConstraintValidator that runs at generation time and the        *)
(* OntologyConsistencyGraphJudge that scores the graph later.              *)
(*                                                                         *)
(* An ontology is a record of sequences, as in models.py.  A graph is a    *)
(* record of nodes, a function from node ids to [type, properties] (ids    *)
(* are unique in every graph the code builds), and edges, a sequence of    *)
(* [id, type, source, target].  The id f"{type}:{n}" is the pair           *)
(* <<type, n>>.  A property value or bound is [kind, num]: what the        *)
(* checkers tell apart, with num in halves, so that a float in [0, 1) is 0 *)
(* or 1 and an integer is even; a numeral is a string that reads as a      *)
(* number, a text any other string.  A constraint of a property (min, max, *)
(* choices) is the empty set when it is not declared, else a singleton.    *)
(***************************************************************************)
EXTENDS Integers, SequencesExt

Null == [kind |-> "null", num |-> 0]
Text(n) == [kind |-> "text", num |-> n]
IntVal(n) == [kind |-> "int", num |-> 2 * n]
FloatVal(h) == [kind |-> "float", num |-> h]
BoolVal(n) == [kind |-> "bool", num |-> 2 * n]
Numeral(h) == [kind |-> "numeral", num |-> h]

\* No node or edge type of that name.
None == [name |-> "none"]

\* {**f, k: v}
With(f, k, v) == [x \in DOMAIN f \cup {k} |-> IF x = k THEN v ELSE f[x]]

First(s, name) ==
  LET i == SelectInSeq(s, LAMBDA x : x.name = name)
  IN IF i = 0 THEN None ELSE s[i]

\* {x.name: x for x in s}[name]: the last of that name.
Latest(s, name) ==
  LET i == SelectLastInSeq(s, LAMBDA x : x.name = name)
  IN IF i = 0 THEN None ELSE s[i]

\* GraphOntology.node_type and edge_type: the first of that name, or None.
NodeTypeOf(o, name) == First(o.node_types, name)
EdgeTypeOf(o, name) == First(o.edge_types, name)

\* The map {et.name: et.directed}: the last type of a name decides, and an
\* undeclared type is directed.
DirectedOf(o, name) ==
  LET i == SelectLastInSeq(o.edge_types, LAMBDA et : et.name = name)
  IN i = 0 \/ o.edge_types[i].directed

\* node.properties.get(p.name)
PropertyOf(node, p) ==
  IF p.name \in DOMAIN node.properties THEN node.properties[p.name] ELSE Null

\* isinstance(v, (int, float)) and not a bool.
Numeric(v) == v.kind \in {"int", "float"}
Numbers(bounds) == {b \in bounds : Numeric(b)}

Below(v, bounds) == \E lo \in bounds : v.num < lo.num
Above(v, bounds) == \E hi \in bounds : v.num > hi.num

-----------------------------------------------------------------------------
\* OntologyConstraintValidator: the violations it lists, as pairs of subject
\* and kind.

EdgeViolation(g, o, e) ==
  LET et == EdgeTypeOf(o, e.type)
  IN IF et = None THEN "unknown_edge_type"
     ELSE IF {e.source, e.target} \subseteq DOMAIN g.nodes
          THEN IF g.nodes[e.source].type = et.source_type /\ g.nodes[e.target].type = et.target_type
               THEN "fits" ELSE "domain_range"
          ELSE "dangling_edge"

\* _check_edges
EdgeViolations(g, o) ==
  {i \in DOMAIN g.edges : EdgeViolation(g, o, g.edges[i]) # "fits"}

\* float(v) returns: a boolean and a numeral are numbers, too.
FloatReads(v) == v.kind \notin {"text", "null"}

\* The kinds _check_properties and _check_numeric_range append for one value;
\* the bounds are read with float().
PropertyViolation(v, p) ==
  LET numeric == p.datatype \in {"integer", "float"}
      breach == [missing_required |-> v = Null /\ ~p.nullable,
                 not_in_choices |-> v # Null /\ \E c \in p.choices : c # {} /\ v \notin c,
                 wrong_type |-> numeric /\ v.kind = "text",
                 below_min |-> numeric /\ FloatReads(v) /\ Below(v, p.min),
                 above_max |-> numeric /\ FloatReads(v) /\ Above(v, p.max)]
  IN {k \in DOMAIN breach : breach[k]}

\* _check_properties
NodeViolations(g, o, id) ==
  LET node == g.nodes[id]
      nt == NodeTypeOf(o, node.type)
  IN IF nt = None THEN {<<"type", "unknown_node_type">>}
     ELSE UNION {{<<nt.properties[j].name, k>> :
                    k \in PropertyViolation(PropertyOf(node, nt.properties[j]), nt.properties[j])} :
                   j \in DOMAIN nt.properties}

OutDegree(g, etype, src) ==
  Cardinality({i \in DOMAIN g.edges : g.edges[i].type = etype /\ g.edges[i].source = src})

\* _check_cardinality, for a function from relation names to max_out_per_source.
CardinalityViolations(g, card) ==
  {p \in (DOMAIN card) \X {g.edges[i].source : i \in DOMAIN g.edges} :
     OutDegree(g, p[1], p[2]) > card[p[1]]}

\* check(...).conforms and check(...).count
ViolationCount(g, o, card) ==
  Cardinality(EdgeViolations(g, o))
    + Cardinality(UNION {{<<id, x>> : x \in NodeViolations(g, o, id)} : id \in DOMAIN g.nodes})
    + Cardinality(CardinalityViolations(g, card))
-----------------------------------------------------------------------------
\* OntologyConsistencyGraphJudge.compute.

\* _datatype_ok
DatatypeOk(v, p) ==
  CASE p.datatype = "boolean" -> v.kind = "bool"
    [] p.datatype = "integer" -> v.kind = "int"
    [] p.datatype = "float" -> Numeric(v)
    [] p.datatype \in {"string", "datetime"} -> v.kind \in {"text", "numeral"}
    [] OTHER -> TRUE

\* Mutant: the judge forgets the upper bound.
ConstraintsOkNoMax(v, p) ==
  /\ \A c \in p.choices : v \in c
  /\ Numeric(v) => ~Below(v, Numbers(p.min))

\* _constraints_ok: a bound counts only when it is a number.
ConstraintsOk(v, p) ==
  /\ \A c \in p.choices : v \in c
  /\ Numeric(v) => ~Below(v, Numbers(p.min)) /\ ~Above(v, Numbers(p.max))

JudgePasses(v, p) ==
  IF v = Null THEN p.nullable ELSE DatatypeOk(v, p) /\ ConstraintsOk(v, p)

JudgeFlagsNode(g, o, id) ==
  LET node == g.nodes[id]
      nt == NodeTypeOf(o, node.type)
  IN \/ nt = None
     \/ \E j \in DOMAIN nt.properties :
          ~JudgePasses(PropertyOf(node, nt.properties[j]), nt.properties[j])

JudgeFlagsEdge(g, o, e) ==
  LET et == EdgeTypeOf(o, e.type)
  IN ~ /\ et # None
       /\ {e.source, e.target} \subseteq DOMAIN g.nodes
       /\ g.nodes[e.source].type = et.source_type
       /\ g.nodes[e.target].type = et.target_type
-----------------------------------------------------------------------------
\* The undirected degree of _degree_index, and the in-degree.
InDegree(es, id) == Cardinality({i \in DOMAIN es : es[i].target = id})
OutEdges(es, id) == Cardinality({i \in DOMAIN es : es[i].source = id})
Degree(es, id) == InDegree(es, id) + OutEdges(es, id)

Dangling(g, e) == ~({e.source, e.target} \subseteq DOMAIN g.nodes)

Endpoints(es) == {es[i].source : i \in DOMAIN es} \cup {es[i].target : i \in DOMAIN es}

EdgeIdsUnique(es) == \A i, j \in DOMAIN es : es[i].id = es[j].id => i = j
=============================================================================
