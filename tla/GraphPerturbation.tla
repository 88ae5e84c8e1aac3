-------------------------- MODULE GraphPerturbation -------------------------
(***************************************************************************)
(* perturb_graph on the assembled graph, or on the output of an earlier    *)
(* perturbation: rewiring, dropout and ontology violations.  The random    *)
(* generator is a choice; intensity is in quarters.                        *)
(***************************************************************************)
EXTENDS GraphGeneration

CONSTANTS Intensities,   \* intensities of the requests, in quarters
          MaxJobs        \* bound on successive perturbations

ASSUME IntensitiesAssumption == Intensities \subseteq Int
ASSUME JobsAssumption == MaxJobs \in Nat

\* No node type or choice has the name of a violation.
ASSUME ViolationsAssumption ==
  \A s \in Specs : \A i \in 1..Len(s.ontology.node_types) :
    LET nt == s.ontology.node_types[i]
    IN /\ nt.name # "undeclared"
       /\ \A j \in DOMAIN nt.properties : \A c \in nt.properties[j].choices : Text(-1) \notin c

VARIABLES jobs,    \* perturbations so far
          parent,  \* the graph the last perturbation read
          job      \* history: what the last perturbation was asked and what it selected

ptbVars == <<jobs, parent, job>>

NoJob == [family |-> "none"]

PtbInit == jobs = 0 /\ parent = EmptyGraph /\ job = NoJob

Clamp(q) == IF q < 0 THEN 0 ELSE IF q > 4 THEN 4 ELSE q

\* _n_affected: int(round(...)), which rounds a half to the even neighbour.
NAffected(q, total) ==
  LET x == Clamp(q) * total
      base == x \div 4
      rest == x % 4
  IN IF rest > 2 \/ (rest = 2 /\ base % 2 = 1) THEN base + 1 ELSE base

\* _select_indices: k of the items.
Select(items, k) == {S \in SUBSET items : Cardinality(S) = k}

Retarget(es, targets) ==
  [i \in DOMAIN es |->
     LET e == es[i]
     IN IF i \in DOMAIN targets
        THEN [id |-> e.id, type |-> e.type, source |-> e.source, target |-> targets[i]] ELSE e]

\* _pick_different
PickDifferent(ids, e) ==
  LET others == ids \ {e.target}
  IN IF others \ {e.source} # {} THEN others \ {e.source}
     ELSE IF others # {} THEN others ELSE {e.target}

\* Mutant: the second edge is read after the first was written.
SwapInPlace(es, a, b) == [es EXCEPT ![a].target = es[b].target]

\* One target swap.
Swap(es, a, b) == [es EXCEPT ![a].target = es[b].target, ![b].target = es[a].target]

\* What every perturbation does around its family.
Perturbed(g, record) ==
  /\ pc \in {"done", "perturbed"}
  /\ jobs < MaxJobs
  /\ pc' = "perturbed"
  /\ jobs' = jobs + 1
  /\ parent' = dataset
  /\ dataset' = g
  /\ job' = record
  /\ UNCHANGED <<spec, plan, shard, store>>

\* _rewire
Rewire(q) ==
  LET es == dataset.edges
      ids == DOMAIN dataset.nodes
  IN \E S \in Select(DOMAIN es, NAffected(q, Len(es))) :
     \E targets \in [S -> ids \cup Endpoints(es)] :
       /\ \A i \in S : targets[i] \in PickDifferent(ids, es[i])
       /\ Perturbed([dataset EXCEPT !.edges = Retarget(es, targets)],
                    [family |-> "rewire", nodes |-> {}, edges |-> S])

\* The results of k swaps of two edges each.
Swapped(es, k) ==
  FoldLeft(LAMBDA F, n : UNION {{Swap(f, p[1], p[2]) :
                                   p \in {q \in (DOMAIN es) \X (DOMAIN es) : q[1] # q[2]}} : f \in F},
           {es}, [n \in 1..k |-> n])

\* _degree_preserving_swaps
RewireDegreePreserving(q) ==
  LET es == dataset.edges
      k == IF Len(es) < 2 THEN 0 ELSE NAffected(q, Len(es))
  IN \E f \in Swapped(es, k) :
       Perturbed([dataset EXCEPT !.edges = f],
                 [family |-> "degree_preserving", nodes |-> {}, edges |-> {}])

\* The entries of es at the positions I, in their order.
Entries(es, I) ==
  [k \in 1..Cardinality(I) |-> es[CHOOSE i \in I : Cardinality({j \in I : j <= i}) = k]]

DropNodes(g, drop) ==
  LET kept == DOMAIN g.nodes \ drop
  IN [nodes |-> [id \in kept |-> g.nodes[id]],
      edges |-> Entries(g.edges, {i \in DOMAIN g.edges :
                                    {g.edges[i].source, g.edges[i].target} \subseteq kept})]

DropEdges(es, drop) == Entries(es, DOMAIN es \ drop)

\* _dropout
Dropout(q, target) ==
  \E drop \in Select(DOMAIN dataset.nodes,
                     IF target = "edges" THEN 0 ELSE NAffected(q, Cardinality(DOMAIN dataset.nodes))) :
    LET g == IF target = "edges" THEN dataset ELSE DropNodes(dataset, drop)
    IN \E cut \in Select(DOMAIN g.edges,
                         IF target = "nodes" THEN 0 ELSE NAffected(q, Len(g.edges))) :
         Perturbed([g EXCEPT !.edges = DropEdges(@, cut)],
                   [family |-> "dropout", target |-> target, nodes |-> drop, edges |-> cut])

\* The properties _violate_node may break, and those of a sort of constraint.
Breakable(node) ==
  LET nt == NodeTypeOf(spec.ontology, node.type)
  IN IF nt = None THEN {} ELSE {p \in ToSet(nt.properties) : ~p.pii}

Ranged(ps) == {p \in ps : Numbers(p.max) # {} \/ Numbers(p.min) # {}}
Listed(ps) == {p \in ps : p.choices \ {{}} # {}}
Required(ps) == {p \in ps : ~p.nullable}
Typed(ps) == {p \in ps : p.datatype \in {"integer", "float", "boolean", "string", "datetime"}}

\* _range_violation: 1000 beyond a bound that is a number.
Shifted(b, n) == [kind |-> b.kind, num |-> b.num + 2 * n]
Beyond(p) ==
  IF Numbers(p.max) # {} THEN Shifted(CHOOSE hi \in Numbers(p.max) : TRUE, 1000)
  ELSE Shifted(CHOOSE lo \in Numbers(p.min) : TRUE, -1000)

\* _datatype_violation
WrongType(p) == IF p.datatype \in {"string", "datetime"} THEN IntVal(1234567) ELSE Text(-2)

SetProperty(node, p, v) == [type |-> node.type, properties |-> With(node.properties, p.name, v)]

Stripped(node, p) ==
  [type |-> node.type, properties |-> Restrict(node.properties, DOMAIN node.properties \ {p.name})]

\* _violate_node: a value out of range, else not a choice, else a missing one,
\* else of another datatype; a type without such a property is renamed.  Of
\* several properties the code takes the first by name; the order of names is
\* left open.
ViolatedNodes(node) ==
  LET ps == Breakable(node)
  IN IF Ranged(ps) # {} THEN {SetProperty(node, p, Beyond(p)) : p \in Ranged(ps)}
     ELSE IF Listed(ps) # {} THEN {SetProperty(node, p, Text(-1)) : p \in Listed(ps)}
     ELSE IF Required(ps) # {} THEN {Stripped(node, p) : p \in Required(ps)}
     ELSE IF Typed(ps) # {} THEN {SetProperty(node, p, WrongType(p)) : p \in Typed(ps)}
     ELSE {[type |-> "undeclared", properties |-> node.properties]}

\* No node's id: it has no number.
MissingEndpoint == <<"__missing_endpoint__">>

\* _violate_edge: the targets it may choose.
WrongTargets(nodes, e) ==
  LET et == EdgeTypeOf(spec.ontology, e.type)
      wrong == {id \in DOMAIN nodes : et # None /\ nodes[id].type # et.target_type}
  IN IF wrong # {} THEN wrong ELSE {MissingEndpoint}

\* _ontology_violation: the edges are repointed after the nodes were changed.
OntologyViolation(q) ==
  \E N \in Select(DOMAIN dataset.nodes, NAffected(q, Cardinality(DOMAIN dataset.nodes))) :
  \E S \in Select(DOMAIN dataset.edges, NAffected(q, Len(dataset.edges))) :
  \E broken \in [N -> UNION {ViolatedNodes(dataset.nodes[id]) : id \in N}] :
    LET nodes == [id \in DOMAIN dataset.nodes |-> IF id \in N THEN broken[id] ELSE dataset.nodes[id]]
    IN /\ \A id \in N : broken[id] \in ViolatedNodes(dataset.nodes[id])
       /\ \E targets \in [S -> UNION {WrongTargets(nodes, dataset.edges[i]) : i \in S}] :
            /\ \A i \in S : targets[i] \in WrongTargets(nodes, dataset.edges[i])
            /\ Perturbed([nodes |-> nodes, edges |-> Retarget(dataset.edges, targets)],
                         [family |-> "violation", nodes |-> N, edges |-> S])

PtbNext ==
  \E q \in Intensities :
    \/ Rewire(q)
    \/ RewireDegreePreserving(q)
    \/ \E target \in {"edges", "nodes", "both"} : Dropout(q, target)
    \/ OntologyViolation(q)

-----------------------------------------------------------------------------
\* Properties.

\* Degree-preserving rewiring keeps the in-degree and the out-degree of every
\* node, whatever the order and the overlap of its swaps.
DegreesPreserved ==
  job.family = "degree_preserving" =>
    \A id \in Endpoints(parent.edges) \cup Endpoints(dataset.edges) :
      /\ InDegree(dataset.edges, id) = InDegree(parent.edges, id)
      /\ OutEdges(dataset.edges, id) = OutEdges(parent.edges, id)

\* No bound is a string: the validator reads one that is, the judge does not.
NumericBounds(o) ==
  \A i \in 1..Len(o.node_types) : \A j \in DOMAIN o.node_types[i].properties :
    LET p == o.node_types[i].properties[j]
    IN \A b \in p.min \cup p.max : Numeric(b)

\* The ontology judge sees what it should: every node and edge that the
\* ontology-violation family selected, and whatever the generation-time
\* validator, written apart from it, flags, on nodes when no bound is a string.
JudgeCatchesViolations ==
  /\ job.family = "violation" =>
       /\ \A id \in job.nodes : JudgeFlagsNode(dataset, spec.ontology, id)
       /\ \A i \in job.edges : JudgeFlagsEdge(dataset, spec.ontology, dataset.edges[i])
  /\ \A g \in {shard, dataset} :
       /\ NumericBounds(spec.ontology) =>
            \A id \in DOMAIN g.nodes :
              NodeViolations(g, spec.ontology, id) # {} => JudgeFlagsNode(g, spec.ontology, id)
       /\ \A i \in DOMAIN g.edges :
            JudgeFlagsEdge(g, spec.ontology, g.edges[i]) <=> i \in EdgeViolations(g, spec.ontology)
=============================================================================
