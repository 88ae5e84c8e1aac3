------------------------------ MODULE GraphQA -------------------------------
(***************************************************************************)
(* GraphRAGGenerator over a generated or perturbed graph: sample_paths     *)
(* walks the graph, _build asks one question per path, and the graph_qa    *)
(* task metrics check the fixture against the graph.  The language model   *)
(* only rephrases a question and is left out.                              *)
(***************************************************************************)
EXTENDS GraphPerturbation

CONSTANTS MinHops, MaxHops,  \* the bounds of a path
          Questions          \* num_questions

ASSUME HopsAssumption == MinHops \in Nat \ {0} /\ MaxHops \in Nat /\ MinHops <= MaxHops
ASSUME QuestionsAssumption == Questions \in Nat \ {0}

VARIABLES qa,     \* "idle", "sample", "walk", "ask", "done" or "failed"
          walk,   \* the walk in progress
          paths,  \* the distinct paths so far
          items   \* the items of the fixture

qaVars == <<qa, walk, paths, items>>
vars == <<genVars, ptbVars, qaVars>>

NoWalk == [hops |-> <<>>, at |-> <<>>, len |-> 0]

QaInit == qa = "idle" /\ walk = NoWalk /\ paths = <<>> /\ items = <<>>

Families == {"chained_relation", "aggregation_count", "existence_negation", "comparison"}

-----------------------------------------------------------------------------
\* pathfinder.py

\* build_adjacency: the hops <<edge id, neighbour>> out of a node.
Adjacent(id) ==
  LET es == {dataset.edges[i] : i \in {j \in DOMAIN dataset.edges : ~Dangling(dataset, dataset.edges[j])}}
  IN {<<e.id, e.target>> : e \in {f \in es : f.source = id}}
       \cup {<<e.id, e.source>> : e \in {f \in es : f.target = id /\ ~DirectedOf(spec.ontology, f.type)}}

Visited == {walk.hops[k][1] : k \in DOMAIN walk.hops} \cup {walk.at}
UsedEdges == {walk.hops[k][2] : k \in DOMAIN walk.hops}

\* Mutant: a node may be visited again.
CandidatesRevisit == {h \in Adjacent(walk.at) : h[1] \notin UsedEdges}

\* Hops to a node not visited over an edge not used.
Candidates == {h \in Adjacent(walk.at) : h[2] \notin Visited /\ h[1] \notin UsedEdges}

\* sample_paths raises when the graph is too small.  The history of the last
\* perturbation is not needed any more.
StartSampling ==
  /\ pc \in {"done", "perturbed"}
  /\ qa = "idle"
  /\ qa' = IF Cardinality(DOMAIN dataset.nodes) < MinHops + 1 \/ Len(dataset.edges) < MinHops
           THEN "failed" ELSE "sample"
  /\ parent' = EmptyGraph
  /\ job' = NoJob
  /\ UNCHANGED <<walk, paths, items, jobs>>

StartWalk(start, len) ==
  /\ qa = "sample"
  /\ Len(paths) < Questions
  /\ walk' = [hops |-> <<>>, at |-> start, len |-> len]
  /\ qa' = "walk"
  /\ UNCHANGED <<paths, items>>

Walk(hop) ==
  /\ qa = "walk"
  /\ Len(walk.hops) < walk.len
  /\ walk' = [walk EXCEPT !.hops = Append(@, <<walk.at, hop[1]>>), !.at = hop[2]]
  /\ UNCHANGED <<qa, paths, items>>

\* The walk ends at its length or without candidates; a short or a known path
\* is dropped.
EndWalk ==
  LET path == [hops |-> walk.hops, terminal |-> walk.at]
  IN /\ qa = "walk"
     /\ Len(walk.hops) = walk.len \/ Candidates = {}
     /\ paths' = IF Len(walk.hops) < MinHops \/ path \in ToSet(paths) THEN paths
                 ELSE Append(paths, path)
     /\ walk' = NoWalk
     /\ qa' = "sample"
     /\ UNCHANGED items

\* Enough paths, or max_attempts walks, whose number is left open; no path at
\* all raises.
EndSampling ==
  /\ qa = "sample"
  /\ qa' = IF paths = <<>> THEN "failed" ELSE "ask"
  /\ UNCHANGED <<walk, paths, items>>
-----------------------------------------------------------------------------
\* question_gen.py

\* edges_by_id[id]: the last edge of that id.
EdgeById(id) ==
  dataset.edges[SelectLastInSeq(dataset.edges, LAMBDA e : e.id = id)]

\* Mutant: an undirected relation is seen from its source only.
TypedNeighborsSourceOnly(id, rel) ==
  {<<i, dataset.edges[i].target>> :
     i \in {j \in DOMAIN dataset.edges : dataset.edges[j].type = rel /\ dataset.edges[j].source = id}}

\* _typed_neighbor_index, as pairs of an edge's position and the neighbour.
TypedNeighbors(id, rel) ==
  {<<i, dataset.edges[i].target>> :
     i \in {j \in DOMAIN dataset.edges : dataset.edges[j].type = rel /\ dataset.edges[j].source = id}}
  \cup
  {<<-i, dataset.edges[i].source>> :
     i \in {j \in DOMAIN dataset.edges : /\ dataset.edges[j].type = rel
                                         /\ dataset.edges[j].target = id
                                         /\ ~DirectedOf(spec.ontology, rel)}}

StartOf(path) == path.hops[1][1]
FirstRelation(path) == EdgeById(path.hops[1][2]).type
NodesOfPairs(S) == {x[2] : x \in S}

\* _existence_relation: the first relation of the path, or one the node lacks.
AskedRelations(path) ==
  {FirstRelation(path)} \cup
    {r \in {dataset.edges[i].type : i \in DOMAIN dataset.edges} : TypedNeighbors(StartOf(path), r) = {}}

\* _build: the items that may be made of a path.
Built(path, family) ==
  LET start == StartOf(path)
      end == path.terminal
      item(rel, answer, nodes) ==
        [path |-> path, family |-> family, relation |-> rel, answer |-> answer, nodes |-> nodes]
  IN CASE family = "chained_relation" -> {item("none", <<"node", end>>, {end})}
       [] family = "aggregation_count" ->
            LET r == FirstRelation(path)
                found == TypedNeighbors(start, r)
            IN {item(r, <<"count", Cardinality(found)>>, NodesOfPairs(found))}
       [] family = "existence_negation" ->
            {item(r, <<"exists", TypedNeighbors(start, r) # {}>>, NodesOfPairs(TypedNeighbors(start, r))) :
               r \in AskedRelations(path)}
       [] family = "comparison" ->
            LET d(id) == Degree(dataset.edges, id)
                more == {id \in {start, end} : d(id) >= d(start) /\ d(id) >= d(end)}
            IN {item("none", <<"more", more>>, more)}

\* One question per path; the families rotate in a random order.
Ask(family) ==
  LET n == Len(items) + 1
  IN /\ qa = "ask"
     /\ n <= Len(paths)
     /\ \A j \in DOMAIN items : n - j < 4 => items[j].family # family
     /\ \E item \in Built(paths[n], family) : items' = Append(items, item)
     /\ qa' = IF n = Len(paths) THEN "done" ELSE "ask"
     /\ UNCHANGED <<walk, paths>>

QaNext ==
  \/ \E start \in DOMAIN dataset.nodes : \E len \in MinHops..MaxHops : StartWalk(start, len)
  \/ \E hop \in Candidates : Walk(hop)
  \/ EndWalk
  \/ EndSampling
  \/ \E family \in Families : Ask(family)

-----------------------------------------------------------------------------
\* judges/task_metrics/graph_qa.py

\* _other_end
OtherEnd(e, id) ==
  IF e.source = id THEN {e.target} ELSE IF e.target = id THEN {e.source} ELSE {}

PathNodes(path) == {path.hops[k][1] : k \in DOMAIN path.hops} \cup {path.terminal}

EdgeKnown(id) == \E i \in DOMAIN dataset.edges : dataset.edges[i].id = id

\* _path_resolves
PathResolves(path) ==
  /\ \A k \in DOMAIN path.hops : EdgeKnown(path.hops[k][2])
  /\ PathNodes(path) \subseteq DOMAIN dataset.nodes

\* _path_retraverses: the nodes the walk can be at, at most one.
PathRetraverses(path) ==
  FoldLeft(LAMBDA at, hop : IF EdgeKnown(hop[2])
                            THEN UNION {OtherEnd(EdgeById(hop[2]), id) : id \in at} ELSE {},
           {StartOf(path)}, path.hops)
    = {path.terminal}

\* _answer_groundedness of one item.
Grounded(item) == item.nodes # {} /\ item.nodes \subseteq DOMAIN dataset.nodes

-----------------------------------------------------------------------------
\* Perturbation stops while a fixture is made: a fixture is made of one version.
Next ==
  \/ GenNext /\ UNCHANGED <<ptbVars, qaVars>>
  \/ qa = "idle" /\ PtbNext /\ UNCHANGED qaVars
  \/ StartSampling /\ UNCHANGED genVars
  \/ QaNext /\ UNCHANGED <<genVars, ptbVars>>

Init == GenInit /\ PtbInit /\ QaInit

Spec == Init /\ [][Next]_vars

-----------------------------------------------------------------------------
\* Properties.

\* Edge e carries hop k of the path, in a direction the ontology allows.
Carries(e, path, k) ==
  LET from == path.hops[k][1]
      to == IF k = Len(path.hops) THEN path.terminal ELSE path.hops[k + 1][1]
  IN /\ e.id = path.hops[k][2]
     /\ \/ e.source = from /\ e.target = to
        \/ e.target = from /\ e.source = to /\ ~DirectedOf(spec.ontology, e.type)

\* A fixture is about its graph.  Sampled paths are distinct and simple, have an
\* allowed length, and every hop is an edge taken in a direction the ontology
\* allows.  Every gold path resolves, and re-traverses to its terminal unless two
\* edges share an id (the ids of several shards collide); without dangling edges
\* every answer but "No" then names nodes of the graph.
FixtureIsReal ==
  /\ \A j \in DOMAIN paths :
       LET path == paths[j]
       IN /\ Len(path.hops) \in MinHops..MaxHops
          /\ Cardinality(PathNodes(path)) = Len(path.hops) + 1
          /\ \A k \in DOMAIN path.hops : \E e \in ToSet(dataset.edges) : Carries(e, path, k)
  /\ \A j, k \in DOMAIN paths : paths[j] = paths[k] => j = k
  /\ \A j \in DOMAIN items : PathResolves(items[j].path)
  /\ EdgeIdsUnique(dataset.edges) =>
       \A j \in DOMAIN items :
         /\ PathRetraverses(items[j].path)
         /\ \/ \E e \in ToSet(dataset.edges) : Dangling(dataset, e)
            \/ Grounded(items[j])
            \/ items[j].answer = <<"exists", FALSE>>

\* Answers and paths come from two indices of the graph: no item denies a
\* relation that some path of the fixture follows from the same node.
NoContradiction ==
  \A j \in DOMAIN items : items[j].answer = <<"exists", FALSE>> =>
    \A k \in DOMAIN paths : \A h \in DOMAIN paths[k].hops :
      paths[k].hops[h][1] = StartOf(items[j].path) =>
        \A e \in ToSet(dataset.edges) : Carries(e, paths[k], h) => e.type # items[j].relation
=============================================================================
