--------------------------- MODULE GraphGeneration --------------------------
(***************************************************************************)
(* GraphHandler.generate_shards and assemble over the engines of           *)
(* anodyne_graph: the procedural topology, the hybrid and the LLM engine,  *)
(* each followed by the constraint layer of engines.generate_shard.        *)
(*                                                                         *)
(* networkx is external: a random graph is any set of node pairs, an LFR   *)
(* community map any map.  The model's reply is any sequence of items; an  *)
(* item that the code skips changes nothing.                               *)
(***************************************************************************)
EXTENDS PropertyGraph, TLC

CONSTANTS Specs,         \* the DatasetSpecs: ontology and directives
          Plans,         \* shard plans: sequences of [start, count]
          Keys,          \* natural keys the LLM gives its nodes
          Replies,       \* property values the LLM returns
          Limits,        \* directives["cardinality"]: max_out_per_source of relations
          MaxLlmEdges    \* bound on the edges of one LLM reply

\* model is directives["topology"]: "plain" stands for the models without
\* communities.  blocks is <<>> when not given.
ASSUME SpecsAssumption ==
  \A s \in Specs :
    /\ s.method \in {"topology", "hybrid", "llm"}
    /\ s.model \in {"plain", "sbm", "lfr"}
    /\ s.blocks \in Seq(Nat \ {0})
    /\ s.inject \in Nat
    /\ s.ontology.node_types # <<>>

\* What plan_shards returns: shards that follow each other, none empty unless
\* it is the only one.
ASSUME PlansAssumption ==
  \A p \in Plans :
    /\ p \in Seq([start : Nat, count : Nat]) \ {<<>>}
    /\ \A i \in 2..Len(p) : p[i].start = p[i - 1].start + p[i - 1].count
    /\ Len(p) > 1 => \A i \in DOMAIN p : p[i].count > 0

\* What int() and float() both take, other than a boolean.
IsBound(b) ==
  /\ b.kind \in {"int", "float", "numeral"}
  /\ b.num \in Int
  /\ b.kind # "float" => b.num % 2 = 0

\* Types and relations do not have the names this model gives to what is not
\* there, and a property has at most one bound of a sort.
ASSUME OntologiesAssumption ==
  \A s \in Specs :
    LET nts == s.ontology.node_types  ets == s.ontology.edge_types
    IN /\ nts \in Seq(ToSet(nts)) /\ ets \in Seq(ToSet(ets))
       /\ \A i \in DOMAIN nts : nts[i].name # "none"
       /\ \A i \in DOMAIN ets : ets[i].name # "none" /\ ets[i].target_type # "__missing__"
       /\ \A i \in 1..Len(nts) : \A j \in DOMAIN nts[i].properties :
            LET p == nts[i].properties[j]
            IN /\ \A b \in p.min \cup p.max : IsBound(b)
               /\ \A x, y \in p.min : x = y
               /\ \A x, y \in p.max : x = y

VARIABLES spec,    \* the DatasetSpec
          plan,    \* the shards handed to generate_shards
          pc,
          shard,   \* the graph of the shard under construction
          store,   \* the uploaded shards, each with its metrics
          dataset  \* the assembled artifact

genVars == <<spec, plan, pc, shard, store, dataset>>

EmptyGraph == [nodes |-> <<>>, edges |-> <<>>]

GenInit ==
  /\ spec \in Specs
  /\ plan \in Plans
  /\ pc = "engine"
  /\ shard = EmptyGraph
  /\ store = <<>>
  /\ dataset = EmptyGraph

Current == plan[Len(store) + 1]

\* n = max(1, count)
Budget(share) == IF share.count < 1 THEN 1 ELSE share.count

-----------------------------------------------------------------------------
\* Property values.

\* _synthesize of the LLM engine: it reads no bounds.
LlmSynthesized(p) ==
  IF p.choices \ {{}} # {} THEN UNION p.choices
  ELSE CASE p.datatype = "integer" -> {IntVal(0), IntVal(999)}
         [] p.datatype = "float" -> {FloatVal(0), FloatVal(1)}
         [] p.datatype = "boolean" -> {BoolVal(0), BoolVal(1)}
         [] OTHER -> {Text(0)}

\* int() of a number in halves: towards zero.
Trunc(h) == IF h < 0 THEN -((-h) \div 2) ELSE h \div 2

Low(p) == IF p.min = {} THEN 0 ELSE Trunc((CHOOSE lo \in p.min : TRUE).num)
High(p) == IF p.max = {} THEN 1000 ELSE Trunc((CHOOSE hi \in p.max : TRUE).num)

\* synthesize of the other engines: integers from [low, max(high, low + 1)).
Synthesized(p) ==
  IF p.choices \ {{}} # {} \/ p.datatype # "integer" THEN LlmSynthesized(p)
  ELSE {IntVal(Low(p)), IntVal(IF High(p) > Low(p) + 1 THEN High(p) - 1 ELSE Low(p))}

\* fake_pii: always a string.
FakePii == Text(7)

\* The string "true".
TrueText == Text(-3)

\* coerce: numbers and booleans are cast, and so is a numeral where int() or
\* float() takes it; any other string stays, or is compared with "true".
Coerced(v, datatype) ==
  CASE datatype = "integer" /\ v.kind \in {"float", "bool"} -> IntVal(Trunc(v.num))
    [] datatype = "integer" /\ v.kind = "numeral" /\ v.num % 2 = 0 -> IntVal(v.num \div 2)
    [] datatype = "float" /\ v.kind \in {"int", "bool", "numeral"} -> FloatVal(v.num)
    [] datatype = "boolean" ->
         BoolVal(IF v = TrueText \/ (v.kind \in {"int", "float", "bool"} /\ v.num # 0) THEN 1 ELSE 0)
    [] OTHER -> v

\* props[prop.name] = ..., property after property: the last of a name stays.
LastOfName(ps, j) == \A i \in DOMAIN ps : ps[i].name = ps[j].name => i <= j

\* The property maps a node of type nt may get, values[j] being those of its
\* j-th property.
PropertyMaps(nt, values) ==
  LET names == {nt.properties[j].name : j \in DOMAIN nt.properties}
  IN {f \in [names -> UNION Range(values)] :
        \A j \in DOMAIN values :
          LastOfName(nt.properties, j) => f[nt.properties[j].name] \in values[j]}

\* synthesize_node_properties
TopologyValues(p) == IF p.pii THEN {FakePii} ELSE Synthesized(p)

TopologyMaps(nt) ==
  PropertyMaps(nt, [j \in DOMAIN nt.properties |-> TopologyValues(nt.properties[j])])

\* _node_properties of the LLM engine: PII is faked whatever the model gave.
LlmValues(p) ==
  IF p.pii THEN {FakePii}
  ELSE {Coerced(v, p.datatype) : v \in Replies \ {Null}} \cup LlmSynthesized(p)

LlmMaps(nt) == PropertyMaps(nt, [j \in DOMAIN nt.properties |-> LlmValues(nt.properties[j])])
-----------------------------------------------------------------------------
\* ProceduralTopologyGenerator.generate

SeqSum(s) == FoldLeft(LAMBDA x, y : x + y, 0, s)

\* _sbm_sizes
SbmSizes(blocks, n) ==
  IF blocks # <<>> THEN blocks
  ELSE LET b == IF n < 3 THEN n ELSE 3
       IN [i \in 1..b |-> (n \div b) + (IF i <= n % b THEN 1 ELSE 0)]

\* Node count of build_topology
TopologySize(n) == IF spec.model = "sbm" THEN SeqSum(SbmSizes(spec.blocks, n)) ELSE n

\* The block of node i.
BlockOf(sizes, i) ==
  CHOOSE b \in DOMAIN sizes :
    /\ SeqSum(SubSeq(sizes, 1, b - 1)) <= i
    /\ i < SeqSum(SubSeq(sizes, 1, b))

\* names[c % len(names)]
TypeAt(c) == spec.ontology.node_types[(c % Len(spec.ontology.node_types)) + 1].name

\* Community ids in order of first appearance, as uniq.setdefault numbers them.
Communities(n) ==
  {c \in [0..(n - 1) -> 0..(n - 1)] :
     \A i \in 0..(n - 1) : c[i] = 0 \/ \E j \in 0..(i - 1) : c[j] >= c[i] - 1}

\* assign_node_types, for count rows; LFR takes any community map.
Assignments(count) ==
  LET n == TopologySize(count)
      nodes == 0..(n - 1)
  IN CASE spec.model = "sbm" ->
            LET sizes == SbmSizes(spec.blocks, count)
            IN {[i \in nodes |-> TypeAt(BlockOf(sizes, i) - 1)]}
       [] spec.model = "lfr" -> {[i \in nodes |-> TypeAt(c[i])] : c \in Communities(n)}
       [] OTHER -> {[i \in nodes |-> TypeAt(i)]}

\* Mutant: ids start at 0 in every shard.
ShardLocalIds(start, types) == [i \in DOMAIN types |-> <<types[i], i>>]

\* f"{ntype}:{start_index + i}"
NodeIds(start, types) == [i \in DOMAIN types |-> <<types[i], start + i>>]

\* _edge_type_index: the first edge type declared from a to b, or undirected
\* from b to a.
EdgeIndex(a, b) ==
  LET ets == spec.ontology.edge_types
      i == SelectInSeq(ets, LAMBDA et :
             \/ et.source_type = a /\ et.target_type = b
             \/ ~et.directed /\ et.source_type = b /\ et.target_type = a)
  IN IF i = 0 THEN None ELSE ets[i]

\* graph.edges(): every pair once, the earlier node first.  The order only
\* numbers the edges; one stands for all.
EdgeOrder(pairs) == SetToSeq(pairs)

SameSignature(e, f) == e.type = f.type /\ e.source = f.source /\ e.target = f.target

\* edges.append with id f"{name}:{len(edges)}", unless the signature was seen.
AddEdge(es, type, source, target) ==
  LET e == [id |-> <<type, Len(es)>>, type |-> type, source |-> source, target |-> target]
  IN IF \E i \in DOMAIN es : SameSignature(es[i], e) THEN es ELSE Append(es, e)

\* Mutant: a reverse match keeps the orientation of the pair.
MapEdgeUnswapped(es, ids, types, u, v) ==
  LET forward == EdgeIndex(types[u], types[v])
      reverse == EdgeIndex(types[v], types[u])
  IN IF forward # None THEN AddEdge(es, forward.name, ids[u], ids[v])
     ELSE IF reverse # None THEN AddEdge(es, reverse.name, ids[u], ids[v])
     ELSE es

\* One iteration of map_edges.
MapEdge(es, ids, types, u, v) ==
  LET forward == EdgeIndex(types[u], types[v])
      reverse == EdgeIndex(types[v], types[u])
  IN IF forward # None THEN AddEdge(es, forward.name, ids[u], ids[v])
     ELSE IF reverse # None THEN AddEdge(es, reverse.name, ids[v], ids[u])
     ELSE es

MapEdges(ids, types, pairs) ==
  FoldLeft(LAMBDA es, p : MapEdge(es, ids, types, p[1], p[2]), <<>>, EdgeOrder(pairs))

Pairs(n) == {p \in (0..(n - 1)) \X (0..(n - 1)) : p[1] < p[2]}

NodesOf(ids, types, maps) ==
  [id \in {ids[i] : i \in DOMAIN ids} |->
     LET i == CHOOSE i \in DOMAIN ids : ids[i] = id
     IN [type |-> types[i], properties |-> maps[types[i]]]]

\* A node is built from the last node type of its name (type_by_type_name),
\* where the checkers look up the first.  The property maps are drawn once per
\* type, not once per node.
GenerateTopology ==
  /\ pc = "engine"
  /\ spec.method \in {"topology", "hybrid"}
  /\ \E types \in Assignments(Budget(Current)) :
     \E pairs \in SUBSET Pairs(TopologySize(Budget(Current))) :
     \E maps \in [{types[i] : i \in DOMAIN types} ->
                    UNION {TopologyMaps(spec.ontology.node_types[k]) :
                             k \in DOMAIN spec.ontology.node_types}] :
       LET ids == NodeIds(Current.start, types)
       IN /\ \A t \in DOMAIN maps : maps[t] \in TopologyMaps(Latest(spec.ontology.node_types, t))
          /\ shard' = [nodes |-> NodesOf(ids, types, maps),
                       edges |-> MapEdges(ids, types, pairs)]
  /\ pc' = IF spec.method = "hybrid" THEN "fill" ELSE "constrain"
  /\ UNCHANGED <<spec, plan, store, dataset>>

-----------------------------------------------------------------------------
\* HybridGraphGenerator._fill: the properties that are neither PII nor choices
\* take the model's value, coerced.  A row gives one value to all of them; the
\* rows of a type go to its nodes in turn, cycling; Null is a row that is no object.

\* _fillable_props: of the node types of one name, the last that has any.
FillableNames(nt) ==
  {nt.properties[j].name :
     j \in {k \in DOMAIN nt.properties : ~nt.properties[k].pii /\ nt.properties[k].choices \ {{}} = {}}}

FillableOf(type) ==
  LET nts == SelectSeq(spec.ontology.node_types, LAMBDA nt : FillableNames(nt) # {})
      nt == Latest(nts, type)
  IN IF nt = None THEN {} ELSE FillableNames(nt)

\* dtype_of[type, name]: the last declaration.
DatatypeOf(type, name) ==
  LET nts == SelectSeq(spec.ontology.node_types, LAMBDA nt : First(nt.properties, name) # None)
  IN Latest(Latest(nts, type).properties, name).datatype

\* The ordinal of a node among those of its type.
Ordinal(id) ==
  Cardinality({m \in DOMAIN shard.nodes : shard.nodes[m].type = shard.nodes[id].type /\ m[2] < id[2]})

ApplyRow(node, v) ==
  LET filled == IF v = Null THEN {} ELSE FillableOf(node.type)
  IN [node EXCEPT !.properties =
        [name \in DOMAIN node.properties \cup filled |->
           IF name \in filled THEN Coerced(v, DatatypeOf(node.type, name))
           ELSE node.properties[name]]]

Fill ==
  /\ pc = "fill"
  /\ \E rows \in [{shard.nodes[id].type : id \in DOMAIN shard.nodes} -> BoundedSeq(Replies \cup {Null}, 2)] :
       shard' = [shard EXCEPT !.nodes =
         [id \in DOMAIN shard.nodes |->
            LET node == shard.nodes[id]
                r == rows[node.type]
            IN IF r = <<>> THEN node ELSE ApplyRow(node, r[(Ordinal(id) % Len(r)) + 1])]]
  /\ pc' = "constrain"
  /\ UNCHANGED <<spec, plan, store, dataset>>
-----------------------------------------------------------------------------
\* LLMGraphGenerator.generate

\* _build_nodes: one item.  A node without a key takes str(len(nodes)).
TakeNode(name, given) ==
  LET nt == NodeTypeOf(spec.ontology, name)
      nodes == shard.nodes
      key == IF given = {} THEN Cardinality(DOMAIN nodes) ELSE CHOOSE k \in given : TRUE
      id == <<nt.name, key>>
  IN /\ pc = "engine"
     /\ spec.method = "llm"
     /\ Cardinality(DOMAIN nodes) < Current.count
     /\ id \notin DOMAIN nodes
     /\ \E props \in LlmMaps(nt) :
          shard' = [shard EXCEPT !.nodes = With(@, id, [type |-> nt.name, properties |-> props])]
     /\ UNCHANGED <<spec, plan, pc, store, dataset>>

\* The end of the list of nodes; without any the engine raises.
EndNodes ==
  /\ pc = "engine"
  /\ spec.method = "llm"
  /\ pc' = IF shard.nodes = <<>> THEN "failed" ELSE "edges"
  /\ UNCHANGED <<spec, plan, shard, store, dataset>>

\* An unreadable reply: _extract_object raises.
BadReply ==
  /\ pc = "engine"
  /\ spec.method = "llm"
  /\ shard.nodes = <<>>
  /\ pc' = "failed"
  /\ UNCHANGED <<spec, plan, shard, store, dataset>>

\* _build_edges: one item whose endpoints resolve to nodes of the declared types.
TakeEdge(name, source, target) ==
  LET et == EdgeTypeOf(spec.ontology, name)
      src == <<et.source_type, source>>
      tgt == <<et.target_type, target>>
  IN /\ pc = "edges"
     /\ Len(shard.edges) < MaxLlmEdges
     /\ {src, tgt} \subseteq DOMAIN shard.nodes
     /\ shard' = [shard EXCEPT !.edges = AddEdge(@, et.name, src, tgt)]
     /\ UNCHANGED <<spec, plan, pc, store, dataset>>

EndEdges ==
  /\ pc = "edges"
  /\ pc' = "constrain"
  /\ UNCHANGED <<spec, plan, shard, store, dataset>>
-----------------------------------------------------------------------------
\* apply_constraints, and the upload of the shard.

\* inject_violations: edges from a template to nodes that do not exist.
Injected(g, templates) ==
  [g EXCEPT !.edges = @ \o
     [i \in DOMAIN templates |->
        [id |-> <<"__violation__", i - 1>>, type |-> g.edges[templates[i]].type,
         source |-> g.edges[templates[i]].source, target |-> <<"__missing__", i - 1>>]]]

\* The report is kept in the shard's metrics when the directives ask for a check
\* or inject violations; the model always keeps it.
StoreShard ==
  /\ pc = "constrain"
  /\ LET n == IF shard.edges = <<>> THEN 0 ELSE spec.inject
     IN \E templates \in [1..n -> DOMAIN shard.edges] :
          LET g == Injected(shard, templates)
          IN store' = Append(store,
               [graph |-> g, injected |-> n,
                violations |-> ViolationCount(g, spec.ontology, Limits)])
  /\ shard' = EmptyGraph
  /\ pc' = IF Len(store') = Len(plan) THEN "assemble" ELSE "engine"
  /\ UNCHANGED <<spec, plan, dataset>>
-----------------------------------------------------------------------------
\* GraphHandler.assemble: the first node of an id, the first edge of a signature.

MergeEdges(es, fs) ==
  FoldLeft(LAMBDA acc, f : IF \E i \in DOMAIN acc : SameSignature(acc[i], f) THEN acc
                           ELSE Append(acc, f), es, fs)

\* nodes.setdefault(node.id, node), shard after shard.
MergedNodes ==
  [id \in UNION {DOMAIN store[k].graph.nodes : k \in DOMAIN store} |->
     LET first == Min({k \in DOMAIN store : id \in DOMAIN store[k].graph.nodes})
     IN store[first].graph.nodes[id]]

Assemble ==
  /\ pc = "assemble"
  /\ dataset' = [nodes |-> MergedNodes,
                 edges |-> FoldLeft(LAMBDA es, s : MergeEdges(es, s.graph.edges), <<>>, store)]
  /\ pc' = "done"
  /\ UNCHANGED <<spec, plan, shard, store>>

GenNext ==
  \/ GenerateTopology
  \/ Fill
  \/ \E i \in DOMAIN spec.ontology.node_types :
     \E given \in {{}} \cup {{k} : k \in Keys} : TakeNode(spec.ontology.node_types[i].name, given)
  \/ EndNodes
  \/ BadReply
  \/ \E i \in DOMAIN spec.ontology.edge_types : \E s, t \in Keys \cup 0..1 :
       TakeEdge(spec.ontology.edge_types[i].name, s, t)
  \/ EndEdges
  \/ StoreShard
  \/ Assemble

-----------------------------------------------------------------------------
\* Properties.

\* The graphs the engines made.
Generated == {store[k].graph : k \in DOMAIN store} \cup {shard}

\* Every relation has one meaning and one orientation.
PlainOntology(o) ==
  /\ \A i \in DOMAIN o.edge_types : o.edge_types[i].directed
  /\ \A i, j \in DOMAIN o.edge_types : o.edge_types[i].name = o.edge_types[j].name => i = j

\* Shard-global ids: the assembled graph has every node of every shard, unless
\* explicit SBM blocks made a shard larger than its share of the plan.
NoNodeLost ==
  pc = "done" /\ spec.method # "llm" /\ (spec.model = "sbm" => spec.blocks = <<>>) =>
    Cardinality(DOMAIN dataset.nodes)
      = SeqSum([k \in DOMAIN store |-> Cardinality(DOMAIN store[k].graph.nodes)])

\* The minimum (0 by default), cut to an integer, is within the bounds.
Satisfiable(p) ==
  /\ \A lo \in p.min : lo.num <= 2 * Low(p)
  /\ \A hi \in p.max : 2 * Low(p) <= hi.num

\* Property p of a type is the one its nodes are built from.
EngineReads(o, type, p) ==
  LET ps == Latest(o.node_types, type).properties
  IN \E k \in DOMAIN ps : ps[k] = p /\ LastOfName(ps, k)

\* The integer properties the validator checks and the engine is able to serve.
Served(o, type, p) ==
  /\ p.datatype = "integer" /\ ~p.pii /\ p.choices = {}
  /\ Satisfiable(p)
  /\ EngineReads(o, type, p)

IntegersInRange(g, o) ==
  \A id \in DOMAIN g.nodes :
    LET type == g.nodes[id].type
        ps == NodeTypeOf(o, type).properties
    IN \A j \in DOMAIN ps :
         Served(o, type, ps[j]) => PropertyViolation(PropertyOf(g.nodes[id], ps[j]), ps[j]) = {}

\* What the engines emit is accepted by the validator that runs after them: the
\* only bad edges of a shard are the injected ones, and merging keeps that, also
\* when two shards have nodes of the same id.  The LLM engine keeps this for
\* every ontology; the topology engines for those whose relations are directed
\* and uniquely named.  The topology engine's integers keep their bounds, where
\* the cut minimum does and the engine reads the declaration the validator reads.
GraphConforms ==
  /\ (spec.method = "llm" \/ PlainOntology(spec.ontology)) =>
       /\ \A k \in DOMAIN store :
            LET g == store[k].graph
            IN EdgeViolations(g, spec.ontology)
                 = {i \in DOMAIN g.edges : i > Len(g.edges) - store[k].injected}
       /\ pc = "done" /\ spec.inject = 0 => EdgeViolations(dataset, spec.ontology) = {}
  /\ spec.method = "topology" => \A g \in Generated : IntegersInRange(g, spec.ontology)
=============================================================================
