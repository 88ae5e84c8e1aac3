------------------------------ MODULE MCGraph -------------------------------
(* Instance of the graph pipeline for TLC: four small ontologies. *)
EXTENDS GraphQA

Prop(name, datatype, nullable, pii, min, max, choices) ==
  [name |-> name, datatype |-> datatype, nullable |-> nullable, pii |-> pii,
   min |-> min, max |-> max, choices |-> choices]

Rel(name, source, target, directed) ==
  [name |-> name, source_type |-> source, target_type |-> target, directed |-> directed]

Age == Prop("age", "integer", FALSE, FALSE, {IntVal(1)}, {IntVal(3)}, {})
Debt == Prop("debt", "integer", FALSE, FALSE, {}, {IntVal(-1)}, {})
Tier == Prop("tier", "string", FALSE, FALSE, {}, {}, {{Text(1), Text(2)}})
Note == Prop("note", "string", TRUE, FALSE, {}, {}, {})
Share(nullable) == Prop("share", "integer", nullable, FALSE, {Numeral(2)}, {FloatVal(9)}, {})
Email == Prop("email", "string", FALSE, TRUE, {}, {}, {})

\* Directed, uniquely named relations.
Firm == [node_types |-> <<[name |-> "Person", properties |-> <<Age>>],
                          [name |-> "Company", properties |-> <<Email>>]>>,
         edge_types |-> <<Rel("WORKS_AT", "Person", "Company", TRUE),
                          Rel("KNOWS", "Person", "Person", TRUE)>>]

\* An undirected relation between two types.
Market == [node_types |-> <<[name |-> "Shop", properties |-> <<Note>>],
                            [name |-> "City", properties |-> <<>>]>>,
           edge_types |-> <<Rel("NEAR", "Shop", "City", FALSE),
                            Rel("LINK", "City", "City", FALSE)>>]

\* One relation name between several types, as an inferred ontology has.
Sample == [node_types |-> <<[name |-> "A", properties |-> <<Tier>>],
                            [name |-> "B", properties |-> <<Debt>>]>>,
           edge_types |-> <<Rel("REL", "A", "A", TRUE), Rel("REL", "A", "B", TRUE)>>]

\* A node type declared twice, as an edited ontology may, and bounds that are
\* not integers: only Share, at most 4.5, can be served.
Draft == [node_types |-> <<[name |-> "A", properties |->
                              <<Share(FALSE), Prop("rank", "integer", FALSE, FALSE, {Numeral(4)}, {}, {})>>],
                           [name |-> "B", properties |->
                              <<Prop("lot", "integer", FALSE, FALSE, {FloatVal(3)}, {Numeral(4)}, {})>>],
                           [name |-> "A", properties |->
                              <<Share(TRUE), Share(FALSE),
                                Prop("rank", "string", FALSE, FALSE, {}, {}, {})>>]>>,
          edge_types |-> <<Rel("OWNS", "A", "B", TRUE)>>]

Case(ontologies, method, models, blocks, injects) ==
  [ontology : ontologies, method : {method}, model : models, blocks : blocks, inject : injects]

MCSpecs ==
  LET all == {Firm, Market, Sample}
  IN Case(all, "topology", {"plain", "lfr"}, {<<>>}, {0, 1})
       \cup Case(all, "topology", {"sbm"}, {<<>>, <<2>>}, {0})
       \cup Case(all, "hybrid", {"plain"}, {<<>>}, {0})
       \cup Case({Draft}, "topology", {"plain"}, {<<>>}, {0})
       \cup Case({Draft}, "hybrid", {"plain"}, {<<>>}, {0})
       \cup Case({Sample}, "llm", {"plain"}, {<<>>}, {0})

Shards(counts) ==
  [i \in DOMAIN counts |-> [start |-> SeqSum(SubSeq(counts, 1, i - 1)), count |-> counts[i]]]

MCPlans == {Shards(<<3>>), Shards(<<1, 2>>), Shards(<<0>>)}
MCReplies == {IntVal(9)}
MCLimits == "KNOWS" :> 1
=============================================================================
