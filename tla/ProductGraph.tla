---------------------------- MODULE ProductGraph ----------------------------
(***************************************************************************)
(* The product graph of an estate (ergasterion/framework/graph.py): contract  *)
(* edges, build order, generations, field lineage, and the coverage a finished *)
(* graph is refused without.  Entries are those of RelationRegistry; a rule of *)
(* a data_validation step carries reconcile, the contracts it reconciles to or *)
(* None.                                                                    *)
(***************************************************************************)
EXTENDS RelationRegistry

-----------------------------------------------------------------------------
(* Edges *)

EdgeSources(document) ==
    {document.sources[i] : i \in DOMAIN document.sources \ FixtureBindings(document)}

\* Everything one product reads from another, a fixture being an entry to the estate.
EdgeReads(document) ==
    {[kind |-> "source", contract |-> source.contract, relation |-> source.relation] :
        source \in EdgeSources(document)}
      \cup {[kind |-> "lookup", contract |-> Lookups(document)[i].contract,
             relation |-> Lookups(document)[i].relation] : i \in DOMAIN Lookups(document)}

EdgeRelation(entries, read) ==
    ResolveRelationName(PublishedRelations(entries[read.contract], read.contract),
                        read.relation)

\* _edges_for
EdgeRefusals(entries) ==
    UNION {{IF read.contract \notin DOMAIN entries THEN "missing_upstream_product"
            ELSE EdgeRelation(entries, read).rule : read \in EdgeReads(entries[p].document)} :
             p \in DOMAIN entries} \ {"none"}

Edges(entries) ==
    UNION {{[source |-> read.contract, target |-> p, kind |-> read.kind,
             relation |-> EdgeRelation(entries, read).relation] :
               read \in EdgeReads(entries[p].document)} : p \in DOMAIN entries}

-----------------------------------------------------------------------------
(* Order *)

Blockers(edges, product) == {e.source : e \in {x \in edges : x.target = product}}

\* Mutant of Unblocked: only what it is composed from blocks a product.
UnblockedBySources(edges, remaining, placed) ==
    {p \in remaining : Blockers({e \in edges : e.kind = "source"}, p) \subseteq placed}

Unblocked(edges, remaining, placed) ==
    {p \in remaining : Blockers(edges, p) \subseteq placed}

\* _topological_order: each round places every product nothing blocks, in name order.
\* A cycle leaves itself and all that reads from it, and no order.
TopologicalOrder(products, edges) ==
    LET round[n \in 0..Cardinality(products)] ==
          IF n = 0 THEN <<>>
          ELSE LET order == round[n - 1]
                   placed == ToSet(order)
               IN  order \o SetToSortSeq(Unblocked(edges, products \ placed, placed), <)
        order == round[Cardinality(products)]
    IN  [rule |-> IF ToSet(order) = products THEN "none" ELSE "product_graph_cycle",
         order |-> order]

\* _generation_of: depth, counted over the sources alone.
GenerationOf(entries, product) ==
    LET entry == entries[product]
        sources == entry.document.sources
        nonLanding == {i \in DOMAIN sources : /\ sources[i].fixture = None
                                              /\ entries[sources[i].contract].profile # "landing"}
    IN  IF entry.profile = "landing" THEN "landing"
        ELSE IF sources = <<>> THEN "unclassified_generation"
        ELSE IF Cardinality(nonLanding) >= 2 THEN "consolidating"
        ELSE IF Cardinality(nonLanding) = 1 THEN "later"
        ELSE "first"

Generations == {"landing", "first", "later", "consolidating"}

-----------------------------------------------------------------------------
(* Field lineage *)

Line(target, kind, from, source) ==
    [target |-> target, kind |-> kind, from |-> from, source |-> source]

\* One record for each column an expression reads, or one for the expression.
FromExpression(product, target, expr) ==
    IF expr.reads = {} THEN {Line(target, "expression", product, "text")}
    ELSE {Line(target, "field", product, column) : column \in expr.reads}

SourceLineage(product, source) ==
    {IF source.fixture # None
     THEN Line(source.conform[i].to, "field", product, source.conform[i].from)
     ELSE Line(source.conform[i].to, "contract", source.contract, source.conform[i].from) :
       i \in DOMAIN source.conform}

StepLineage(product, step) ==
    CASE step.pattern = "schema_transform" ->
           {Line(step.mapping[i].to, "field", product, step.mapping[i].from) :
              i \in {j \in DOMAIN step.mapping : step.mapping[j].to # None}}
      [] step.pattern = "calculated_fields" ->
           UNION {FromExpression(product, step.fields[i].name, step.fields[i].expr) :
                    i \in DOMAIN step.fields}
      [] step.pattern = "data_enrichment" ->
           UNION {{Line(name, "contract", step.lookups[i].contract, name) :
                     name \in ToSet(step.lookups[i].fields)} : i \in DOMAIN step.lookups}
      [] step.pattern = "data_aggregation" ->
           {Line(name, "field", product, name) : name \in ToSet(GroupNames(step))}
             \cup UNION {FromExpression(product, step.aggregates[i].name,
                                        step.aggregates[i].expr) : i \in DOMAIN step.aggregates}
      [] OTHER -> {}

StepDeclares(step) ==
    StepAdds(step) \cup (IF step.pattern = "data_aggregation" THEN ToSet(GroupNames(step)) ELSE {})

\* _composition_fields_for
Lineage(product, document) ==
    UNION {SourceLineage(product, document.sources[i]) : i \in DOMAIN document.sources}
      \cup UNION {StepLineage(product, document.steps[i]) : i \in DOMAIN document.steps}

DeclaredFields(document) ==
    UNION {StepDeclares(document.steps[i]) : i \in DOMAIN document.steps}

-----------------------------------------------------------------------------
(* The graph *)

\* _validations_for: a reconciliation names contracts the product reads as sources.
Reconciled(document) ==
    UNION {UNION {document.steps[i].rules[j].reconcile :
                    j \in {k \in DOMAIN document.steps[i].rules :
                             document.steps[i].rules[k].reconcile # None}} :
             i \in ValidationSteps(document)}

ReconcilesToSources(document) ==
    Reconciled(document) \subseteq {source.contract : source \in EdgeSources(document)}

\* The relations a translator keeps for itself: each under a product of the estate, or the
\* estate, and never one a product publishes.
AuxiliaryOK(entries, auxiliary) ==
    \A a \in auxiliary :
      /\ a.product \in DOMAIN entries \cup {"estate"}
      /\ \A p \in DOMAIN entries :
           a.relation \notin ToSet(PublishedRelations(entries[p], p))

\* build_product_graph
BuildProductGraph(entries, auxiliary) ==
    LET products == DOMAIN entries
        edges == Edges(entries)
        sorted == TopologicalOrder(products, edges)
        generation == [p \in products |-> GenerationOf(entries, p)]
        refused(rule) == [ok |-> FALSE, rule |-> rule]
    IN  IF EdgeRefusals(entries) # {} THEN
               refused(CHOOSE rule \in EdgeRefusals(entries) : TRUE)
        ELSE IF sorted.rule # "none" THEN refused(sorted.rule)
        ELSE IF \E p \in products : generation[p] = "unclassified_generation" THEN
               refused("unclassified_generation")
        ELSE IF \E p \in products : ~ReconcilesToSources(entries[p].document) THEN
               refused("reconciliation_reference")
        ELSE IF ~AuxiliaryOK(entries, auxiliary) THEN refused("auxiliary_relation")
        ELSE
               [ok |-> TRUE, rule |-> "none", order |-> sorted.order,
                generation |-> generation,
                relations |-> [p \in products |-> PublishedRelations(entries[p], p)],
                table |-> {p \in products : entries[p].checkpoint},
                edges |-> edges
                  \cup {[source |-> a.product, target |-> a.product, kind |-> "auxiliary",
                         relation |-> a.relation] :
                          a \in {x \in auxiliary : x.product # "estate"}},
                lineage |-> [p \in products |-> Lineage(p, entries[p].document)],
                declared |-> [p \in products |-> DeclaredFields(entries[p].document)]]

-----------------------------------------------------------------------------
(* Coverage *)

\* assert_product_graph_coverage
GraphCovers(graph) ==
    LET nodes == ToSet(graph.order)
    IN  /\ Len(graph.order) = Cardinality(nodes)
        /\ \A p \in nodes : graph.relations[p] # <<>> /\ graph.generation[p] \in Generations
        /\ \A e \in graph.edges : {e.source, e.target} \subseteq nodes
        /\ \A p \in nodes :
             /\ \A line \in graph.lineage[p] : line.kind = "contract" => line.from \in nodes
             /\ graph.declared[p] \subseteq {line.target : line \in graph.lineage[p]}

\* build_graph_description
Description(graph) ==
    [order |-> graph.order,
     members |-> [label \in Generations |->
                    SelectSeq(graph.order, LAMBDA p : graph.generation[p] = label)],
     relations |-> graph.relations,
     checkpoints |-> UNION {ToSet(graph.relations[p]) : p \in graph.table},
     edges |-> Cardinality(graph.edges)]

\* assert_description_coverage: the generations partition the products.
DescriptionCovers(description, graph) ==
    LET nodes == ToSet(graph.order)
        listed == FlattenSeq(<<description.members["landing"], description.members["first"],
                               description.members["later"],
                               description.members["consolidating"]>>)
    IN  /\ ToSet(description.order) = nodes /\ Len(description.order) = Cardinality(nodes)
        /\ ToSet(listed) = nodes /\ Len(listed) = Cardinality(nodes)
        /\ DOMAIN description.relations = nodes
        /\ \A p \in nodes : description.relations[p] # <<>>
        /\ description.edges = Cardinality(graph.edges)
=============================================================================
