----------------------------- MODULE EstateGates -----------------------------
(***************************************************************************)
(* What an emission asks of the estate around the declarations: the        *)
(* configuration and its translator table (framework/estate_config.py,     *)
(* estate.py), the routing of every occurrence to the translator that      *)
(* renders it (framework/routing.py, emit_products.py), and the structural *)
(* budgets of the models on disk (structure_gate.py).                      *)
(*                                                                         *)
(* A configuration is [adapters, final, labels, forbidden, table, layers]: *)
(* adapters maps a name to its kind, labels a label to the profiles it     *)
(* admits, forbidden a profile to the patterns it forbids, table a label   *)
(* to the translator of each token; layers are the declared interface      *)
(* paths.  A product is [label, landing, shape, steps, bound]: bound is    *)
(* what its fixture source names, "model" for the product's own model.     *)
(***************************************************************************)
EXTENDS Integers, Sequences, SequencesExt, FiniteSetsExt

CONSTANT None       \* nothing declared

-----------------------------------------------------------------------------
(* Translators *)

EngineAdapters == {"duckdb", "bigquery"}

\* The patterns a translator registers a capability for, and the shapes.
DbtSegments == {"data_filtering", "data_validation", "data_curation"}
DbtExpressions ==
    {"batch_transfer", "schema_transform", "calculated_fields", "data_enrichment",
     "data_aggregation"}
DbtPatterns == DbtSegments \cup DbtExpressions \cup {"data_publish", "checkpoint_retries"}
LandingPatterns == {"batch_ingestion", "data_validation", "data_publish", "checkpoint_retries"}
PublicationPatterns ==
    {"data_contracts", "schema_publish", "metadata_capture", "lineage_capture"}
Shapes == {"declared", "canonical", "data_vault", "dimensional", "ods"}

PatternIds == DbtPatterns \cup LandingPatterns \cup PublicationPatterns

Renders ==
    [dbt |-> DbtPatterns \cup Shapes, ingestion |-> LandingPatterns \cup {"declared"},
     publication |-> PublicationPatterns]

Translators == DOMAIN Renders

Capable(token, translator, adapter) ==
    token \in Renders[translator] /\ adapter \in EngineAdapters

-----------------------------------------------------------------------------
(* The configuration *)

\* load_estate_adapters, load_translator_table and the cross-checks of both with the policy.
ConfigurationOK(c) ==
    /\ \A kind \in {"reference", "deployment"} :
         \E name \in DOMAIN c.adapters : c.adapters[name] = kind
    /\ c.final \in DOMAIN c.adapters
    /\ DOMAIN c.adapters \subseteq EngineAdapters
    /\ DOMAIN c.table = DOMAIN c.labels
    /\ \A label \in DOMAIN c.table :
         /\ DOMAIN c.table[label] # {}
         /\ \A token \in DOMAIN c.table[label] :
              /\ c.table[label][token] \in Translators
              /\ \/ token \in Shapes
                 \/ /\ token \in PatternIds
                    /\ \E profile \in c.labels[label] : token \notin c.forbidden[profile]

\* The views of a canonical product lie under one path, which the estate has to declare
\* (_check_interface_boundaries).
InterfacePath == <<"models", "canonical">>

InterfaceOK(shape, layers) == shape = "canonical" => InterfacePath \in layers

-----------------------------------------------------------------------------
(* Routing *)

\* What is routed of a product: its steps, the checkpoint wrapper and its shape.
Occurrences(product) == product.steps \o <<"checkpoint_retries", product.shape>>

\* resolve_table_owners
RoutingRule(c, product) ==
    LET table == c.table[product.label]
        tokens == ToSet(Occurrences(product))
    IN  IF ~ tokens \subseteq DOMAIN table THEN "missing_translator_table_entry"
        ELSE IF \E token \in tokens : \E adapter \in DOMAIN c.adapters :
               ~Capable(token, table[token], adapter) THEN "missing_capability"
        ELSE "none"

Owner(c, product, token) == c.table[product.label][token]
ShapeOwner(c, product) == Owner(c, product, product.shape)

\* A product another translator renders has no occurrence routed to dbt.
MixedOwners(c, product) ==
    /\ ShapeOwner(c, product) # "dbt"
    /\ \E i \in DOMAIN Occurrences(product) :
         Owner(c, product, Occurrences(product)[i]) = "dbt"

\* _check_landing_binding: a model dbt renders reads another relation than itself, and a
\* relation that is landed outside of dbt is bound under the name its consumers read.
BindingRule(c, product) ==
    IF ~product.landing \/ product.bound = None THEN "none"
    ELSE IF ShapeOwner(c, product) = "dbt" /\ product.bound = "model" THEN "binding_is_the_model"
    ELSE IF ShapeOwner(c, product) # "dbt" /\ product.bound # "model" THEN "binding_not_the_model"
    ELSE "none"

\* render_product: dbt publishes what it renders, and writes its run boundary.
RenderingRule(c, product) ==
    IF /\ ShapeOwner(c, product) = "dbt"
       /\ \/ "data_publish" \notin ToSet(product.steps)
          \/ \E token \in {"data_publish", "checkpoint_retries"} :
               Owner(c, product, token) # "dbt"
    THEN "unowned_pattern" ELSE "none"

\* plan_estate and the rendering, for one product.
PlanRule(c, product) ==
    IF ~InterfaceOK(product.shape, c.layers) THEN "undeclared_interface"
    ELSE IF RoutingRule(c, product) # "none" THEN RoutingRule(c, product)
    ELSE IF MixedOwners(c, product) THEN "mixed_owners"
    ELSE IF BindingRule(c, product) # "none" THEN BindingRule(c, product)
    ELSE RenderingRule(c, product)

\* The steps the models of a product are rendered from.
RenderedSteps(c, product) ==
    IF ShapeOwner(c, product) # "dbt" THEN <<>>
    ELSE SelectSeq(product.steps,
                   LAMBDA p : Owner(c, product, p) = "dbt"
                                /\ p \in DbtSegments \cup DbtExpressions)

-----------------------------------------------------------------------------
(* The structural gate *)

\* A model is [path, config, refs, sizes]: path the directories it lies under, config what
\* it states of its materialisation, sizes what the other budgets measure of its statement,
\* identifiers and descriptions.  The project is a sequence of [under, materialized].

IsUnder(path, layer) == IsPrefix(layer, path)

\* _layer_materialisation: the deepest directory that states one, else a view.
Materialisation(model, project) ==
    LET stated == {i \in DOMAIN project : IsUnder(model.path, project[i].under)}
        deepest == CHOOSE i \in stated :
                     \A j \in stated : Len(project[j].under) <= Len(project[i].under)
    IN  IF model.config # None THEN model.config
        ELSE IF stated = {} THEN "view" ELSE project[deepest].materialized

IsView(models, project, name) ==
    name \in DOMAIN models /\ Materialisation(models[name], project) = "view"

\* Mutant of ViewDepth: a table below a view counts.
DepthOfRefs(models, project) ==
    LET depth[name \in DOMAIN models] ==
          LET below == {depth[r] : r \in models[name].refs \cap DOMAIN models}
          IN  IF models[name].refs \cap DOMAIN models = {}
              THEN IF IsView(models, project, name) THEN 1 ELSE 0
              ELSE Max(below) + (IF IsView(models, project, name) THEN 0 ELSE 1)
    IN  depth

\* view_depth: the views one statement expands.  A reference outside the tree is a table.
ViewDepth(models, project) ==
    LET depth[name \in DOMAIN models] ==
          IF ~IsView(models, project, name) THEN 0
          ELSE 1 + Max({0} \cup {depth[r] : r \in models[name].refs \cap DOMAIN models})
    IN  depth

\* A target is [adapter, stem, kind, budgets, exceptions], budgets a function from the
\* budgets it declares.
RequiredBudgets == {"max_view_chain_depth", "max_statement_bytes"}

\* load_structure_declarations
TargetsOK(targets) ==
    /\ \A i \in DOMAIN targets :
         LET target == targets[i] IN
         /\ target.adapter = target.stem
         /\ target.kind \in {"reference", "deployment", "lane"}
         /\ \A budget \in DOMAIN target.budgets : target.budgets[budget] >= 1
         /\ target.kind = "deployment" => RequiredBudgets \subseteq DOMAIN target.budgets
         /\ target.kind # "lane" => target.exceptions = {}
    /\ \E i \in DOMAIN targets : targets[i].kind = "deployment"

Within(target, budget, measured) ==
    budget \in DOMAIN target.budgets => measured <= target.budgets[budget]

\* check_structure.  A private view needs no boundary; every other budget binds it.
Offenses(targets, layers, models, project, private) ==
    {<<i, name>> \in (DOMAIN targets) \X (DOMAIN models) :
       LET target == targets[i] IN
       \/ /\ IsView(models, project, name)
          /\ name \notin private
          /\ ~ \E layer \in layers : IsUnder(models[name].path, layer)
          /\ ~ (target.kind = "lane" /\ name \in target.exceptions)
       \/ ~Within(target, "max_view_chain_depth", ViewDepth(models, project)[name])
       \/ \E budget \in DOMAIN models[name].sizes :
            ~Within(target, budget, models[name].sizes[budget])}

\* structural_gate: every adapter of the estate has its budgets, and nothing breaks one.
StructureOK(adapters, targets, layers, models, project, private) ==
    /\ \A adapter \in adapters : \E i \in DOMAIN targets : targets[i].stem = adapter
    /\ TargetsOK(targets)
    /\ Offenses(targets, layers, models, project, private) = {}
=============================================================================
