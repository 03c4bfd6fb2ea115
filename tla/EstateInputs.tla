---------------------------- MODULE EstateInputs ----------------------------
(***************************************************************************)
(* Inputs of the estate's gates for TLC: translator tables, products to    *)
(* route, model trees and structural budgets.                              *)
(***************************************************************************)
EXTENDS CompilerInputs

E == INSTANCE EstateGates

-----------------------------------------------------------------------------

Configuration(owners, layers) ==
    [adapters |-> ("duckdb" :> "reference" @@ "bigquery" :> "deployment"),
     final |-> "bigquery", labels |-> ("gold" :> {"serving"}), layers |-> layers,
     forbidden |-> ("serving" :> {"data_curation"}), table |-> ("gold" :> owners)]

\* Who a label's table may give each token to.
TableOf(validation, publish, checkpoint, shape, ingestion) ==
    "data_validation" :> validation @@ "data_publish" :> publish
      @@ "checkpoint_retries" :> checkpoint @@ "declared" :> shape
      @@ "batch_ingestion" :> ingestion @@ "data_contracts" :> "publication"
      @@ "data_filtering" :> "dbt"

Configurations ==
    {Configuration(TableOf(v, p, c, s, i), {E!InterfacePath}) :
       v \in {"dbt", "ingestion", "publication"}, p \in {"dbt", "ingestion"},
       c \in {"dbt", "ingestion"}, s \in {"dbt", "ingestion"}, i \in {"ingestion", "dbt"}}
    \cup {Configuration("declared" :> "dbt" @@ "canonical" :> "dbt" @@ "data_publish" :> "dbt"
                           @@ "checkpoint_retries" :> "dbt"
                           @@ "data_contracts" :> "publication", layers) :
            layers \in {{}, {E!InterfacePath}}}
    \cup {Configuration("declared" :> "dbt" @@ "data_publish" :> "dbt" @@ token :> translator, {}) :
            token \in {"checkpoint_retries", "data_curation", "else"},
            translator \in {"dbt", "else"}}

RoutedProducts ==
    {[label |-> "gold", landing |-> l, shape |-> shape, steps |-> steps, bound |-> bound] :
       l \in BOOLEAN, shape \in {"declared", "canonical"}, bound \in {None, "model", "extract"},
       steps \in {<<"batch_ingestion", "data_validation", "data_contracts", "data_publish">>,
                  <<"data_filtering", "data_validation", "data_contracts", "data_publish">>,
                  <<"data_contracts", "data_publish">>, <<"data_contracts">>}}

\* Models 1..3, each reading models of a lower number or a seed.
Model(path, config, refs, bytes) ==
    [path |-> path, config |-> config, refs |-> refs, sizes |-> "max_statement_bytes" :> bytes]

Trees ==
    {(1 :> a) @@ (2 :> b) @@ (3 :> c) :
       a \in {Model(<<"p", "i">>, m, {0}, n) : m \in {None, "table"}, n \in 1..2},
       b \in {Model(<<"p">>, m, r, 1) : m \in {None, "view"}, r \in SUBSET {1}},
       c \in {Model(<<"p", d>>, m, r, 1) :
                d \in {"i", "x"}, m \in {"view", "table"}, r \in SUBSET {1, 2}}}

Projects ==
    LET tables == [under |-> <<"p">>, materialized |-> "table"]
        views == [under |-> <<"p", "i">>, materialized |-> "view"]
    IN  {<<>>, <<tables, views>>}

Target(adapter, kind, depth, exceptions) ==
    [adapter |-> adapter, stem |-> adapter, kind |-> kind,
     budgets |-> IF depth = None THEN <<>>
                 ELSE "max_view_chain_depth" :> depth @@ "max_statement_bytes" :> 1,
     exceptions |-> exceptions]

TargetSets ==
    {<<Target("bigquery", "deployment", d, {}), Target("duckdb", "reference", e, {})>> :
       d \in {1, 2}, e \in {None, 1}}
    \cup {<<Target("bigquery", "deployment", 2, {}), Target("duckdb", "lane", None, {3})>>,
          <<Target("bigquery", "deployment", None, {}), Target("duckdb", "reference", 1, {})>>,
          <<Target("bigquery", "deployment", 2, {}), Target("duckdb", "reference", 1, {3})>>,
          <<Target("bigquery", "lane", 2, {}), Target("duckdb", "reference", 1, {})>>,
          <<Target("bigquery", "deployment", 2, {})>>}
=============================================================================
