--------------------------- MODULE CompilerInputs ---------------------------
(***************************************************************************)
(* Inputs of the declaration compiler for TLC: small compositions, estates,     *)
(* schedules, schema changes, records to resolve, shapes and declarations.       *)
(***************************************************************************)
EXTENDS Schedule, ProductBuild, TLC

G == INSTANCE ProductGraph

ScoreByDistance(left, right) ==
    IF Null \in {left["a"], right["a"]} THEN Null
    ELSE IF left["a"] = right["a"] THEN 2 ELSE 1

C == INSTANCE Curation WITH MatchScore <- ScoreByDistance

Serving ==
    [mandatory |-> {"data_contracts", "data_publish", "checkpoint_retries"},
     optional |-> {"data_validation"}, forbidden |-> {"batch_ingestion"},
     ordering |-> <<"data_validation", "data_contracts", "data_publish", "checkpoint_retries">>]

Small(token) == IF token = "A" THEN "a" ELSE IF token = "S" THEN "s" ELSE token
Tokens == {"a", "A", "b", "c", "d", "s", "S", "__", "."}

D == INSTANCE Declarations WITH
       Scalars <- {"int"}, ReferenceProfiles <- ("serving" :> Serving @@ "consolidation" :> Serving),
       Shapes <- {"declared"}, Staged <- {"data_validation"}, Unquotable <- {".", "newline"},
       Lower <- [t \in Tokens |-> Small(t)]

Sh == INSTANCE ShapeRelations WITH TimeTypes <- {"timestamp"}

-----------------------------------------------------------------------------
(* Inputs: compositions *)

Key(required) == G!Field("k", "int", required)
Text(name, required) == G!Field(name, "text", required)

\* The rows a source whose schema is `schema` can hold, keys from a small set.
RowsOf(schema, Values(_)) ==
    {row \in [G!FieldNames(schema) -> UNION {Values(n) : n \in G!FieldNames(schema)}] :
       \A i \in DOMAIN schema :
         /\ row[schema[i].name] \in Values(schema[i].name) \cup {Null}
         /\ schema[i].required => row[schema[i].name] # Null}

AtMostOne(S) == {<<>>} \cup {<<x>> : x \in S}

Source(schema, rows, conform) ==
    [schema |-> schema, rows |-> rows, conform |-> conform, expect |-> {},
     contract |-> 1, relation |-> None, fixture |-> None]

Document(sources, method, join, keys, steps) ==
    [sources |-> sources, method |-> method, join |-> join, keys |-> keys, steps |-> steps]

Opening(sources, method, join) == Document(sources, method, join, <<"k">>, <<>>)

SmallValues(name) == IF name = "k" THEN {1, 2, Null} ELSE {1, 3, Null}

FirstSchemas == {<<Key(TRUE), Text("a", r)>> : r \in BOOLEAN}
OtherSchemas ==
    FirstSchemas \cup {<<Text("a", r), Key(TRUE)>> : r \in BOOLEAN}
                 \cup {<<Text("a", TRUE), G!Field("c", "int", TRUE)>>}

Conforming(schema) ==
    IF "c" \in G!FieldNames(schema) THEN <<[from |-> "c", to |-> "k", type |-> "int"]>> ELSE <<>>

ValueRows(schema) ==
    AtMostOne(RowsOf(schema, LAMBDA n : SmallValues(IF n = "c" THEN "k" ELSE n)))

Unions ==
    UNION {{Opening(<<Source(a, ra, <<>>), Source(b, rb, Conforming(b))>>, "union", None) :
              ra \in ValueRows(a), rb \in ValueRows(b)} : a \in FirstSchemas, b \in OtherSchemas}

\* Sources of a merge: a row for each of some keys, and a field of their own.
KeyedSource(name, keyRequired, required, keys) ==
    Source(<<Key(keyRequired), Text(name, required)>>,
           [i \in 1..Cardinality(keys) |->
              ("k" :> G!SetToSeq(keys)[i]) @@ (name :> 1)], <<>>)

Merges ==
    {Opening(<<KeyedSource("a", TRUE, TRUE, x), KeyedSource("b", TRUE, r, y),
               KeyedSource("d", TRUE, TRUE, z)>>, "merge", join) :
       r \in BOOLEAN, x \in SUBSET {1, 2}, y \in SUBSET {1, 2}, z \in SUBSET {1, 2},
       join \in {"inner", "outer"}}
    \cup {Opening(<<KeyedSource("a", q, TRUE, x), KeyedSource("b", q, TRUE, y)>>, "merge", join) :
            q \in {FALSE}, x \in SUBSET {1, Null}, y \in SUBSET {1, Null},
            join \in {"inner", "outer", None}}

-----------------------------------------------------------------------------
(* Inputs: steps *)

Reads(names) == [kind |-> "column", reads |-> names, bare |-> names]
Counted == [kind |-> "count", reads |-> {}, bare |-> {}]
Highest(name) == [kind |-> "max", reads |-> {name}, bare |-> {}]

AsOfLookup ==
    [contract |-> 2, relation |-> None, on |-> {<<"k", "k">>}, fields |-> <<"v">>,
     no_match |-> "null", temporal |-> [as_of |-> "t", effective |-> "e"]]

Steps ==
    {[pattern |-> "schema_transform",
      mapping |-> <<[from |-> "a", to |-> "b", type |-> "text"]>>],
     [pattern |-> "schema_transform",
      mapping |-> <<[from |-> "t", to |-> "b", type |-> "int"],
                    [from |-> "a", to |-> None, type |-> None]>>],
     [pattern |-> "calculated_fields",
      fields |-> <<[name |-> "t", type |-> "int", expr |-> Reads({"a"})]>>],
     [pattern |-> "calculated_fields",
      fields |-> <<[name |-> "b", type |-> "int", expr |-> Reads({"k", "t"})]>>],
     [pattern |-> "data_enrichment", lookups |-> <<AsOfLookup>>],
     [pattern |-> "data_enrichment",
      lookups |-> <<[AsOfLookup EXCEPT !.temporal = None, !.fields = <<"v", "e">>]>>],
     [pattern |-> "data_aggregation", grain |-> <<"k">>, groups |-> <<>>,
      aggregates |-> <<[name |-> "n", type |-> "int", expr |-> Counted],
                       [name |-> "m", type |-> "int", expr |-> Highest("t")]>>]}

EventSchema == <<Key(TRUE), G!Field("t", "int", TRUE), Text("a", FALSE)>>
Event(k, t, a) == ("k" :> k) @@ ("t" :> t) @@ ("a" :> a)
Events == {<<Event(1, 2, Null)>>, <<Event(1, 2, 1), Event(1, 3, 1)>>,
           <<Event(1, 1, Null), Event(2, 2, 3)>>}

HistorySchema == <<Key(TRUE), G!Field("e", "int", TRUE), Text("v", TRUE)>>
Change(k, e, v) == ("k" :> k) @@ ("e" :> e) @@ ("v" :> v)
Histories == {<<>>} \cup {<<Change(1, 2, 1)>>, <<Change(1, 1, 1), Change(1, 2, 3)>>,
                          <<Change(1, 3, 3), Change(1, 2, 1), Change(2, 1, 1)>>}

References(history) == (2 :> [schema |-> HistorySchema, rows |-> history])

Chains == {<<s>> : s \in Steps} \cup {<<s, t>> : s, t \in Steps}

ComposedDocuments ==
    {Document(<<[Source(EventSchema, events, <<>>) EXCEPT !.expect = {"k", "t", "a"}]>>,
              None, None, <<>>, chain) : events \in Events, chain \in Chains}

-----------------------------------------------------------------------------
(* Inputs: estates *)

Fixture(name) == <<Key(TRUE), Text(name, TRUE)>>

Landing(name, suffixes) ==
    [profile |-> "landing", suffixes |-> suffixes, checkpoint |-> FALSE,
     document |-> Document(<<[Source(<<>>, <<>>, <<>>) EXCEPT !.contract = 10,
                                                             !.fixture = Fixture(name)]>>,
                           None, None, <<>>, <<>>)]

\* A landing product the ingestion side supplies the schema of.
Supplied(suffixes) ==
    [profile |-> "landing", suffixes |-> suffixes, checkpoint |-> FALSE,
     document |-> Document(<<>>, None, None, <<>>, <<>>)]

Reading(contract, relation) ==
    [contract |-> contract, relation |-> relation, fixture |-> None, conform |-> <<>>,
     expect |-> {}]

Enriching(contracts) ==
    IF contracts = {} THEN <<>>
    ELSE <<[pattern |-> "data_enrichment",
            lookups |-> [i \in 1..Cardinality(contracts) |->
              [contract |-> G!SetToSeq(contracts)[i], relation |-> None, on |-> {<<"k", "k">>},
               fields |-> <<"k">>, no_match |-> "null", temporal |-> None]]]>>

Summing ==
    <<[pattern |-> "data_aggregation", grain |-> <<"k">>, groups |-> <<>>,
       aggregates |-> <<[name |-> "n", type |-> "int", expr |-> Counted]>>]>>

Product(reads, lookups, relation, steps, suffixes) ==
    [profile |-> "integration", suffixes |-> suffixes, checkpoint |-> suffixes = <<None>>,
     document |-> Document([i \in 1..Cardinality(reads) |->
                              Reading(G!SetToSortSeq(reads, <)[i], relation)],
                           "merge", "outer", <<"k">>, Enriching(lookups) \o steps)]

Firsts == {Landing("a", <<None>>), Supplied(<<None>>), Supplied(<<"x">>)}

Others(p) ==
    {Product(reads, lookups, None, steps, suffixes) :
       reads \in SUBSET ({1, 2, 3} \ {p}), lookups \in SUBSET ({1, 2, 3} \ {p}),
       steps \in IF p = 3 THEN {<<>>, Summing} ELSE {<<>>},
       suffixes \in {<<None>>, <<"x", "y">>}}
    \cup {Product({1}, {}, relation, <<>>, <<None>>) : relation \in {"x", "z"}}
    \cup {Landing("b", <<None>>)}

Estates ==
    {<<first, second, third>> : first \in Firsts, second \in Others(2), third \in Others(3)}

Landed(entries) ==
    IF entries[1].document.sources = <<>> THEN (1 :> Fixture("a")) ELSE <<>>

-----------------------------------------------------------------------------
(* Inputs: schedules *)

At(n) == {[base |-> <<n>>, step |-> 0]}
From(n, m) == {[base |-> <<n, m>>, step |-> 0]}
Every(n) == {[base |-> <<>>, step |-> n]}
Cron(minute, hour, day, month, weekday) ==
    [minute |-> minute, hour |-> hour, day |-> day, month |-> month, weekday |-> weekday]

\* The last has a day that its month lacks.
Crons ==
    {Cron(At(0), At(1), Star, Star, Star), Cron(At(1), From(1, 2), Star, Star, Star),
     Cron(Every(2), At(2), At(4), Star, Star), Cron(At(0), Star, At(2), Star, At(1)),
     Cron(At(0), At(0), Star, At(2), At(0)), Cron(Star, At(1), From(1, 3), Star, Star),
     Cron(At(0), At(3), Star, Star, Star), Cron(At(0), At(1), At(MonthDays), At(YearMonths), Star)}

\* No change; an hour that repeats, and one that is left out, in the middle of a day.
Zones ==
    {[change |-> 0, before |-> 0, after |-> 0], [change |-> 20, before |-> 1, after |-> -1],
     [change |-> 20, before |-> 0, after |-> 2]}

Schedules ==
    {[kind |-> "cron", expression |-> cron, zone |-> zone, start |-> start] :
       cron \in Crons, zone \in Zones, start \in {0, 9}}
    \cup {[kind |-> "interval", every |-> every, start |-> start] :
            every \in {1, 4}, start \in {0, 9}}

Horizon == 0..60

-----------------------------------------------------------------------------
(* Inputs: schema changes *)

Schemas ==
    LET fields == {G!Field(n, t, r) : n \in {"k", "a", "b"}, t \in {"int", "text"}, r \in BOOLEAN}
    IN  {<<f>> : f \in fields} \cup
        {<<f, g>> : f \in {x \in fields : x.name = "k"}, g \in {x \in fields : x.name = "a"}} \cup
        {<<f, g, h>> : f \in {x \in fields : x.name = "k" /\ x.type = "int"},
                       g \in {x \in fields : x.name = "a"}, h \in {x \in fields : x.name = "b"}}

\* A consumer of the one relation, which maps and aggregates what it read when it was
\* written.
ConsumersOf(schema) ==
    {Document(<<Source(<<>>, <<>>, <<>>)>>, None, None, <<>>, steps) :
       steps \in {<<>>} \cup {<<[pattern |-> "data_aggregation", grain |-> <<name>>,
                                groups |-> <<>>,
                                aggregates |-> <<[name |-> "n", type |-> "int",
                                                  expr |-> Counted]>>]>> :
                               name \in G!FieldNames(schema)}}

Reread(document, schema) ==
    G!DerivedFields([document EXCEPT !.sources[1].schema = schema], <<>>)

-----------------------------------------------------------------------------
(* The product *)

Item(id, key, part, value) == [id |-> id, key |-> key, part |-> part, value |-> value]

KeepsOne(part) == IF part = Null THEN Null ELSE part = 1
BreaksTwo(value) == IF value = Null THEN Null ELSE value = 2

AbortOnNull == [policy |-> "abort", threshold |-> 0, notNull |-> FALSE]
DeclaredValidations ==
    {AbortOnNull, [policy |-> "warn", threshold |-> 0, notNull |-> TRUE]}
    \cup {[policy |-> "quarantine", threshold |-> IF n THEN 40 ELSE 50, notNull |-> n] :
            n \in BOOLEAN}

FirstDelivery == <<Item(1, 1, 1, 1), Item(2, 1, 1, 2), Item(3, 2, Null, 1)>>
Deliveries == {FirstDelivery, <<Item(4, Null, 1, 1), Item(5, 1, 1, Null)>>}

-----------------------------------------------------------------------------
(* Inputs: entities *)

Record(r, x, y, a, t, src) ==
    ("r" :> r) @@ ("x" :> x) @@ ("y" :> y) @@ ("a" :> a) @@ ("t" :> t) @@ ("src" :> src)

RecordTypes == [c \in {"r", "x", "y", "src"} |-> "string"] @@ [c \in {"a", "t"} |-> "int"]

Curating(rounds, strategy, scoring) ==
    [record_key |-> "r", keys |-> <<"x", "y">>, rounds |-> rounds, scoring |-> scoring,
     source |-> "src", recency |-> "t", priority |-> <<"q", "p">>,
     survivorship |-> [c \in DOMAIN RecordTypes |-> strategy]]

\* What the keys make of the records, and what survives of records one key merges.
Clusterings ==
    LET Code == {<<x, y>> : x \in {1, 2, Null}, y \in {1, 2, Null}}
        scored == [block |-> <<"src">>, lower |-> 1, upper |-> 2]
        Clustering(c, rounds, scoring) ==
          [records |-> [i \in 1..Len(c) |-> Record(i, c[i][1], c[i][2], i % 2, i, "p")],
           step |-> Curating(rounds, "most_recent", scoring)]
    IN  {Clustering(c, n, s) : c \in [1..3 -> Code], n \in 1..2, s \in {None, scored}}
        \cup {Clustering(<<<<2, 1>>, <<3, 2>>, <<3, 1>>, <<Null, 2>>>>, n, None) : n \in 1..3}

Survivals ==
    LET Brought == {Null, 1, 2} \X {Null, 1, 2} \X {"p", "q", "z"}
    IN  {[records |-> [i \in 1..2 |-> Record(i, 1, Null, b[i][1], b[i][2], b[i][3])],
          step |-> Curating(1, s, None)] :
            b \in [1..2 -> Brought], s \in {"first_non_null", "most_recent"}}

-----------------------------------------------------------------------------
(* Inputs: shapes *)

Composed ==
    <<Key(FALSE), Text("a", FALSE), G!Field("t", "timestamp", FALSE), G!Field("m", "int", TRUE),
      Text("src", FALSE), Text("r", FALSE), Text("o", FALSE),
      G!Field("effective_from", "timestamp", FALSE)>>

Dimension(type, key, attributes, change) ==
    [name |-> "d", type |-> type, key |-> key, attributes |-> attributes, change |-> change]

Fact(name, grain, time) ==
    [name |-> name, grain |-> grain, dimensions |-> <<"d">>, time |-> time, measures |-> <<"m">>]

Entity(key, attributes, change, operation) ==
    [name |-> "e", key |-> key, attributes |-> attributes, change |-> change, system |-> "src",
     source_key |-> "r", operation |-> operation]

DeclaredShapes ==
    {[shape |-> "dimensional",
      config |-> [dimensions |-> <<Dimension(type, key, attributes, change)>>, facts |-> facts,
                  metrics |-> metrics]] :
       type \in {"type_1", "type_2"}, key \in {<<"k">>, <<"k", "a">>},
       attributes \in {<<"a">>, <<"a", "m">>, <<"k">>, <<"t">>, <<"effective_from">>, <<"z">>},
       change \in {"t", "a"}, metrics \in {{"m"}, {"n"}},
       facts \in {<<Fact("f", grain, "t")>> : grain \in {<<"k">>, <<"t", "k">>, <<"r">>}}
                   \cup {<<Fact("f", <<"k">>, "t"), Fact("g", <<"r">>, "t")>>}}
    \cup {[shape |-> "ods", config |-> <<Entity(key, attributes, change, operation)>>] :
            key \in {<<"k">>, <<"k", "m">>}, change \in {"t", "a"}, operation \in {"o", "src"},
            attributes \in {<<"a">>, <<"m">>, <<"effective_from">>}}
    \cup {[shape |-> "canonical",
           config |-> <<[name |-> "e", key |-> <<"k">>, columns |-> columns, mapped |-> mapped]>>] :
            columns \in {<<"k">>, <<"a", "k">>, <<"a">>}, mapped \in {{"a"}, {"k"}}}

PublishedShapes(input) ==
    CASE input.shape = "dimensional" -> Sh!DimensionalRelations(Composed, input.config)
      [] input.shape = "ods" -> Sh!OdsRelations(Composed, input.config)
      [] input.shape = "canonical" ->
           IF Sh!CanonicalUpstreamOK({1}, {"data_curation"})
           THEN Sh!CanonicalRelations(Composed, input.config) ELSE Sh!Refused

History == Sh!DimensionRelation(Composed, Dimension("type_2", <<"k">>, <<"a">>, "t"))

\* The changes of one key, two of them perhaps alike or of one instant, and one of another.
Changed ==
    LET Brought == [k : {1}, t : 1..3, a : {1, 2, Null}]
    IN  UNION {{Append(c, [k |-> 2, t |-> 2, a |-> 1]) : c \in [1..n -> Brought]} : n \in 1..3}

\* The versions two satellites of one entity store, each under a basis and an instant.
Satellites ==
    LET Starts == {<<basis, from>> : basis \in {1, 2}, from \in {1, 2}}
        Stored == {{[basis |-> s[1], from |-> s[2], value |-> v[s]] : s \in DOMAIN v} :
                     v \in UNION {[T -> {1, 2, Null}] : T \in {U \in SUBSET Starts :
                                                              Cardinality(U) <= 2}}}
    IN  Stored \X Stored

-----------------------------------------------------------------------------
(* Inputs: declarations *)

Own(mandatory, ordering) ==
    [mandatory |-> mandatory, optional |-> {"data_validation", "data_contracts"} \ mandatory,
     forbidden |-> {}, ordering |-> ordering]

Policies ==
    {[expression_mode |-> expressions, structured_types |-> {"point"}, labels |-> ("gold" :> admitted),
      profiles |-> IF own = None THEN <<>> ELSE ("own" :> own)] :
       expressions \in {"sql", "named_only"},
       admitted \in {<<>>, <<"serving">>, <<"own">>, <<"serving", "own">>, <<"consolidation">>},
       own \in {None, Own({"data_publish"}, <<"data_validation", "data_contracts", "data_publish">>),
                Own({"data_contracts"}, <<"data_contracts", "data_validation">>),
                Own({"data_contracts"}, <<"data_contracts">>)}}

ServingPolicy ==
    [expression_mode |-> "sql", structured_types |-> {}, labels |-> ("gold" :> <<"serving">>),
     profiles |-> <<>>]

ReadOf(contract, major, relation) ==
    [contract |-> contract, major |-> major, kind |-> "contract", fixture |-> None,
     relation |-> relation, conform |-> None]

AStep(pattern, stage) ==
    [pattern |-> pattern, stage |-> stage, conforms |-> TRUE, types |-> None, mode |-> "atomic",
     unique_key |-> None]

Declared(sources, combine, steps) ==
    [layer |-> "gold", profile |-> None, sources |-> sources, combine |-> combine,
     steps |-> steps, checkpointing |-> "declared", shape |-> "declared",
     shape_config |-> "declared", neutral |-> TRUE, schema |-> TRUE, inline |-> FALSE]

Combining == [method |-> "union", keys |-> <<>>, join |-> None]
Published == <<AStep("data_contracts", None), AStep("data_publish", None)>>
OneSource == <<ReadOf(<<"a", ".", "b">>, 1, None)>>

DeclaredSteps ==
    LET Kinds == {AStep("data_validation", s) : s \in {None, "pre", "post"}}
                   \cup {AStep(p, None) : p \in {"data_contracts", "data_publish",
                                                 "calculated_fields", "batch_ingestion"}}
                   \cup {[AStep("data_publish", None) EXCEPT !.mode = "incremental"]}
    IN  UNION {[1..n -> Kinds] : n \in 2..3}

Documents ==
    {Declared(OneSource, None, steps) : steps \in DeclaredSteps}
    \cup {[Declared(OneSource, None, Published) EXCEPT !.profile = p, !.inline = inline,
                                                       !.checkpointing = c,
                                                       !.shape_config = config] :
            p \in {"serving", "own", "other"}, inline \in BOOLEAN,
            c \in {None, "declared", "malformed"}, config \in {"declared", "malformed"}}
    \cup {Declared(<<[read EXCEPT !.kind = kind, !.fixture = fixture]>>, None, Published) :
            read \in {ReadOf(c, 1, r) : c \in {None, <<"a", ".", "b">>}, r \in {None, "x"}},
            kind \in {"contract", "fixture"},
            fixture \in {None, <<[form |-> "scalar", name |-> "int"]>>,
                         <<[form |-> "decimal", name |-> "decimal", precision |-> 0, scale |-> 0]>>,
                         <<[form |-> "structured", name |-> "point"]>>,
                         <<[form |-> "structured", name |-> "line"]>>}}

\* What three producers publish: the product's own relation, two, and one of a shape's.
Producers ==
    LET published(c, suffixes) ==
          [i \in DOMAIN suffixes |-> [name |-> <<c, suffixes[i]>>, fields |-> <<Key(TRUE)>>]]
    IN  (1 :> published(1, <<None>>)) @@ (2 :> published(2, <<"x", "y">>))
          @@ (3 :> published(3, <<"x">>))

SourcePairs ==
    {<<ReadOf(c, m, r), ReadOf(d, n, t)>> :
       c \in 1..3, d \in 1..3, m \in 1..2, n \in 1..2, r \in {None, "x", "y"},
       t \in {None, "x", "y"}}

\* An estate of two products, the first of which may state stored names.
Named(domain, name, suffixes, physical) ==
    [domain |-> domain, name |-> name, suffixes |-> suffixes, physical |-> physical,
     document |-> Declared(OneSource, None, Published)]

Stated(tables, schemas, fields) == [table : tables, schema : schemas, fields : fields]

NamedEstates ==
    LET Products == {<<<<"a", "__", "b">>, <<"c">>>>, <<<<"a">>, <<"b", "__", "c">>>>,
                     <<<<"a">>, <<"b">>>>}
        Shaped == {<<None>>, <<<<"c">>, <<"d">>>>}
        taken == <<"A", "__", "b", "__", "c">>
        column(n, t) == [name |-> n, stored |-> <<t>>]
        Stating(tables, schemas, fields) ==
          {<<>>} \cup {(s :> stated) : s \in {None, <<"c">>},
                                     stated \in Stated(tables, schemas, fields)}
        First == Stating({None, taken, <<"c", ".">>, <<>>}, {None, <<"S">>},
                         {<<>>, <<column("k", "a"), column("v", "A")>>, <<column("k", "b")>>,
                          <<column("z", "c")>>})
        Second == Stating({<<"a", "__", "d">>, taken}, {None, <<"s">>}, {<<>>})
    IN  {<<Named(p[1], p[2], s, x), Named(q[1], q[2], t, y)>> :
           p \in Products, q \in Products, s \in Shaped, t \in {<<None>>},
           x \in First, y \in Second}

Adapters ==
    {<<[quote |-> "\"", case_comparison |-> c, relation_chars |-> 7, column_chars |-> None]>> :
       c \in {"sensitive", "insensitive"}}
=============================================================================
