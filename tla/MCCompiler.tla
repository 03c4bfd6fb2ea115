----------------------------- MODULE MCCompiler -----------------------------
(***************************************************************************)
(* Instances of the declaration compiler for TLC: one input after another for *)
(* its pure parts, each with what the part answers, and the runs of one         *)
(* emitted project.                                                         *)
(***************************************************************************)
EXTENDS LandingInputs

VARIABLE unit       \* the part at work, its input and its answer

Idle == [kind |-> "idle"]

-----------------------------------------------------------------------------

Init == unit = Idle /\ BuildInit

Answer(kind, input, answer) ==
    unit' = [kind |-> kind, input |-> input, answer |-> answer]

Compose ==
    \E document \in Unions \cup Merges :
      LET fields == G!OpeningComposition(document)
      IN  Answer("composition", document,
                 [fields |-> fields, rows |-> IF fields.ok THEN G!OpeningRows(document) ELSE <<>>])

Propagate ==
    \E document \in ComposedDocuments, history \in Histories :
      LET references == References(history)
          renders == G!ExpressionsResolve(document) /\ G!ColumnsResolve(document, references)
      IN  Answer("steps", [document |-> document, references |-> references],
                 [fields |-> G!DerivedFields(document, references), renders |-> renders,
                  rows |-> IF renders THEN G!RenderedRows(document, references) ELSE <<>>])

Plan ==
    \E entries \in Estates :
      Answer("estate", entries,
             [graph |-> G!BuildProductGraph(entries, {}),
              registry |-> G!ResolveRelationRegistry(
                             entries, G!OpeningSchemas(entries, Landed(entries)))])

Place ==
    \E schedule \in Schedules : Answer("schedule", schedule, ScheduleOK(schedule))

Evolve ==
    \E prior, candidate \in Schemas :
      Answer("change", <<prior, candidate>>, G!ChangeClass(prior, candidate))

EntitiesOf(resolution, step) ==
    [resolution |-> resolution, pending |-> C!PendingRelation(resolution, step),
     survivors |-> C!Survivors(resolution, step)]

Resolve ==
    \E input \in Clusterings \cup Survivals :
      /\ C!CurationRefusal(input.step, RecordTypes) = "none"
      /\ Answer("entities", input,
                EntitiesOf(C!Resolution(input.records, input.step), input.step))

Shape ==
    \E input \in DeclaredShapes : Answer("shape", input, PublishedShapes(input))

\* Ties of the change column are ordered as the adapter does.
Derive ==
    \E rows \in Changed :
      LET of(k) == {row \in Sh!SourceRows(rows, History) : Sh!KeyValue(row, History)["k"] = k}
      IN  \E s \in Sh!Orderings(of(1), History), t \in Sh!CurrentRows(of(1), History) :
            Answer("history", rows,
                   [rows |-> <<of(1), of(2)>>,
                    versions |-> <<Sh!Versions(s, History),
                                   Sh!Versions(Sh!SetToSeq(of(2)), History)>>,
                    current |-> <<t, CHOOSE r \in Sh!CurrentRows(of(2), History) : TRUE>>])

Survive ==
    \E satellites \in Satellites :
      Answer("vault", satellites,
             [snapshots |-> Sh!PointInTime(satellites),
              surviving |-> [s \in {"most_recent", "first_non_null"} |->
                               Sh!Surviving(satellites, s)]])

Declare ==
    \E policy \in Policies, document \in Documents :
      /\ D!PolicyOK(policy)
      /\ Answer("declaration", <<policy, document>>, D!ValidateDeclaration(policy, document))

\* A document of two sources, each read from what its producer publishes.
Bind ==
    \E pair \in SourcePairs :
      LET document == Declared(pair, Combining, Published)
          read(i) == G!ResolveRead(pair[i], Producers, <<>>)
      IN  Answer("reads", document,
                 [rule |-> D!ValidateDeclaration(ServingPolicy, document),
                  reads |-> <<read(1), read(2)>>])

Name ==
    \E entries \in NamedEstates, adapters \in Adapters :
      Answer("names", <<entries, adapters>>,
             IF D!ColumnsPublished(entries, {"k", "v"})
             THEN D!ValidateEstate(ServingPolicy, entries, adapters) ELSE "unknown_physical_column")

Route ==
    \E c \in Configurations, product \in RoutedProducts :
      /\ E!ConfigurationOK(c)
      /\ Answer("route", <<c, product>>, E!PlanRule(c, product))

Measure ==
    \E models \in Trees, project \in Projects, targets \in TargetSets,
       layers \in {{}, {<<"p", "i">>}, {<<"p">>}}, private \in {{}, {3}} :
      Answer("structure",
             [models |-> models, project |-> project, targets |-> targets, layers |-> layers,
              private |-> private],
             E!StructureOK({"duckdb", "bigquery"}, targets, layers, models, project, private))

Land ==
    \E file \in LandingFiles :
      Answer("landing", file, L!LoadTypedDeclarations("estate", <<file>>))

Identify ==
    \E a, b \in Authorings :
      Answer("digests", <<a, b>>,
             [contract |-> <<L!ContractDigest(a), L!ContractDigest(b)>>,
              ruleset |-> <<L!RulesetDigest(a), L!RulesetDigest(b)>>])

Return == unit # Idle /\ unit' = Idle

\* The parts do not depend on the project: one of its initial states is enough.
Untouched ==
    /\ unit = Idle /\ runs = 0 /\ ~moved
    /\ source = FirstDelivery /\ mode = "atomic" /\ occurrence = AbortOnNull

Next ==
    \/ Untouched /\ (Compose \/ Propagate \/ Plan \/ Place \/ Evolve \/ Resolve \/ Shape \/ Derive
                      \/ Survive \/ Declare \/ Bind \/ Name \/ Route \/ Measure
                      \/ Land \/ Identify)
       /\ UNCHANGED buildVars
    \/ Return /\ UNCHANGED buildVars
    \/ unit = Idle /\ BuildNext /\ UNCHANGED unit

Spec == Init /\ [][Next]_<<unit, buildVars>>

-----------------------------------------------------------------------------
(* Correctness: compositions *)

Is(kind) == unit.kind = kind

Value(rows, name) == [i \in DOMAIN rows |-> rows[i][name]]

\* Every source of a composition that carries a field requires it, or none brings a null.
RequiredBySources(document, name) ==
    \A i \in DOMAIN document.sources :
      LET fields == G!ConformedFields(document.sources[i])
      IN  name \in G!FieldNames(fields) => G!FieldNamed(fields, name).required

\* A field a contract publishes as required is null in no row the rendering returns, when
\* the sources that bring it keep the same promise: through an outer merge that finds no
\* match, lookups, computed fields and aggregations.
RequiredIsNeverNull ==
    \/ ~Is("composition") /\ ~Is("steps")
    \/ Is("steps") /\ ~unit.answer.renders
    \/ \A i \in DOMAIN unit.answer.fields.fields :
         LET field == unit.answer.fields.fields[i]
             document == IF Is("steps") THEN unit.input.document ELSE unit.input
         IN  field.required /\ RequiredBySources(document, field.name) =>
               Null \notin ToSet(Value(unit.answer.rows, field.name))

Merged(document) ==
    Is("composition") /\ document.method = "merge" /\ unit.answer.fields.ok

\* Sources that each hold one row for a key merge into one row for a key: of the keys all
\* of them have, or, for an outer merge, of the keys one of them has.
MergeIsOnePerKey ==
    Merged(unit.input) =>
      LET document == unit.input
          held(i) == ToSet(Value(document.sources[i].rows, "k")) \ {Null}
          expected == IF document.join = "outer"
                      THEN UNION {held(i) : i \in DOMAIN document.sources}
                      ELSE {k \in held(1) : \A i \in DOMAIN document.sources : k \in held(i)}
          merged == SelectSeq(Value(unit.answer.rows, "k"), LAMBDA k : k # Null)
      IN  ToSet(merged) = expected /\ Len(merged) = Cardinality(expected)

\* A union holds the rows of its sources one after the other, each value under the name of
\* the field it was delivered for, whatever order a source declares its columns in.
UnionKeepsFieldValues ==
    Is("composition") =>
      LET document == unit.input
          rowsOf(i) == G!ConformedRows(document.sources[i])
      IN  document.method = "union" /\ unit.answer.fields.ok =>
            unit.answer.rows = G!FlattenSeq([i \in DOMAIN document.sources |-> rowsOf(i)])

\* An as-of lookup reads, for every row it enriches and for no other, the value in force
\* at the row's own instant: of the last change at or before it, or none.
AsOfReadsLatest ==
    Is("steps") =>
      LET document == unit.input.document
          events == document.sources[1].rows
          history == unit.input.references[2].rows
          inForce(event) == {i \in DOMAIN history : /\ history[i]["k"] = event["k"]
                                                    /\ history[i]["e"] <= event["t"]}
          last(event) == CHOOSE i \in inForce(event) :
                           \A j \in inForce(event) : history[j]["e"] <= history[i]["e"]
      IN  document.steps = <<[pattern |-> "data_enrichment", lookups |-> <<AsOfLookup>>]>> =>
            Value(unit.answer.rows, "v") =
              [i \in DOMAIN events |-> IF inForce(events[i]) = {} THEN Null
                                       ELSE history[last(events[i])]["v"]]

-----------------------------------------------------------------------------
(* Correctness: estates *)

Before(order, a, b) ==
    \E i, j \in DOMAIN order : i < j /\ order[i] = a /\ order[j] = b

\* Everything a product reads, composed or looked up, directly or through others.
Ancestors(entries, p) ==
    LET direct(S) == UNION {{read.contract : read \in G!EdgeReads(entries[q].document)} : q \in S}
        upTo[n \in 1..Len(entries)] ==
          IF n = 1 THEN direct({p}) ELSE LET below == upTo[n - 1] IN below \cup direct(below)
    IN  upTo[Len(entries)]

\* An estate has a build order exactly when no product reads itself through others, and
\* the order builds whatever a product reads before the product.
BuildOrderIsSound ==
    Is("estate") =>
      LET entries == unit.input
          graph == unit.answer.graph
          cyclic == \E p \in DOMAIN entries : p \in Ancestors(entries, p)
      IN  /\ cyclic => ~graph.ok
          /\ graph.rule = "product_graph_cycle" => cyclic
          /\ graph.ok => /\ ToSet(graph.order) = DOMAIN entries
                         /\ Len(graph.order) = Len(entries)
                         /\ \A p \in DOMAIN entries : \A q \in Ancestors(entries, p) :
                              Before(graph.order, q, p)

\* A graph that is built passes both of its coverage checks: they stop no estate that the
\* refusals before them let through.
BuiltIsCovered ==
    Is("estate") =>
      (unit.answer.graph.ok =>
         /\ G!GraphCovers(unit.answer.graph)
         /\ G!DescriptionCovers(G!Description(unit.answer.graph), unit.answer.graph))

\* The graph's edge and the fields a composition derives are of the same relation of its
\* producer: an estate whose schemas resolve has the edges its reads resolve to.
ReadsAgree ==
    Is("estate") =>
      LET entries == unit.input
          graph == unit.answer.graph
          registry == unit.answer.registry
          opening == G!OpeningSchemas(entries, Landed(entries))
          edgesOf(p) == {e.relation : e \in {x \in graph.edges : x.target = p}}
          readsOf(p) ==
            LET reads == G!ResolveConsumerReads(entries[p].document, registry.relations, opening)
            IN  {reads[i].relation : i \in DOMAIN reads}
      IN  graph.ok /\ registry.rule = "none" =>
            \A p \in DOMAIN entries : entries[p].profile # "landing" => edgesOf(p) = readsOf(p)

StillServed(before, now) ==
    before.ok =>
      /\ now.ok
      /\ \A i \in DOMAIN before.fields :
           /\ before.fields[i].name \in G!FieldNames(now.fields)
           /\ G!FieldNamed(now.fields, before.fields[i].name).type = before.fields[i].type

\* A change that is not major leaves every consumer of the one relation with the fields it
\* had, of the types they had.
MinorKeepsConsumers ==
    Is("change") =>
      \A document \in ConsumersOf(unit.input[1]) :
        unit.answer # "major" =>
          StillServed(Reread(document, unit.input[1]), Reread(document, unit.input[2]))

-----------------------------------------------------------------------------
(* Correctness: entities *)

\* Records a chain of shared key values connects.
Chained(input) ==
    LET records == input.records
        linked == {<<i, j>> \in (DOMAIN records) \X (DOMAIN records) :
                     \E k \in ToSet(input.step.keys) :
                       records[i][k] # Null /\ records[i][k] = records[j][k]}
        reach[n \in 0..Len(records)] ==
          IF n = 0 THEN {<<i, i>> : i \in DOMAIN records}
          ELSE reach[n - 1] \cup {<<p[1], q[2]>> : <<p, q>> \in
                 {pq \in reach[n - 1] \X linked : pq[1][2] = pq[2][1]}}
    IN  reach[Len(records)]

\* Enough rounds for a label to go from one end of the widest chain to the other.
RoundsSuffice(input) == input.step.rounds >= Len(input.records) - 1

\* Two records are one entity only when a chain of shared key values connects them, and,
\* with rounds for the widest chain, whenever one does: a record with the second key alone
\* joins those with the first.
ClustersAreChains ==
    Is("entities") =>
      LET resolution == unit.answer.resolution
      IN  \A i, j \in DOMAIN resolution :
            LET same == resolution[i].entity = resolution[j].entity
                chained == <<i, j>> \in Chained(unit.input)
            IN  (same => chained) /\ (RoundsSuffice(unit.input) /\ chained => same)

\* With rounds to spare, the evidence lists once every record that nothing merged, or,
\* when pairs are scored, every two of them in one block, once.
UnmergedIsEvidence ==
    Is("entities") /\ RoundsSuffice(unit.input) =>
      LET resolution == unit.answer.resolution
          alone == {i \in DOMAIN resolution :
                      \A j \in DOMAIN resolution \ {i} : <<i, j>> \notin Chained(unit.input)}
          listed == unit.answer.pending
      IN  IF unit.input.step.scoring = None
          THEN {p.a : p \in listed} = {resolution[i].record : i \in alone}
          ELSE /\ Cardinality(listed) = (Cardinality(alone) * (Cardinality(alone) - 1)) \div 2
               /\ {{p.a, p.b} : p \in listed} =
                    {{resolution[i].record, resolution[j].record} :
                       <<i, j>> \in {p \in alone \X alone : p[1] # p[2]}}

\* A rebuild that reads the same records in another order has the same survivors, and no
\* value of an entity is lost to a record that has none.
SurvivorIsDetermined ==
    Is("entities") =>
      LET resolution == unit.answer.resolution
          reread == C!Resolution(C!Reverse(unit.input.records), unit.input.step)
      IN  /\ C!Survivors(reread, unit.input.step) = unit.answer.survivors
          /\ \A s \in unit.answer.survivors : \A c \in DOMAIN s.row :
               s.row[c] = Null =>
                 \A i \in DOMAIN resolution :
                   resolution[i].entity = s.entity => resolution[i].row[c] = Null

-----------------------------------------------------------------------------
(* Correctness: shapes *)

\* Each relation a shape is given to publish carries each of its columns once, the key it is
\* tested by among them and never null, and reads only what the composition carries.
ShapesPublishTheirKeys ==
    Is("shape") /\ unit.answer.ok =>
      LET relations == unit.answer.relations
          names(r) == Sh!Names(r.fields)
      IN  \A i \in DOMAIN relations :
            LET r == relations[i]
            IN  /\ Cardinality(names(r)) = Len(r.fields)
                /\ \A c \in ToSet(r.key) : c \in names(r) /\ Sh!ColumnField(r.fields, c).required
                /\ ToSet(r.source_columns) \subseteq Sh!Names(Composed)
                /\ \A c \in names(r) :
                     \/ c \in ToSet(r.source_columns)
                     \/ r.derivation = "type_2" /\ Sh!IsInstant(r.fields, c)
                /\ \A j \in DOMAIN relations : relations[j].suffix = r.suffix => i = j

\* Changes of one key at one instant that do not agree.
Disputed(rows) == \E r, u \in rows : r.t = u.t /\ r # u

\* A history that passes its two generated tests has at every instant one version in force,
\* of a change delivered at the last instant there was one, whatever nulls the changes
\* bring; and a history no two changes dispute does pass.
HistoryIsFaithful ==
    Is("history") =>
      \A k \in DOMAIN unit.answer.versions :
        LET versions == unit.answer.versions[k]
            rows == unit.answer.rows[k]
            passes == Sh!Contiguous(versions) /\ Sh!UniqueStarts(versions)
            delivered(at) == {r \in rows : r.t <= at}
            last(at) == {r \in delivered(at) : \A u \in delivered(at) : u.t <= r.t}
            inForce(at) == {n \in DOMAIN versions :
                              /\ versions[n].from <= at
                              /\ versions[n].to # Null => at < versions[n].to}
        IN  /\ ~Disputed(rows) => passes
            /\ passes =>
                 \A at \in 0..4 :
                   IF delivered(at) = {} THEN inForce(at) = {}
                   ELSE /\ Cardinality(inForce(at)) = 1
                        /\ \A n \in inForce(at) :
                             \E r \in last(at) : versions[n].values["a"] = r["a"]

\* The dimension that keeps the current row and the one that keeps them all agree on what
\* is current.
CurrentIsOpenVersion ==
    Is("history") =>
      \A k \in DOMAIN unit.answer.versions :
        LET versions == unit.answer.versions[k]
        IN  ~Disputed(unit.answer.rows[k]) =>
              \A n \in DOMAIN versions :
                versions[n].to = Null <=> versions[n].from <= unit.answer.current[k].t /\
                                          n = Len(versions) /\
                                          versions[n].values["a"] = unit.answer.current[k].a

\* What survives of an entity is in force where it comes from: no value that a later version
\* or a new basis replaced, a null one among them; and nothing survives only when no
\* satellite has a value in force.
SurvivorReadsInForce ==
    Is("vault") =>
      LET satellites == unit.input
          superseded(i, v) == \E w \in satellites[i] :
                                w.basis > v.basis \/ (w.basis = v.basis /\ w.from > v.from)
          current == UNION {{[v EXCEPT !.basis = i] : v \in {w \in satellites[i] : ~superseded(i, w)}} :
                              i \in DOMAIN satellites}
          brought == {v \in current : v.value # Null}
          survives(s) == unit.answer.surviving[s]
      IN  \A s \in DOMAIN unit.answer.surviving :
            /\ survives(s) = Null <=> brought = {}
            /\ brought # {} =>
                 \E v \in brought :
                   /\ v.value = survives(s)
                   /\ s = "most_recent" => \A w \in brought : w.from <= v.from

\* Every version a satellite stores under its present basis is pointed at by the snapshot of
\* the instant it starts, and stays so until the next one does: a snapshot points at nothing
\* that a new basis replaced and at nothing that starts later.
SnapshotsPointInForce ==
    Is("vault") =>
      LET satellites == unit.input
          snapshots == unit.answer.snapshots
          present(i) == {v \in satellites[i] : \A w \in satellites[i] : w.basis <= v.basis}
      IN  /\ \A i \in DOMAIN satellites : \A v \in present(i) :
               \A s \in snapshots :
                 (s.pointers[i] = v.from) <=>
                   (/\ v.from <= s.as_of
                    /\ \A w \in present(i) : w.from <= v.from \/ s.as_of < w.from)
          /\ \A i \in DOMAIN satellites : \A v \in present(i) : \E s \in snapshots : s.as_of = v.from
          /\ \A s \in snapshots : \A i \in DOMAIN satellites :
               s.pointers[i] \in {v.from : v \in present(i)} \cup {Null}
          /\ \A s, u \in snapshots : s.as_of = u.as_of => s = u

-----------------------------------------------------------------------------
(* Correctness: declarations *)

\* Every product of a valid estate publishes a contract, whatever profile its label gives it
\* and whatever profiles the estate declares of its own.
EveryProductPublishesContract ==
    Is("declaration") /\ unit.answer = "none" =>
      \E i \in DOMAIN unit.input[2].steps : unit.input[2].steps[i].pattern = "data_contracts"

\* A product reads a relation once, when its reads of one producer all name the relation or
\* all leave it to the producer to have one.
ReadOnce ==
    Is("reads") /\ unit.answer.rule = "none" =>
      LET sources == unit.input.sources
          reads == unit.answer.reads
      IN  (\A i \in 1..2 : reads[i].rule = "none")
            /\ (sources[1].relation = None <=> sources[2].relation = None) =>
              reads[1].relation # reads[2].relation

\* Once an estate states a stored name, no two of its relations are stored under one on any
\* adapter, whether the name is stated or made from the declaration, nor two of the columns
\* it states.
StoredNamesAreDistinct ==
    Is("names") /\ unit.answer = "none" =>
      LET entries == unit.input[1]
          folds == \E i \in DOMAIN unit.input[2] :
                     unit.input[2][i].case_comparison = "insensitive"
          spelled(name) == IF folds THEN [i \in DOMAIN name |-> Small(name[i])] ELSE name
          stored(r) == <<spelled(D!StoredSchema(entries[r[1]], r[2])),
                         spelled(D!StoredTable(entries[r[1]], r[2]))>>
          states == {i \in DOMAIN entries : DOMAIN entries[i].physical # {}}
      IN  /\ states # {} =>
               \A r, s \in D!Addressed(entries) : stored(r) = stored(s) => r = s
          /\ \A i \in states : \A s \in DOMAIN entries[i].physical :
               LET fields == entries[i].physical[s].fields
               IN  \A m, n \in DOMAIN fields :
                     spelled(fields[m].stored) = spelled(fields[n].stored) => m = n

-----------------------------------------------------------------------------
(* Correctness: the estate around the declarations *)

\* Whatever changes the rows of a product that is planned is rendered, by a translator that
\* renders it on every adapter of the estate; a validation that the table gives to the
\* ingestion runtime is the exception, of which a model dbt renders knows nothing.  The views
\* of an interface lie within a boundary of the structural gate, and the relation a landing
\* product binds is its own exactly when dbt does not build that one over it.
PlannedIsRendered ==
    Is("route") /\ unit.answer = "none" =>
      LET c == unit.input[1]
          product == unit.input[2]
          dbt == E!ShapeOwner(c, product) = "dbt"
          changesRows == {p \in ToSet(product.steps) : p \in E!DbtSegments \cup E!DbtExpressions}
          elsewhere == {p \in changesRows : E!Owner(c, product, p) = "ingestion"}
      IN  /\ \A token \in ToSet(E!Occurrences(product)) :
               token \in E!Renders[E!Owner(c, product, token)]
          /\ ToSet(E!RenderedSteps(c, product)) = changesRows \ elsewhere
          /\ dbt => elsewhere \subseteq {"data_validation"}
          /\ product.shape = "canonical" =>
               dbt /\ \E layer \in c.layers : E!IsUnder(E!InterfacePath, layer)
          /\ product.landing /\ product.bound # None => (product.bound = "model") = ~dbt

ViewChain(models, project, chain) ==
    /\ \A i \in DOMAIN chain : E!IsView(models, project, chain[i])
    /\ \A i \in 1..(Len(chain) - 1) : chain[i + 1] \in models[chain[i]].refs

\* No statement of an estate whose gate passes expands more views than a deployment target
\* allows, whatever lies under which path and private views counted; and a published view
\* lies within a declared boundary.
StructureHolds ==
    Is("structure") /\ unit.answer =>
      LET input == unit.input
          chains == {chain \in UNION {[1..n -> DOMAIN input.models] : n \in 1..3} :
                       ViewChain(input.models, input.project, chain)}
          deployments == {i \in DOMAIN input.targets : input.targets[i].kind = "deployment"}
      IN  \A i \in deployments :
            /\ \A chain \in chains :
                 Len(chain) <= input.targets[i].budgets["max_view_chain_depth"]
            /\ \A name \in DOMAIN input.models \ input.private :
                 <<name>> \in chains =>
                   \E layer \in input.layers : E!IsUnder(input.models[name].path, layer)

-----------------------------------------------------------------------------
(* Correctness: landing declarations *)

\* The contracts of the loaded tables that have one.
Contracted(answer) ==
    {answer.tables[key].contract : key \in DOMAIN answer.tables} \ {None}

\* Nothing a source's defaults state for one delivery mode is in force in another, whatever
\* a table restates of them and whatever the mode matrix would have let through.
ModesNeverMix ==
    Is("landing") =>
      LET block == unit.input.tables[<<"t">>].delivery.block
          defaults == unit.input.defaults
          author(key) == IF key \in DOMAIN block THEN block ELSE defaults
      IN  \A contract \in Contracted(unit.answer) :
            \A key \in DOMAIN contract.delivery \cap L!ModeSpecific :
              "mode" \in DOMAIN author(key) => author(key)["mode"] = contract.delivery["mode"]

\* A row that parses against the columns of a loaded contract is published with one value for
\* every published column, of the token its type is published with, and null only where
\* consumers are told it may be.  Precision, scale and time zone are not compared.
PublishedRowsConform ==
    Is("landing") =>
      \A contract \in Contracted(unit.answer) :
        \A row \in ParsedRows(contract.landing.columns) :
          LET entries == contract.projection
              published(name) == {row[entries[i].source] :
                                    i \in {n \in DOMAIN entries : entries[n].name = name}}
          IN  \A i \in DOMAIN entries :
                /\ published(entries[i].name) = {row[entries[i].source]}
                /\ IF row[entries[i].source] = None THEN entries[i].nullable
                   ELSE row[entries[i].source].type = entries[i].type[1]

\* A validation cites its ruleset by digest: two contracts with one find the same in every
\* delivery; and a contract authored in another order has the digests it had.
DigestsAreMeaning ==
    Is("digests") =>
      LET a == unit.input[1]
          b == unit.input[2]
          rules(c) == c.delivery["quality"].rules
          reordered == ToSet(rules(a)) = ToSet(rules(b))
      IN  /\ unit.answer.ruleset[1] = unit.answer.ruleset[2] =>
               \A rows \in SomeDeliveries(a) : Verdict(a, rows) = Verdict(b, rows)
          /\ reordered => /\ unit.answer.ruleset[1] = unit.answer.ruleset[2]
                          /\ unit.answer.contract[1] = unit.answer.contract[2]

-----------------------------------------------------------------------------
(* Correctness: schedules *)

IsLastOf(boundary, past) == boundary = IF past = {} THEN None ELSE Max(past)

\* The first of those to come, or none while none comes before the search ends.
IsFirstOf(boundary, coming, end) ==
    IF boundary = None THEN \A u \in coming : end < u ELSE boundary = Min(coming)

\* The boundaries a schedule gives are the instants it means, one after the other, over a
\* change of the clock too.
BoundariesAreConsecutive ==
    Is("schedule") =>
      \A at \in Horizon :
        /\ IsLastOf(CurrentBoundaryAt(unit.input, at), Occurrences(unit.input, 0, at))
        /\ IsFirstOf(NextBoundaryAfter(unit.input, at),
                     Occurrences(unit.input, at + 1, at + MaxSearchDays * DaySlots),
                     at + (MaxSearchDays - 2) * DaySlots)

\* The first occurrences of those due, in order, up to the limit.
FirstOfDue(caughtUp, due, limit) ==
    /\ ToSet(caughtUp) \subseteq due
    /\ \A i, j \in DOMAIN caughtUp : i < j => caughtUp[i] < caughtUp[j]
    /\ Len(caughtUp) = IF Cardinality(due) < limit THEN Cardinality(due) ELSE limit
    /\ \A u \in due \ ToSet(caughtUp) : \A i \in DOMAIN caughtUp : caughtUp[i] < u

\* A stream that was last evaluated at an instant catches up on every occurrence since, in
\* order, up to the limit, and misses none; and it is refused for want of a next occurrence
\* only where the schedule has none at all, so that a refusal loses nothing.
CatchUpIsComplete ==
    Is("schedule") =>
      \A since \in {0, 11, 19}, at \in {18, 21, 44}, limit \in 1..3 :
        LET caughtUp == ScheduledOccurrences(unit.input, since, at, limit)
        IN  IF caughtUp = None
            THEN Occurrences(unit.input, 0, at + MaxSearchDays * DaySlots) = {}
            ELSE FirstOfDue(caughtUp, Occurrences(unit.input, since + 1, at), limit)

-----------------------------------------------------------------------------
(* Correctness: each part as a whole *)

\* What a run of an emitted project publishes is what its declarations promise, row by row
\* and product by product.
ProductKeepsRules ==
    /\ PublishedMeetsRules
    /\ EveryRowAccounted
    /\ ViolationStopsDownstream

\* A composition and its steps publish the rows and the fields their declaration means.
CompositionIsFaithful ==
    /\ MergeIsOnePerKey
    /\ UnionKeepsFieldValues
    /\ RequiredIsNeverNull
    /\ AsOfReadsLatest

\* The products of an estate are planned in an order, over relations and under versions that
\* all of them can rely on.
EstateIsSound ==
    /\ BuildOrderIsSound
    /\ BuiltIsCovered
    /\ ReadsAgree
    /\ MinorKeepsConsumers

\* Records are resolved into the entities their keys describe, with a survivor for each and
\* evidence of the rest.
CurationIsFaithful ==
    /\ ClustersAreChains
    /\ UnmergedIsEvidence
    /\ SurvivorIsDetermined

\* A shape publishes its keys and tells of every instant what was delivered by then.
ShapesAreFaithful ==
    /\ ShapesPublishTheirKeys
    /\ HistoryIsFaithful
    /\ CurrentIsOpenVersion
    /\ SurvivorReadsInForce
    /\ SnapshotsPointInForce

\* A declaration the validators and the gates accept can be bound, stored, rendered and run.
DeclarationsAreSound ==
    /\ EveryProductPublishesContract
    /\ ReadOnce
    /\ StoredNamesAreDistinct
    /\ PlannedIsRendered
    /\ StructureHolds

\* A loaded landing declaration means one thing: one mode, one projection, one ruleset and
\* one series of boundaries.
LandingIsSound ==
    /\ ModesNeverMix
    /\ PublishedRowsConform
    /\ DigestsAreMeaning
    /\ BoundariesAreConsecutive
    /\ CatchUpIsComplete
=============================================================================
