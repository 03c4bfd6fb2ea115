-------------------------- MODULE CompositionSteps --------------------------
(***************************************************************************)
(* The steps of a composition: the fields the contract pipe propagates        *)
(* through them (ergasterion/framework/contract.py), the columns layer 2      *)
(* resolves their expressions against (ergasterion/framework/rules.py), and   *)
(* the rows their rendering returns                                         *)
(* (ergasterion/translators/dbt_patterns/steps.py).                          *)
(*                                                                         *)
(* An expression is [kind, reads, bare]: the columns it reads, and the ones it *)
(* reads outside an aggregate.  It is null when a column it reads is null;     *)
(* an aggregate is null over rows that are all null.  A lookup is [contract,   *)
(* on, fields, no_match, temporal], on a set of pairs <<base, reference>>.    *)
(* References is what each contract a lookup names publishes: a schema and its *)
(* rows.                                                                   *)
(***************************************************************************)
EXTENDS SourceComposition

CONSTANTS None      \* a key the declaration leaves out

-----------------------------------------------------------------------------
(* The propagated field set: a dict in insertion order *)

Drop(fields, name) == SelectSeq(fields, LAMBDA field : field.name # name)

Put(fields, field) ==
    IF field.name \in FieldNames(fields)
    THEN [i \in DOMAIN fields |-> IF fields[i].name = field.name THEN field ELSE fields[i]]
    ELSE Append(fields, field)

PutAll(fields, added) ==
    LET upTo[i \in 0..Len(added)] == IF i = 0 THEN fields ELSE Put(upTo[i - 1], added[i])
    IN  upTo[Len(added)]

\* One mapping after the other: the name it maps from goes, the name it maps to comes.
AfterMapping(fields, mapping) ==
    LET upTo[i \in 0..Len(mapping)] ==
          IF i = 0 THEN fields
          ELSE LET kept == Drop(upTo[i - 1], mapping[i].from)
               IN  IF mapping[i].to = None THEN kept
                   ELSE Put(kept, Field(mapping[i].to, mapping[i].type, FALSE))
    IN  upTo[Len(mapping)]

LookedUp(references, lookup) ==
    [i \in DOMAIN lookup.fields |->
       Field(lookup.fields[i],
             FieldNamed(references[lookup.contract].schema, lookup.fields[i]).type, FALSE)]

AfterLookups(fields, references, lookups) ==
    IF \E i \in DOMAIN lookups : lookups[i].contract \notin DOMAIN references
    THEN Refused("unresolved_source")
    ELSE IF \E i \in DOMAIN lookups :
              ~(ToSet(lookups[i].fields)
                  \subseteq FieldNames(references[lookups[i].contract].schema))
    THEN Refused("unresolved_field")
    ELSE Accepted(PutAll(fields, FlattenSeq([i \in DOMAIN lookups |->
                                               LookedUp(references, lookups[i])])))

GroupNames(step) == step.grain \o step.groups

AfterAggregation(fields, step) ==
    IF ~(ToSet(GroupNames(step)) \subseteq FieldNames(fields)) THEN Refused("unresolved_field")
    ELSE Accepted(PutAll(<<>>,
           [i \in DOMAIN GroupNames(step) |-> FieldNamed(fields, GroupNames(step)[i])]
             \o [i \in DOMAIN step.aggregates |->
                   Field(step.aggregates[i].name, step.aggregates[i].type, FALSE)]))

AfterStep(fields, step, references) ==
    CASE step.pattern = "schema_transform" -> Accepted(AfterMapping(fields, step.mapping))
      [] step.pattern = "calculated_fields" ->
           Accepted(PutAll(fields, [i \in DOMAIN step.fields |->
                      Field(step.fields[i].name, step.fields[i].type, FALSE)]))
      [] step.pattern = "data_enrichment" -> AfterLookups(fields, references, step.lookups)
      [] step.pattern = "data_aggregation" -> AfterAggregation(fields, step)
      [] OTHER -> Accepted(fields)

AfterVerdict(verdict, step, references) ==
    IF verdict.ok THEN AfterStep(verdict.fields, step, references) ELSE verdict

\* propagate_relation_fields: the verdict after every occurrence, the opening's first.
PropagatedFields(document, references) ==
    LET after[i \in 0..Len(document.steps)] ==
          IF i = 0 THEN OpeningComposition(document)
          ELSE AfterVerdict(after[i - 1], document.steps[i], references)
    IN  after

ValidationSteps(document) ==
    {i \in DOMAIN document.steps : document.steps[i].pattern = "data_validation"}

\* _required_field_names: the fields some rule says are never null, whatever its stage.
RequiredFieldNames(document) ==
    UNION {{document.steps[i].rules[j].field :
              j \in {k \in DOMAIN document.steps[i].rules :
                       document.steps[i].rules[k].not_null}} : i \in ValidationSteps(document)}

\* derive_relation_fields: the last verdict, its fields of the required names required.
Requiring(fields, names) ==
    [i \in DOMAIN fields |->
       [fields[i] EXCEPT !.required = @ \/ fields[i].name \in names]]

DerivedFields(document, references) ==
    [PropagatedFields(document, references)[Len(document.steps)] EXCEPT
       !.fields = Requiring(@, RequiredFieldNames(document))]

-----------------------------------------------------------------------------
(* Layer 2: the columns an expression may read *)

StepExpressions(step) ==
    CASE step.pattern = "calculated_fields" -> {step.fields[i].expr : i \in DOMAIN step.fields}
      [] step.pattern = "data_filtering" ->
           {step.predicates[i] : i \in DOMAIN step.predicates}
      [] step.pattern = "data_aggregation" ->
           {step.aggregates[i].expr : i \in DOMAIN step.aggregates}
      [] OTHER -> {}

\* The names a step adds to the visible schema.  None is ever taken from it.
StepAdds(step) ==
    CASE step.pattern = "schema_transform" ->
           {step.mapping[i].to : i \in DOMAIN step.mapping} \ {None}
      [] step.pattern = "calculated_fields" -> {step.fields[i].name : i \in DOMAIN step.fields}
      [] step.pattern = "data_aggregation" ->
           {step.aggregates[i].name : i \in DOMAIN step.aggregates}
      [] step.pattern = "data_enrichment" ->
           UNION {ToSet(step.lookups[i].fields) : i \in DOMAIN step.lookups}
      [] OTHER -> {}

VisibleBefore(document, index) ==
    UNION {document.sources[i].expect : i \in DOMAIN document.sources}
      \cup UNION {StepAdds(document.steps[i]) : i \in 1..(index - 1)}

\* Within an occurrence an entry also sees the names of the entries before it.
VisibleAt(document, index, entry) ==
    VisibleBefore(document, index)
      \cup (LET step == document.steps[index]
            IN  CASE step.pattern = "calculated_fields" ->
                       {step.fields[i].name : i \in 1..(entry - 1)}
                  [] step.pattern = "data_aggregation" ->
                       {step.aggregates[i].name : i \in 1..(entry - 1)}
                  [] OTHER -> {})

\* validate_product_expressions_and_rules, for the inline expressions.
ExpressionsResolve(document) ==
    \A i \in DOMAIN document.steps :
      LET step == document.steps[i]
      IN  CASE step.pattern = "calculated_fields" ->
                 \A j \in DOMAIN step.fields :
                   step.fields[j].expr.reads \subseteq VisibleAt(document, i, j)
            [] step.pattern = "data_filtering" ->
                 \A j \in DOMAIN step.predicates :
                   step.predicates[j].reads \subseteq VisibleBefore(document, i)
            [] step.pattern = "data_aggregation" ->
                 \A j \in DOMAIN step.aggregates :
                   /\ step.aggregates[j].expr.reads \subseteq VisibleAt(document, i, j)
                   /\ step.aggregates[j].expr.bare \subseteq ToSet(GroupNames(step))
            [] OTHER -> TRUE

-----------------------------------------------------------------------------
(* The rows a rendered occurrence returns *)

\* Fails when a column it reads is not one the previous occurrence returns.
ColumnsRead(step, after) ==
    LET produced == StepAdds(step)
        carried == FieldNames(after) \ produced
    IN  carried \cup
        CASE step.pattern = "schema_transform" ->
               {step.mapping[i].from :
                  i \in {j \in DOMAIN step.mapping : step.mapping[j].to \in FieldNames(after)}}
          [] step.pattern = "data_enrichment" ->
               UNION {{pair[1] : pair \in step.lookups[i].on} : i \in DOMAIN step.lookups}
                 \cup {step.lookups[i].temporal.as_of :
                         i \in {j \in DOMAIN step.lookups : step.lookups[j].temporal # None}}
          [] OTHER -> UNION {expr.reads : expr \in StepExpressions(step)}

Evaluate(expr, row) ==
    IF expr.reads = {} THEN 1
    ELSE IF \E column \in expr.reads : row[column] = Null THEN Null
    ELSE row[CHOOSE column \in expr.reads : TRUE]

\* render_schema_transform: every output column from the row before, all at once.
TransformedRow(step, after, row) ==
    [name \in FieldNames(after) |->
       IF name \in StepAdds(step)
       THEN LET last == SelectLastInSeq(step.mapping, LAMBDA entry : entry.to = name)
            IN  row[step.mapping[last].from]
       ELSE row[name]]

CalculatedRow(step, after, row) ==
    [name \in FieldNames(after) |->
       IF name \in StepAdds(step)
       THEN LET last == SelectLastInSeq(step.fields, LAMBDA entry : entry.name = name)
            IN  Evaluate(step.fields[last].expr, row)
       ELSE row[name]]

-----------------------------------------------------------------------------
(* render_data_enrichment *)

OnKeys(lookup, base, reference) ==
    \A pair \in lookup.on : Equal(base[pair[1]], reference[pair[2]])

\* The order of an as-of read: the latest first, ties by the looked-up fields.
RanksBefore(lookup, a, b) ==
    LET first == {i \in DOMAIN lookup.fields : a[lookup.fields[i]] # b[lookup.fields[i]]}
        least == CHOOSE i \in first : \A j \in first : i <= j
        x == a[lookup.fields[least]]
        y == b[lookup.fields[least]]
    IN  \/ a[lookup.temporal.effective] > b[lookup.temporal.effective]
        \/ /\ a[lookup.temporal.effective] = b[lookup.temporal.effective]
           /\ first # {}
           /\ IF x = Null THEN FALSE ELSE IF y = Null THEN TRUE ELSE x < y

Effective(lookup, base, reference) ==
    /\ OnKeys(lookup, base, reference)
    /\ base[lookup.temporal.as_of] # Null
    /\ reference[lookup.temporal.effective] # Null
    /\ reference[lookup.temporal.effective] <= base[lookup.temporal.as_of]

\* The rows ranked first: one for every key and instant, or none.
AsOfMatch(lookup, base, rows) ==
    LET candidates == {i \in DOMAIN rows : Effective(lookup, base, rows[i])}
        first == {i \in candidates :
                    \A j \in candidates : ~RanksBefore(lookup, rows[j], rows[i])}
    IN  IF candidates = {} THEN <<>> ELSE <<rows[CHOOSE i \in first : TRUE]>>

LookupMatches(lookup, base, rows) ==
    IF lookup.temporal = None
    THEN SelectSeq(rows, LAMBDA reference : OnKeys(lookup, base, reference))
    ELSE AsOfMatch(lookup, base, rows)

\* One more lookup joined to tuples that start with the row enriched.
JoinLookup(tuples, lookup, rows) ==
    FlattenSeq([i \in DOMAIN tuples |->
      LET matches == LookupMatches(lookup, tuples[i][1], rows)
      IN  IF matches = <<>> /\ lookup.no_match = "null" THEN <<Append(tuples[i], Absent)>>
          ELSE [j \in DOMAIN matches |-> Append(tuples[i], matches[j])]])

EnrichedRows(step, after, rows, references) ==
    LET joined[i \in 0..Len(step.lookups)] ==
          IF i = 0 THEN [j \in DOMAIN rows |-> <<rows[j]>>]
          ELSE JoinLookup(joined[i - 1], step.lookups[i],
                          references[step.lookups[i].contract].rows)
        tuples == joined[Len(step.lookups)]
        \* The last lookup that looks a name up is the one it is read from.
        bringer(name) == CHOOSE i \in DOMAIN step.lookups :
                           /\ name \in ToSet(step.lookups[i].fields)
                           /\ \A j \in DOMAIN step.lookups :
                                name \in ToSet(step.lookups[j].fields) => j <= i
    IN  [j \in DOMAIN tuples |->
           [name \in FieldNames(after) |->
              IF name \in StepAdds(step) THEN ValueOn(tuples[j][bringer(name) + 1], name)
              ELSE tuples[j][1][name]]]

-----------------------------------------------------------------------------
(* render_data_aggregation *)

\* The count of rows, or the greatest value of a column; null over nulls.
Aggregate(expr, rows) ==
    LET present == {i \in DOMAIN rows : Evaluate(expr, rows[i]) # Null}
    IN  IF expr.kind = "count" THEN Len(rows)
        ELSE IF present = {} THEN Null
        ELSE Evaluate(expr, rows[CHOOSE i \in present :
               \A j \in present : Evaluate(expr, rows[j]) <= Evaluate(expr, rows[i])])

AggregatedRows(step, after, rows) ==
    LET keyOf(row) == [name \in ToSet(GroupNames(step)) |-> row[name]]
        keys == {keyOf(rows[i]) : i \in DOMAIN rows}
        group(key) == SelectSeq(rows, LAMBDA row : keyOf(row) = key)
        published(key) ==
          [name \in FieldNames(after) |->
             IF name \in StepAdds(step)
             THEN LET last == SelectLastInSeq(step.aggregates, LAMBDA entry : entry.name = name)
                  IN  Aggregate(step.aggregates[last].expr, group(key))
             ELSE key[name]]
    IN  SetToSeq({published(key) : key \in keys})

-----------------------------------------------------------------------------
(* The whole chain, one common table expression after another *)

StepRows(step, after, rows, references) ==
    CASE step.pattern = "schema_transform" ->
           [j \in DOMAIN rows |-> TransformedRow(step, after, rows[j])]
      [] step.pattern = "calculated_fields" ->
           [j \in DOMAIN rows |-> CalculatedRow(step, after, rows[j])]
      [] step.pattern = "data_enrichment" -> EnrichedRows(step, after, rows, references)
      [] step.pattern = "data_aggregation" -> AggregatedRows(step, after, rows)
      [] OTHER -> rows

\* Whether every occurrence reads only columns the one before it returns.
StepsResolve(steps, verdicts) ==
    \A i \in DOMAIN steps :
      /\ verdicts[i].ok
      /\ ColumnsRead(steps[i], verdicts[i].fields) \subseteq FieldNames(verdicts[i - 1].fields)

ColumnsResolve(document, references) ==
    StepsResolve(document.steps, PropagatedFields(document, references))

RowsAfter(steps, verdicts, opening, references) ==
    LET after[i \in 0..Len(steps)] ==
          IF i = 0 THEN opening
          ELSE StepRows(steps[i], verdicts[i].fields, after[i - 1], references)
    IN  after[Len(steps)]

RenderedRows(document, references) ==
    RowsAfter(document.steps, PropagatedFields(document, references), OpeningRows(document),
              references)
=============================================================================
