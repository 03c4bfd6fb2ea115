--------------------------- MODULE ShapeRelations ---------------------------
(***************************************************************************)
(* The relations the dimensional, ods and canonical shapes publish over a      *)
(* composition (shapes/), how each is rendered (dbt_patterns/shape_relations.py) *)
(* and the generated tests that hold it to its key and its effective range       *)
(* (macros/product_tests.sql); and the two relations of a vault that are derived  *)
(* from its satellites.                                                      *)
(*                                                                         *)
(* A suffix is a tuple of its parts, a row a function from column names, an       *)
(* instant a number.  The change column of a row is never null: a window orders  *)
(* nulls as the adapter does.                                                *)
(***************************************************************************)
EXTENDS Integers, Sequences, SequencesExt, FiniteSets, FiniteSetsExt

CONSTANTS
    Null,           \* the SQL null
    None,           \* a part a relation does not have
    TimeTypes       \* the types an instant may be declared with

EffectiveFrom == "effective_from"
EffectiveTo == "effective_to"

-----------------------------------------------------------------------------
(* The shapes' declarations *)

Names(fields) == {fields[i].name : i \in DOMAIN fields}

\* column_field
ColumnField(fields, name) == fields[CHOOSE i \in DOMAIN fields : fields[i].name = name]

IsInstant(fields, name) ==
    name \in Names(fields) /\ ColumnField(fields, name).type \in TimeTypes

\* The composition's fields of these columns, those of the key required.
PublishedFields(fields, columns, key) ==
    [i \in DOMAIN columns |->
       LET field == ColumnField(fields, columns[i])
       IN  [field EXCEPT !.required = @ \/ field.name \in ToSet(key)]]

RangeFields(fields, change) ==
    LET type == ColumnField(fields, change).type
    IN  <<[name |-> EffectiveFrom, type |-> type, required |-> TRUE],
          [name |-> EffectiveTo, type |-> type, required |-> FALSE]>>

\* The attributes, the key and the change column of a dimension are three things.
\* _dimension_relation: what it refuses.
DimensionOK(fields, dimension) ==
    LET key == ToSet(dimension.key)
        attributes == ToSet(dimension.attributes)
    IN  /\ Len(dimension.key) = 1
        /\ attributes \cap (key \cup {dimension.change}) = {}
        /\ IsInstant(fields, dimension.change)
        /\ key \cup attributes \subseteq Names(fields)
        /\ dimension.type = "type_2" =>
             (key \cup attributes) \cap {EffectiveFrom, EffectiveTo} = {}

DimensionRelation(fields, dimension) ==
    LET columns == dimension.key \o dimension.attributes
        own == PublishedFields(fields, columns, dimension.key)
        ranged == dimension.type = "type_2"
    IN  [suffix |-> <<"dim", dimension.name>>, derivation |-> dimension.type,
         source_columns |-> columns \o <<dimension.change>>, key |-> dimension.key,
         change |-> dimension.change, view |-> FALSE,
         fields |-> IF ranged THEN own \o RangeFields(fields, dimension.change) ELSE own]

WithoutRepeats(columns) ==
    FoldSeq(LAMBDA c, seen : IF c \in ToSet(seen) THEN seen ELSE Append(seen, c), <<>>, columns)

\* A fact projects its grain, the keys of its dimensions, its time dimension and its
\* measures, each column once.
FactColumns(dimensions, fact) ==
    LET key(name) == dimensions[CHOOSE i \in DOMAIN dimensions : dimensions[i].name = name].key
    IN  WithoutRepeats(fact.grain \o FlattenSeq([i \in DOMAIN fact.dimensions |->
                                                   key(fact.dimensions[i])])
                         \o <<fact.time>> \o fact.measures)

FactRelation(fields, dimensions, fact) ==
    LET columns == FactColumns(dimensions, fact)
    IN  [suffix |-> <<"fact", fact.name>>, derivation |-> "projection",
         source_columns |-> columns, key |-> fact.grain, change |-> None, view |-> FALSE,
         fields |-> PublishedFields(fields, columns, fact.grain)]

NamedOnce(entries) == \A i, j \in DOMAIN entries : entries[i].name = entries[j].name => i = j

Refused == [ok |-> FALSE, relations |-> <<>>]

\* DimensionalShape.relations: a measure is named once in the whole target.
DimensionalRelations(fields, config) ==
    LET dimensions == config.dimensions
        facts == config.facts
        measures == FlattenSeq([i \in DOMAIN facts |-> facts[i].measures])
        factOK(fact) ==
            /\ ToSet(fact.dimensions) \subseteq Names(dimensions)
            /\ IsInstant(fields, fact.time)
            /\ ToSet(fact.grain) \cup ToSet(fact.measures) \subseteq Names(fields)
    IN  IF /\ NamedOnce(dimensions) /\ NamedOnce(facts)
           /\ \A i \in DOMAIN dimensions : DimensionOK(fields, dimensions[i])
           /\ \A i \in DOMAIN facts : factOK(facts[i])
           /\ Len(measures) = Cardinality(ToSet(measures))
           /\ config.metrics \subseteq ToSet(measures)
        THEN [ok |-> TRUE,
              relations |-> [i \in DOMAIN dimensions |-> DimensionRelation(fields, dimensions[i])]
                         \o [i \in DOMAIN facts |-> FactRelation(fields, dimensions, facts[i])]]
        ELSE Refused

\* _roles: one column has one role, and none the name of the effective range.
RolesOK(fields, entity) ==
    LET roles == entity.key \o entity.attributes
                   \o <<entity.change, entity.system, entity.source_key, entity.operation>>
    IN  /\ Len(roles) = Cardinality(ToSet(roles))
        /\ (ToSet(entity.key) \cup ToSet(entity.attributes))
             \cap {EffectiveFrom, EffectiveTo} = {}
        /\ ToSet(roles) \subseteq Names(fields)
        /\ IsInstant(fields, entity.change)

\* An entity's versions, the latest owner of each of its source keys, and every change.
EntityRelations(fields, entity) ==
    LET columns == entity.key \o entity.attributes
        reference == <<entity.system, entity.source_key>>
        change == <<entity.change>>
    IN  <<[suffix |-> <<entity.name>>, derivation |-> "type_2",
           source_columns |-> columns \o change, key |-> entity.key,
           change |-> entity.change, view |-> FALSE,
           fields |-> PublishedFields(fields, columns, entity.key)
                        \o RangeFields(fields, entity.change)],
          [suffix |-> <<entity.name, "xref">>, derivation |-> "type_1",
           source_columns |-> reference \o entity.key \o change, key |-> reference,
           change |-> entity.change, view |-> FALSE,
           fields |-> PublishedFields(fields, reference \o entity.key, reference)],
          [suffix |-> <<entity.name, "audit">>, derivation |-> "projection",
           source_columns |-> entity.key \o reference \o change \o <<entity.operation>>,
           key |-> reference \o change, change |-> None, view |-> FALSE,
           fields |-> PublishedFields(fields, entity.key \o reference \o change
                                                \o <<entity.operation>>, reference \o change)]>>

\* OdsShape.relations
OdsRelations(fields, entities) ==
    IF NamedOnce(entities) /\ \A i \in DOMAIN entities : RolesOK(fields, entities[i])
    THEN [ok |-> TRUE,
          relations |-> FlattenSeq([i \in DOMAIN entities |-> EntityRelations(fields, entities[i])])]
    ELSE Refused

\* CanonicalShape.relations: a view for each entity, on columns it publishes.
CanonicalRelations(fields, entities) ==
    LET entityOK(entity) ==
            /\ ToSet(entity.key) \cup entity.mapped \subseteq ToSet(entity.columns)
            /\ ToSet(entity.columns) \subseteq Names(fields)
        relation(entity) ==
            [suffix |-> <<entity.name>>, derivation |-> "projection",
             source_columns |-> entity.columns, key |-> entity.key, change |-> None,
             view |-> TRUE, fields |-> PublishedFields(fields, entity.columns, entity.key)]
    IN  IF NamedOnce(entities) /\ \A i \in DOMAIN entities : entityOK(entities[i])
        THEN [ok |-> TRUE, relations |-> [i \in DOMAIN entities |-> relation(entities[i])]]
        ELSE Refused

\* CanonicalShape.check_estate: `patterns` of the one product it reads, None when the estate
\* declares no such product.
CanonicalUpstreamOK(sources, patterns) ==
    Cardinality(sources) = 1 /\ patterns # None /\ "data_curation" \in patterns

-----------------------------------------------------------------------------
(* The renderings *)

Columns(row, columns) == [c \in columns |-> row[c]]

SourceRows(rows, relation) ==
    {Columns(rows[i], ToSet(relation.source_columns)) : i \in DOMAIN rows}

KeyValue(row, relation) == Columns(row, ToSet(relation.key))

\* The rows of a key in the order of their change column: ties in any order.
Orderings(rows, relation) ==
    {s \in SetToSeqs(rows) :
       \A i \in 1..(Len(s) - 1) : s[i][relation.change] <= s[i + 1][relation.change]}

Attributes(relation) ==
    ToSet(relation.source_columns) \ (ToSet(relation.key) \cup {relation.change})

\* Mutant of VersionStarts: `<>` where `is distinct from` is.
VersionStartsByInequality(s, relation) ==
    {i \in DOMAIN s :
       i = 1 \/ \E a \in Attributes(relation) :
                  Null \notin {s[i][a], s[i - 1][a]} /\ s[i][a] # s[i - 1][a]}

VersionStarts(s, relation) ==
    {i \in DOMAIN s : i = 1 \/ \E a \in Attributes(relation) : s[i][a] # s[i - 1][a]}

\* _type_2_dimension: the versions of one key, one for each run of rows with the same
\* attributes, each in force until the next.
Versions(s, relation) ==
    LET number(i) == Cardinality({j \in VersionStarts(s, relation) : j <= i})
        values(i) == Columns(s[i], Attributes(relation))
        runs == {<<number(i), values(i)>> : i \in DOMAIN s}
        from(run) == Min({s[i][relation.change] :
                            i \in {j \in DOMAIN s : <<number(j), values(j)>> = run}})
        ranged == SetToSortSeq({[run |-> run, from |-> from(run)] : run \in runs},
                    LAMBDA a, b : a.from < b.from \/ (a.from = b.from /\ a.run[1] < b.run[1]))
    IN  [n \in DOMAIN ranged |->
           [values |-> ranged[n].run[2], from |-> ranged[n].from,
            to |-> IF n < Len(ranged) THEN ranged[n + 1].from ELSE Null]]

\* _type_1_dimension: the rows that may be first when ranked by the change column, downwards.
CurrentRows(rows, relation) ==
    {row \in rows : \A other \in rows : other[relation.change] <= row[relation.change]}

\* dpf_effective_range_contiguity
Contiguous(versions) ==
    \A n \in DOMAIN versions :
      LET next == IF n < Len(versions) THEN versions[n + 1].from ELSE Null
          to == versions[n].to
      IN  /\ (next = Null) = (to = Null)
          /\ to # Null => to = next /\ versions[n].from < to

\* dpf_unique_grain, over the key and the start of the effective range.
UniqueStarts(versions) ==
    \A m, n \in DOMAIN versions : versions[m].from = versions[n].from => m = n

-----------------------------------------------------------------------------
(* What is derived from the satellites of a vault: a version is [basis, from, value] *)

\* _current_version_ctes
InForce(versions) ==
    CHOOSE v \in versions :
      \A w \in versions : w.basis < v.basis \/ (w.basis = v.basis /\ w.from <= v.from)

\* _surviving_record: of the values in force in the satellites of an entity, the one the
\* strategy ranks first.
Surviving(satellites, strategy) ==
    LET candidates == {[value |-> InForce(satellites[i]).value,
                        from |-> InForce(satellites[i]).from, position |-> i] :
                         i \in {j \in DOMAIN satellites : satellites[j] # {}}}
        brought == {c \in candidates : c.value # Null}
        before(a, b) == IF strategy = "most_recent"
                        THEN a.from > b.from \/ (a.from = b.from /\ a.position < b.position)
                        ELSE a.position < b.position
    IN  IF brought = {} THEN Null
        ELSE (CHOOSE c \in brought : \A d \in brought \ {c} : before(c, d)).value

\* The instants of one satellite under the highest basis the entity has in it.
Scoped(versions) ==
    {v.from : v \in {w \in versions : \A u \in versions : u.basis <= w.basis}}

Pointer(versions, asOf) ==
    LET stored == {from \in Scoped(versions) : from <= asOf}
    IN  IF stored = {} THEN Null ELSE Max(stored)

\* _point_in_time: a snapshot of an entity at every instant one of its satellites stores.
PointInTime(satellites) ==
    {[as_of |-> asOf, pointers |-> [i \in DOMAIN satellites |-> Pointer(satellites[i], asOf)]] :
       asOf \in UNION {Scoped(satellites[i]) : i \in DOMAIN satellites}}
=============================================================================
