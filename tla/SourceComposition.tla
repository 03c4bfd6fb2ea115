------------------------- MODULE SourceComposition -------------------------
(***************************************************************************)
(* The relation a product's composition opens with: how the contract pipe    *)
(* (ergasterion/framework/contract.py) combines the schemas its sources       *)
(* publish, and what the read rendered from it                              *)
(* (ergasterion/translators/dbt_patterns/steps.py) returns.                  *)
(*                                                                         *)
(* A field is [name, type, required], a schema a sequence of fields, a row a  *)
(* function from names to values and a relation a sequence of rows.  A source *)
(* is [schema, rows, conform, expect]; conform is a sequence of entries       *)
(* [from, to, type].  A cast keeps a value: rows carry only what tells a null *)
(* from a value and two values apart.                                       *)
(***************************************************************************)
EXTENDS Integers, Sequences, SequencesExt, FiniteSets

CONSTANTS Null      \* the SQL null

Field(name, type, required) == [name |-> name, type |-> type, required |-> required]
FieldNames(schema) == {schema[i].name : i \in DOMAIN schema}
FieldNamed(schema, name) == schema[CHOOSE i \in DOMAIN schema : schema[i].name = name]

Refused(rule) == [ok |-> FALSE, rule |-> rule, fields |-> <<>>]
Accepted(fields) == [ok |-> TRUE, rule |-> "none", fields |-> fields]

-----------------------------------------------------------------------------
(* One source *)

Renames(source) == {source.conform[i].from : i \in DOMAIN source.conform}
EntryFor(source, name) ==
    source.conform[CHOOSE i \in DOMAIN source.conform : source.conform[i].from = name]

\* The columns a source contributes, each with the name it is read under.
ConformedColumns(source) ==
    [i \in DOMAIN source.schema |->
       LET field == source.schema[i]
       IN  IF field.name \in Renames(source)
           THEN [source_name |-> field.name,
                 field |-> Field(EntryFor(source, field.name).to,
                                 EntryFor(source, field.name).type, FALSE)]
           ELSE [source_name |-> field.name, field |-> field]]

ConformedFields(source) ==
    [i \in DOMAIN source.schema |-> ConformedColumns(source)[i].field]

\* check_source_expectation and the refusals of _conform_source.
ConformError(source) ==
    IF ~(source.expect \subseteq FieldNames(source.schema)) THEN "source_expectation"
    ELSE IF \/ Cardinality(Renames(source)) # Len(source.conform)
            \/ ~(Renames(source) \subseteq FieldNames(source.schema))
            \/ Cardinality(FieldNames(ConformedFields(source))) # Len(source.schema)
    THEN "unconformable_source"
    ELSE "none"

-----------------------------------------------------------------------------
(* The schema two or more sources publish together *)

Unconformable(sources) ==
    LET opening == ConformedFields(sources[1])
    IN  \E i \in 2..Len(sources) :
          LET fields == ConformedFields(sources[i])
          IN  \/ FieldNames(fields) # FieldNames(opening)
              \/ \E name \in FieldNames(opening) :
                   FieldNamed(fields, name).type # FieldNamed(opening, name).type

\* _union_fields: the schema of the first source, which the others must match.
UnionFields(sources) ==
    IF Unconformable(sources) THEN Refused("unconformable_source")
    ELSE Accepted(ConformedFields(sources[1]))

Unmergeable(sources, keys) ==
    LET fields(i) == ConformedFields(sources[i])
        brought(i) == FieldNames(fields(i)) \ ToSet(keys)
    IN  \/ \E i \in DOMAIN sources : ~(ToSet(keys) \subseteq FieldNames(fields(i)))
        \/ \E i \in DOMAIN sources, key \in ToSet(keys) :
             FieldNamed(fields(i), key).type # FieldNamed(fields(1), key).type
        \/ \E i, j \in DOMAIN sources : i # j /\ brought(i) \cap brought(j) # {}

\* As an outer merge publishes a field one side may not bring.
AsOptional(join, field) ==
    IF join = "outer" THEN [field EXCEPT !.required = FALSE] ELSE field

\* _merged_fields: the keys as the first source declares them, then what each brings.
MergedFields(sources, keys, join) ==
    IF Unmergeable(sources, keys) THEN Refused("unmergeable_source")
    ELSE LET carried == [i \in DOMAIN keys |-> FieldNamed(ConformedFields(sources[1]), keys[i])]
             brings(i) == SelectSeq(ConformedFields(sources[i]),
                                    LAMBDA field : field.name \notin ToSet(keys))
             optional(i) == [j \in DOMAIN brings(i) |-> AsOptional(join, brings(i)[j])]
         IN  Accepted(carried \o FlattenSeq([i \in DOMAIN sources |-> optional(i)]))

\* resolve_opening_composition
OpeningComposition(document) ==
    LET sources == document.sources
        errors == {ConformError(sources[i]) : i \in DOMAIN sources} \ {"none"}
    IN  IF errors # {} THEN Refused(CHOOSE rule \in errors : TRUE)
        ELSE IF sources = <<>> THEN Accepted(<<>>)
        ELSE IF Len(sources) = 1 THEN Accepted(ConformedFields(sources[1]))
        ELSE IF document.method = "union" THEN UnionFields(sources)
        ELSE IF document.method = "merge" THEN
               (IF document.join \in {"inner", "outer"}
                THEN MergedFields(sources, document.keys, document.join)
                ELSE Refused("undeclared_merge_join"))
        ELSE Refused("undeclared_composition")

-----------------------------------------------------------------------------
(* The read rendered from it *)

\* A source's row as its conformed projection names it.
ConformedRow(source, row) ==
    LET columns == ConformedColumns(source)
        column(name) == CHOOSE i \in DOMAIN columns : columns[i].field.name = name
    IN  [name \in FieldNames(ConformedFields(source)) |->
           row[columns[column(name)].source_name]]

ConformedRows(source) ==
    [i \in DOMAIN source.rows |-> ConformedRow(source, source.rows[i])]

\* Mutant of UnionColumn: every source's columns in its own order.
OwnColumn(sources, i, position) == ConformedFields(sources[i])[position].name

\* A union matches columns by position; resolve_opening_composition puts every source's
\* columns in the order of the schema, so a position is a name.
UnionColumn(sources, i, position) == ConformedFields(sources[1])[position].name

UnionRows(sources) ==
    LET opening == ConformedFields(sources[1])
        position(name) == CHOOSE p \in DOMAIN opening : opening[p].name = name
        arm(i) == [j \in DOMAIN sources[i].rows |->
                     [name \in FieldNames(opening) |->
                        ConformedRow(sources[i], sources[i].rows[j])
                          [UnionColumn(sources, i, position(name))]]]
    IN  FlattenSeq([i \in DOMAIN sources |-> arm(i)])

\* A merged row is a tuple with one row of each source read so far; a side with no match
\* brings none, and its columns are null.
Absent == [none |-> TRUE]
ValueOn(row, name) == IF row = Absent THEN Null ELSE row[name]

Coalesce(values) ==
    LET present == {i \in DOMAIN values : values[i] # Null}
    IN  IF present = {} THEN Null
        ELSE values[CHOOSE i \in present : \A j \in present : i <= j]

\* SQL's equality: unknown, and so no match, when a side is null.
Equal(a, b) == a # Null /\ b # Null /\ a = b

\* The key a joined row carries: coalesced over every source read before.
PriorKey(tuple, key) == Coalesce([p \in DOMAIN tuple |-> ValueOn(tuple[p], key)])

JoinsOn(tuple, row, keys) == \A k \in DOMAIN keys : Equal(PriorKey(tuple, keys[k]), row[keys[k]])

\* One more source joined to the tuples of the width sources before it.
MergeWith(tuples, width, rows, keys, join) ==
    LET matches(tuple) == SelectSeq(rows, LAMBDA row : JoinsOn(tuple, row, keys))
        paired == FlattenSeq([i \in DOMAIN tuples |->
                    [j \in DOMAIN matches(tuples[i]) |->
                       Append(tuples[i], matches(tuples[i])[j])]])
        unmatched == SelectSeq(tuples, LAMBDA tuple : matches(tuple) = <<>>)
        others == SelectSeq(rows, LAMBDA row :
                    \A i \in DOMAIN tuples : ~JoinsOn(tuples[i], row, keys))
    IN  IF join = "inner" THEN paired
        ELSE paired \o [i \in DOMAIN unmatched |-> Append(unmatched[i], Absent)]
                    \o [i \in DOMAIN others |-> [p \in 1..(width + 1) |->
                                                   IF p <= width THEN Absent ELSE others[i]]]

MergedTuples(sources, keys, join) ==
    LET upTo[i \in DOMAIN sources] ==
          IF i = 1 THEN [j \in DOMAIN sources[1].rows |-> <<ConformedRows(sources[1])[j]>>]
          ELSE MergeWith(upTo[i - 1], i - 1, ConformedRows(sources[i]), keys, join)
    IN  upTo[Len(sources)]

MergedRows(sources, keys, join) ==
    LET tuples == MergedTuples(sources, keys, join)
        bringer(name) == CHOOSE i \in DOMAIN sources :
                           name \in FieldNames(ConformedFields(sources[i]))
        names == UNION {FieldNames(ConformedFields(sources[i])) : i \in DOMAIN sources}
        row(tuple) == [name \in names |->
                         IF name \in ToSet(keys) THEN PriorKey(tuple, name)
                         ELSE ValueOn(tuple[bringer(name)], name)]
    IN  [j \in DOMAIN tuples |-> row(tuples[j])]

\* render_opening
OpeningRows(document) ==
    LET sources == document.sources
    IN  IF Len(sources) = 1 THEN ConformedRows(sources[1])
        ELSE IF document.method = "union" THEN UnionRows(sources)
        ELSE MergedRows(sources, document.keys, document.join)
=============================================================================
