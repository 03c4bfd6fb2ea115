---------------------------- MODULE Declarations ----------------------------
(***************************************************************************)
(* What a product declaration is held to before anything is compiled from it:   *)
(* the estate's policy, its profiles and labels (framework/declaration.py,       *)
(* framework/patterns.py), one declaration on its own, and the declarations of    *)
(* an estate together, with the stored names they state.                        *)
(*                                                                         *)
(* A document is [layer, profile, sources, combine, steps, checkpointing, shape,  *)
(* shape_config, neutral, schema, inline]: the last three are what its JSON Schema,  *)
(* the gate against engine syntax and the search for inline SQL make of it, and its  *)
(* shape_config is "malformed" where the schema of its shape refuses it.  A source is *)
(* [contract, major, kind, fixture, relation, conform], with fixture and conform a   *)
(* sequence of types, or None.  A type is [form, name].  A stored name is a          *)
(* sequence of tokens.                                                       *)
(***************************************************************************)
EXTENDS Integers, Sequences, SequencesExt, FiniteSets, FiniteSetsExt

CONSTANTS
    None,               \* what a declaration does not state
    Scalars,            \* the names of the neutral scalar types
    ReferenceProfiles,  \* the profiles the engine ships, by name
    Shapes,             \* the registered shapes
    Staged,             \* the patterns whose configuration has a stage
    Unquotable,         \* the tokens no stored name carries: a dot, a line break
    Lower               \* the small letters of a token

\* The first of the rules a declaration breaks, in the order they are tried.
FirstBroken(rules) ==
    LET broken == SelectSeq(rules, LAMBDA r : r # "none")
    IN  IF broken = <<>> THEN "none" ELSE Head(broken)

Rule(broken, rule) == IF broken THEN rule ELSE "none"

-----------------------------------------------------------------------------
(* The estate's policy *)

\* parse_profile_document
ProfileOK(profile) ==
    LET composed == profile.mandatory \cup profile.optional
    IN  /\ profile.mandatory \cap profile.optional = {}
        /\ composed \cap profile.forbidden = {}
        /\ ToSet(profile.ordering) = composed
        /\ Len(profile.ordering) = Cardinality(composed)

\* _load_profiles
Profiles(estate) == ReferenceProfiles @@ estate.profiles

\* load_estate_policy: every profile a label admits publishes a contract, and a label admits
\* every profile the estate declares.
PolicyOK(estate) ==
    LET admitted == UNION {ToSet(estate.labels[l]) : l \in DOMAIN estate.labels}
    IN  /\ DOMAIN estate.profiles \cap DOMAIN ReferenceProfiles = {}
        /\ \A p \in DOMAIN estate.profiles : ProfileOK(estate.profiles[p])
        /\ \A l \in DOMAIN estate.labels : estate.labels[l] # <<>>
        /\ admitted \subseteq DOMAIN Profiles(estate)
        /\ \A p \in admitted : "data_contracts" \in Profiles(estate)[p].mandatory
        /\ DOMAIN estate.profiles \subseteq admitted

\* resolve_profile_for_label
ResolveProfile(estate, label, profile) ==
    LET admitted == IF label \in DOMAIN estate.labels THEN estate.labels[label] ELSE <<>>
        rule == IF admitted = <<>> THEN "unknown_label"
                ELSE IF profile = None /\ Len(admitted) > 1 THEN "profile_required"
                ELSE IF profile # None /\ profile \notin DOMAIN Profiles(estate) THEN "unknown_profile"
                ELSE IF profile # None /\ profile \notin ToSet(admitted) THEN "profile_not_admitted"
                ELSE "none"
    IN  [rule |-> rule,
         profile |-> IF rule = "none" /\ profile = None THEN Head(admitted) ELSE profile]

-----------------------------------------------------------------------------
(* One declaration *)

\* _validate_type
TypeRule(estate, type) ==
    CASE type.form = "scalar" -> Rule(type.name \notin Scalars, "non_neutral_type")
      [] type.form = "decimal" -> Rule(type.precision < 1 \/ type.scale < 0, "non_neutral_type")
      [] type.form = "structured" ->
           FirstBroken(<<Rule(type.name \in Scalars, "non_neutral_type"),
                         Rule(type.name \notin estate.structured_types,
                              "undeclared_structured_type")>>)
      [] OTHER -> "non_neutral_type"

TypesRule(estate, types) ==
    IF types = None THEN "none"
    ELSE FirstBroken([i \in DOMAIN types |-> TypeRule(estate, types[i])])

SourceRule(estate, source) ==
    FirstBroken(<<
      Rule(source.contract = None, "source_not_a_contract"),
      Rule((source.kind = "fixture") # (source.fixture # None), "fixture_binding_mismatch"),
      Rule(source.fixture # None /\ source.relation # None, "fixture_source_names_a_relation"),
      TypesRule(estate, source.fixture),
      TypesRule(estate, source.conform)>>)

\* What a source is compared by: the name a producer publishes under, and the relation.
ReadKey(source) == <<source.contract, source.relation>>

ReadsTwice(sources) ==
    \E i, j \in DOMAIN sources : i # j /\ ReadKey(sources[i]) = ReadKey(sources[j])

CombineRule(document) ==
    LET several == Len(document.sources) >= 2
        combine == document.combine
        states(method) == combine # None /\ combine.method = method
    IN  FirstBroken(<<
          Rule(several /\ combine = None, "undeclared_composition"),
          Rule(~several /\ combine # None, "combine_without_two_sources"),
          Rule(combine # None /\ ~states("union") /\ ~states("merge"), "unknown_combine_method"),
          Rule(states("merge") /\ combine.keys = <<>>, "merge_without_keys"),
          Rule(states("merge") /\ combine.join \notin {"inner", "outer"},
               "merge_without_a_declared_join"),
          Rule(states("union") /\ combine.join # None, "union_with_a_join"),
          Rule(states("union") /\ combine.keys # <<>>, "union_with_keys"),
          Rule(combine = None /\ \E i \in DOMAIN document.sources :
                                   document.sources[i].conform # None,
               "conform_without_a_combination")>>)

FirstOf(steps, i) == \A j \in 1..(i - 1) : steps[j].pattern # steps[i].pattern

Position(profile, pattern) ==
    CHOOSE n \in DOMAIN profile.ordering : profile.ordering[n] = pattern

\* The first step of a pattern comes after the first steps of the patterns the profile orders
\* before it; a pattern the profile does not order is anywhere.
Ordered(profile, steps, i) ==
    FirstOf(steps, i) /\ steps[i].pattern \in ToSet(profile.ordering) =>
      \A j \in 1..(i - 1) :
        FirstOf(steps, j) /\ steps[j].pattern \in ToSet(profile.ordering) =>
          Position(profile, steps[j].pattern) <= Position(profile, steps[i].pattern)

StepRule(estate, profile, steps, i) ==
    LET step == steps[i]
        published == step.pattern = "data_publish"
    IN  FirstBroken(<<
          Rule(step.pattern \in {"unknown", "checkpoint_retries"}, "unknown_pattern_key"),
          Rule(step.pattern \in profile.forbidden, "forbidden_pattern"),
          Rule(~step.conforms, "unknown_pattern_key"),
          Rule(~Ordered(profile, steps, i), "out_of_order_occurrence"),
          TypesRule(estate, step.types),
          Rule(published /\ (step.mode = "incremental") # (step.unique_key # None),
               "publication_key_mismatch")>>)

\* A pattern occurs again only at a stage of its own.
RepeatRule(steps) ==
    LET repeats == {p \in (DOMAIN steps) \X (DOMAIN steps) :
                      p[1] < p[2] /\ steps[p[1]].pattern = steps[p[2]].pattern}
    IN  FirstBroken(<<
          Rule(\E p \in repeats : steps[p[1]].pattern \notin Staged,
               "repeated_pattern_without_stage"),
          Rule(\E p \in repeats : steps[p[1]].stage = steps[p[2]].stage, "duplicate_stage")>>)

MandatoryRule(document, profile) ==
    LET steps == {document.steps[i].pattern : i \in DOMAIN document.steps}
        checkpointed == "checkpoint_retries" \in profile.mandatory
    IN  FirstBroken(<<
          Rule(~(profile.mandatory \ {"checkpoint_retries"} \subseteq steps),
               "missing_mandatory_pattern"),
          Rule(checkpointed /\ document.checkpointing = None, "missing_mandatory_pattern"),
          Rule(checkpointed /\ document.checkpointing = "malformed", "unknown_pattern_key")>>)

\* validate_declaration: the rule a document breaks first.
ValidateDeclaration(estate, document) ==
    LET resolved == ResolveProfile(estate, document.layer, document.profile)
        profile == Profiles(estate)[resolved.profile]
        sources == document.sources
        steps == document.steps
        before == FirstBroken(<<
          Rule(~document.schema, "schema_violation"),
          Rule(~document.neutral \/ (estate.expression_mode = "named_only" /\ document.inline),
               "neutrality_violation"),
          resolved.rule>>)
    IN  IF before # "none" THEN before
        ELSE FirstBroken(<<
               FirstBroken([i \in DOMAIN sources |-> SourceRule(estate, sources[i])]),
               Rule(ReadsTwice(sources), "duplicate_source"),
               CombineRule(document),
               Rule(resolved.profile = "consolidation" /\ Len(sources) < 2,
                    "consolidation_needs_two_sources"),
               FirstBroken([i \in DOMAIN steps |-> StepRule(estate, profile, steps, i)]),
               RepeatRule(steps),
               MandatoryRule(document, profile),
               Rule(document.shape \notin Shapes, "unknown_shape"),
               Rule(document.shape_config = "malformed", "wrong_shape_section")>>)

-----------------------------------------------------------------------------
(* The declarations of an estate: a sequence of entries [domain, name, suffixes,    *)
(* document, physical], with `physical` from the suffixes an entry states a stored   *)
(* name for to [table, schema, fields]                                         *)

Published(entry) == entry.domain \o <<".">> \o entry.name

\* addressable_relations: the name of each relation an entry publishes, by its suffix.
RelationName(entry, suffix) ==
    Published(entry) \o IF suffix = None THEN <<>> ELSE <<"__">> \o suffix

\* The name with its first dot replaced, unless another is stated.
DefaultTable(entry, suffix) ==
    LET name == RelationName(entry, suffix)
        dot == Min({i \in DOMAIN name : name[i] = "."})
    IN  [name EXCEPT ![dot] = "__"]

StoredTable(entry, suffix) ==
    IF suffix \in DOMAIN entry.physical /\ entry.physical[suffix].table # None
    THEN entry.physical[suffix].table ELSE DefaultTable(entry, suffix)

StoredSchema(entry, suffix) ==
    IF suffix \in DOMAIN entry.physical /\ entry.physical[suffix].schema # None
    THEN entry.physical[suffix].schema ELSE <<>>

\* comparison_key: what an adapter tells two names apart by.
ComparisonKey(adapter, name) ==
    IF adapter.case_comparison = "insensitive" THEN [i \in DOMAIN name |-> Lower[name[i]]]
    ELSE name

\* _unportable_reason
Unportable(adapter, name, budget) ==
    \/ ToSet(name) \cap (Unquotable \cup {adapter.quote}) # {}
    \/ budget # None /\ Len(name) > budget

NameRule(adapter, name, budget) ==
    FirstBroken(<<Rule(name = <<>>, "physical_name_missing"),
                  Rule(Unportable(adapter, name, budget), "physical_name_unportable")>>)

FieldsRule(adapter, fields) ==
    FirstBroken(<<
      FirstBroken([i \in DOMAIN fields |->
                     NameRule(adapter, fields[i].stored, adapter.column_chars)]),
      Rule(\E i, j \in DOMAIN fields :
             /\ i # j
             /\ \/ fields[i].name = fields[j].name
                \/ ComparisonKey(adapter, fields[i].stored)
                     = ComparisonKey(adapter, fields[j].stored), "physical_name_duplicate")>>)

\* _check_relation
RelationRule(adapter, stated) ==
    FirstBroken(<<
      IF stated.table = None THEN "none"
      ELSE NameRule(adapter, stated.table, adapter.relation_chars),
      IF stated.schema = None THEN "none"
      ELSE FirstBroken(<<Rule(stated.schema = <<>>, "physical_name_missing"),
                         Rule(Unportable(adapter, stated.schema, adapter.relation_chars),
                              "physical_schema_unaddressable")>>),
      FieldsRule(adapter, stated.fields)>>)

Addressed(entries) ==
    UNION {{<<i, s>> : s \in ToSet(entries[i].suffixes)} : i \in DOMAIN entries}

Coordinate(adapter, entries, r) ==
    <<ComparisonKey(adapter, StoredSchema(entries[r[1]], r[2])),
      ComparisonKey(adapter, StoredTable(entries[r[1]], r[2]))>>

\* validate_physical_names
PhysicalRule(entries, adapters) ==
    LET states == {i \in DOMAIN entries : DOMAIN entries[i].physical # {}}
        stated == SetToSeq(UNION {{<<a, entries[i].physical[s]>> :
                             a \in ToSet(adapters), s \in DOMAIN entries[i].physical} : i \in states})
    IN  IF adapters = <<>> THEN Rule(states # {}, "physical_name_unportable")
        ELSE FirstBroken(<<
               Rule(\E i \in states : ~(DOMAIN entries[i].physical \subseteq
                                          ToSet(entries[i].suffixes)), "physical_name_missing"),
               FirstBroken([n \in DOMAIN stated |-> RelationRule(stated[n][1], stated[n][2])]),
               Rule(\E a \in ToSet(adapters) : \E r, s \in Addressed(entries) :
                      r # s /\ Coordinate(a, entries, r) = Coordinate(a, entries, s),
                    "physical_relation_conflict")>>)

\* apply_physical_names: a stored name is stated for a column its relation publishes.
ColumnsPublished(entries, columns) ==
    \A i \in DOMAIN entries : \A s \in DOMAIN entries[i].physical :
      LET fields == entries[i].physical[s].fields
      IN  {fields[n].name : n \in DOMAIN fields} \subseteq columns

FixtureBound(entries) ==
    {source.contract : source \in
       {s \in UNION {ToSet(entries[i].document.sources) : i \in DOMAIN entries} :
          s.kind = "fixture"}}

\* validate_estate_products: the stored names are compared only when one is stated.
ValidateEstate(estate, entries, adapters) ==
    LET published == {Published(entries[i]) : i \in DOMAIN entries}
        states == \E i \in DOMAIN entries : DOMAIN entries[i].physical # {}
    IN  FirstBroken(<<
          FirstBroken([i \in DOMAIN entries |->
                         ValidateDeclaration(estate, entries[i].document)]),
          Rule(Cardinality(published) # Len(entries), "duplicate_published_name"),
          Rule(FixtureBound(entries) \cap published # {}, "fixture_shadows_declared_product"),
          PhysicalRule(entries, IF states THEN adapters ELSE <<>>)>>)
=============================================================================
