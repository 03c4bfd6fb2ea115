-------------------------- MODULE RelationRegistry --------------------------
(***************************************************************************)
(* The contract pipe over one estate (ergasterion/framework/contract.py):     *)
(* which relation of its producer a read resolves to, and the relations every *)
(* product publishes, in the passes resolve_relation_registry makes.         *)
(*                                                                         *)
(* A product is named by a number, which gives the sorted order.  Its entry is *)
(* [profile, document, suffixes, checkpoint]: a source of its document also    *)
(* carries [contract, relation, fixture], a lookup [contract, relation]; its   *)
(* shape publishes one relation <<product, suffix>> for every suffix, the      *)
(* suffix None for the relation of the composition itself.  The schemas of an  *)
(* estate are a function from the keys reads resolve under, <<product, name>>, *)
(* to fields.                                                              *)
(***************************************************************************)
EXTENDS CompositionSteps, TLC

-----------------------------------------------------------------------------
(* Reads *)

\* What each product publishes, by name alone.
PublishedRelations(entry, product) ==
    [i \in DOMAIN entry.suffixes |-> <<product, entry.suffixes[i]>>]

RelationChoice(relation) == relation[2]

\* resolve_relation_name: one relation, the one it names, or a refusal.
ResolveRelationName(available, relation) ==
    IF relation = None
    THEN IF Len(available) = 1 THEN [rule |-> "none", relation |-> available[1]]
         ELSE [rule |-> "ambiguous_source_relation", relation |-> None]
    ELSE LET named == {i \in DOMAIN available : RelationChoice(available[i]) = relation}
         IN  IF named = {} THEN [rule |-> "unknown_source_relation", relation |-> None]
             ELSE [rule |-> "none", relation |-> available[CHOOSE i \in named : TRUE]]

Lookups(document) ==
    FlattenSeq([i \in DOMAIN document.steps |->
      IF document.steps[i].pattern = "data_enrichment" THEN document.steps[i].lookups ELSE <<>>])

Reads(document) ==
    [i \in DOMAIN document.sources |->
       [contract |-> document.sources[i].contract, relation |-> document.sources[i].relation]]
    \o [i \in DOMAIN Lookups(document) |->
          [contract |-> Lookups(document)[i].contract,
           relation |-> Lookups(document)[i].relation]]

\* _resolve_read: a product already resolved, or a schema the estate opens with, which
\* publishes the one relation of the producer's own name.
ResolveRead(read, resolved, opening) ==
    IF read.contract \in DOMAIN resolved
    THEN LET relations == resolved[read.contract]
             named == ResolveRelationName([i \in DOMAIN relations |-> relations[i].name],
                                          read.relation)
         IN  IF named.rule # "none" THEN [named EXCEPT !.relation = <<>>] @@ [fields |-> <<>>]
             ELSE named @@ [fields |-> relations[CHOOSE i \in DOMAIN relations :
                                         relations[i].name = named.relation].fields]
    ELSE IF read.contract \notin DOMAIN opening
    THEN [rule |-> "unresolved_source", relation |-> <<>>, fields |-> <<>>]
    ELSE LET named == ResolveRelationName(<<<<read.contract, None>>>>, read.relation)
         IN  named @@ [fields |-> opening[read.contract]]

\* resolve_consumer_reads
ResolveConsumerReads(document, resolved, opening) ==
    [i \in DOMAIN Reads(document) |-> ResolveRead(Reads(document)[i], resolved, opening)]

-----------------------------------------------------------------------------
(* The fields a product's composition derives from its reads *)

\* A document whose sources carry the schemas their reads resolved to.
Bound(document, reads) ==
    [document EXCEPT !.sources =
       [i \in DOMAIN @ |-> @[i] @@ [schema |-> reads[i].fields]]]

\* The schemas lookups are resolved against, under the contract each names.
LookupSchemas(document, reads) ==
    LET lookups == Lookups(document)
        read(contract) == reads[Len(document.sources)
                                  + (CHOOSE i \in DOMAIN lookups : lookups[i].contract = contract)]
    IN  [contract \in {lookups[i].contract : i \in DOMAIN lookups} |->
           [schema |-> read(contract).fields]]

FieldsRead(document, reads) ==
    LET failed == {i \in DOMAIN reads : reads[i].rule # "none"}
    IN  IF failed # {} THEN Refused(reads[CHOOSE i \in failed : \A j \in failed : i <= j].rule)
        ELSE DerivedFields(Bound(document, reads), LookupSchemas(document, reads))

DeriveFields(document, resolved, opening) ==
    FieldsRead(document, ResolveConsumerReads(document, resolved, opening))

\* shape_relations_for
ShapeRelations(entry, product, fields) ==
    [i \in DOMAIN entry.suffixes |->
       [name |-> <<product, entry.suffixes[i]>>, fields |-> fields]]

-----------------------------------------------------------------------------
(* The schemas the estate opens with *)

FixtureBindings(document) ==
    {i \in DOMAIN document.sources : document.sources[i].fixture # None}

\* fixture_relation_schemas, and the ingestion side's own schemas over them.
OpeningSchemas(entries, landed) ==
    LET bound == UNION {{entries[p].document.sources[i] :
                           i \in FixtureBindings(entries[p].document)} : p \in DOMAIN entries}
        named(contract) == CHOOSE source \in bound : source.contract = contract
    IN  landed @@ [contract \in {source.contract : source \in bound} |->
                     named(contract).fixture]

\* landing_schema_for: exactly one origin.
LandingSchemaFor(document, product, opening) ==
    LET bindings == FixtureBindings(document)
        supplied == product \in DOMAIN opening
    IN  IF Cardinality(bindings) > 1 \/ (supplied /\ bindings # {}) THEN
               Refused("landing_schema_origin")
        ELSE IF supplied THEN Accepted(opening[product])
        ELSE IF bindings = {} THEN Refused("missing_landing_schema")
        ELSE Accepted(document.sources[CHOOSE i \in bindings : TRUE].fixture)

-----------------------------------------------------------------------------
(* resolve_relation_registry *)

Needed(document) == {Reads(document)[i].contract : i \in DOMAIN Reads(document)}

Registered(registry, entry, product, derived) ==
    IF ~derived.ok THEN [registry EXCEPT !.rule = derived.rule]
    ELSE [registry EXCEPT !.relations =
            @ @@ (product :> ShapeRelations(entry, product, derived.fields))]

\* One product of one pass: resolved, refused, or left for a later pass.
ResolveOne(entries, opening, registry, product) ==
    LET entry == entries[product]
        landing == entry.profile = "landing"
        ready == Needed(entry.document) \subseteq DOMAIN registry.relations \cup DOMAIN opening
    IN  IF \/ registry.rule # "none" \/ product \in DOMAIN registry.relations
           \/ ~landing /\ ~ready
        THEN registry
        ELSE Registered(registry, entry, product,
               IF landing THEN LandingSchemaFor(entry.document, product, opening)
               ELSE DeriveFields(entry.document, registry.relations, opening))

\* Every product in turn, once in each of as many passes as there are products.
AfterPasses(entries, opening) ==
    LET count == Len(entries)
        after[k \in 0..(count * count)] ==
          IF k = 0 THEN [rule |-> "none", relations |-> <<>>]
          ELSE ResolveOne(entries, opening, after[k - 1], ((k - 1) % count) + 1)
    IN  after[count * count]

\* A product no pass resolved is refused.
Settled(registry, products) ==
    IF registry.rule = "none" /\ DOMAIN registry.relations # products
    THEN [registry EXCEPT !.rule = "unresolved_source"]
    ELSE registry

ResolveRelationRegistry(entries, opening) ==
    Settled(AfterPasses(entries, opening), DOMAIN entries)

-----------------------------------------------------------------------------
(* Consumers of a product that changes *)

\* classify_relation_change
ChangeClass(prior, candidate) ==
    LET before == FieldNames(prior)
        now == FieldNames(candidate)
        breaks(name) ==
          \/ FieldNamed(prior, name).type # FieldNamed(candidate, name).type
          \/ FieldNamed(candidate, name).required /\ ~FieldNamed(prior, name).required
    IN  IF \/ before \ now # {}
           \/ \E name \in now \ before : FieldNamed(candidate, name).required
           \/ \E name \in before \cap now : breaks(name)
        THEN "major"
        ELSE IF now \ before # {} THEN "minor"
        ELSE "none"
=============================================================================
