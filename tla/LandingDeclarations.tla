------------------------- MODULE LandingDeclarations -------------------------
(***************************************************************************)
(* The typed loader of landing declarations (ergasterion/source_delivery.py): *)
(* a source file's delivery defaults overlaid by its tables, what a landing     *)
(* contract is held to, and the documents its digests are made of.            *)
(*                                                                         *)
(* A delivery block is a function from the keys it states.  A type is           *)
(* <<token, parameters>>, a scalar [type, unscaled, scale] with the token of its  *)
(* type.  A rule is [kind, severity, fields, values, nulls, min, max], with fields  *)
(* one name but for unique_key, and None or <<>> where its kind has none.  An      *)
(* identifier is a sequence of letters and "_".  A digest is its document.        *)
(***************************************************************************)
EXTENDS Integers, Sequences, SequencesExt, FiniteSets

CONSTANTS
    None,           \* what a declaration does not state
    InstalledZones  \* the tzdata release of the process

-----------------------------------------------------------------------------
(* The overlay of a table over its source *)

ModeSpecific == {"progress", "timestamps", "delete_strategy", "tombstone", "snapshot"}

\* Mutant of Inherited: a table in another mode keeps what it does not restate.
InheritedInAnyMode(defaults, block) == defaults

\* What a table inherits: nothing of another mode's.
Inherited(defaults, block) ==
    LET changes == /\ "mode" \in DOMAIN defaults \cap DOMAIN block
                   /\ defaults["mode"] # block["mode"]
    IN  [key \in (DOMAIN defaults) \ (IF changes THEN ModeSpecific ELSE {}) |-> defaults[key]]

OverlayProductionDelivery(defaults, block) ==
    LET inherited == Inherited(defaults, block)
    IN  [key \in DOMAIN inherited \cup DOMAIN block |->
           IF key \in DOMAIN block THEN block[key] ELSE inherited[key]]

-----------------------------------------------------------------------------
(* The delivery policy *)

RequiredKeys ==
    {"mode", "progress", "delete_strategy", "schedule", "schedule_lateness", "timestamps",
     "record_key", "quality", "retry"}

AllowedProgress ==
    [cdc |-> {"sequence"}, append_only |-> {"sequence", "opaque_batch"},
     complete_snapshot |-> {"opaque_batch"}]

AllowedStrategy ==
    [cdc |-> {"none", "explicit_tombstone"}, append_only |-> {"none"},
     complete_snapshot |-> {"snapshot_diff"}]

ModeAdmits(d) ==
    /\ d["progress"].kind \in AllowedProgress[d["mode"]]
    /\ d["delete_strategy"] \in AllowedStrategy[d["mode"]]
    /\ d["mode"] = "cdc" => d["timestamps"].event_field # None
    /\ d["mode"] = "complete_snapshot" => d["timestamps"].effective_field # None

DeletesAreDeclared(d) ==
    /\ d["delete_strategy"] = "explicit_tombstone" <=> "tombstone" \in DOMAIN d
    /\ d["delete_strategy"] = "snapshot_diff" <=> "snapshot" \in DOMAIN d

RecordKeyOK(d) ==
    LET key == d["record_key"]
        stated == {part \in {"fingerprint_scope", "hmac_key_id"} : key[part] # None}
    IN  /\ key.fields # <<>>
        /\ IsInjective(key.fields)
        /\ Cardinality(stated) = IF d["delete_strategy"] = "none" THEN 0 ELSE 2
        /\ "snapshot" \in DOMAIN d /\ key.fingerprint_scope # None =>
             d["snapshot"].scope = key.fingerprint_scope

PublicationOK(d) ==
    IF d["quality"].publication_mode = "publish_valid_rows"
    THEN d["mode"] = "append_only" /\ d["progress"].kind = "opaque_batch"
    ELSE d["quality"].max_error_fraction = "0"

ServiceLevelOK(level) == level.warn_after_minutes < level.error_after_minutes

ValidSchedule(schedule) ==
    schedule.kind = "cron" =>
      schedule.parses /\ schedule.zone_exists /\ schedule.zones = InstalledZones

-----------------------------------------------------------------------------
(* Quality rules *)

\* A rule's identity: its kind, fields and parameters.
RuleId(rule) == [rule EXCEPT !.severity = None, !.values = ToSet(rule.values)]

\* _typed_scalar_order_key orders decimals by value and the rest by what they carry.
Power(n) == IF n = 0 THEN 1 ELSE IF n = 1 THEN 10 ELSE 100
AtMost(a, b) == a.unscaled * Power(b.scale) <= b.unscaled * Power(a.scale)

BoundsOK(rule) ==
    /\ {rule.min, rule.max} # {None}
    /\ None \notin {rule.min, rule.max} =>
         rule.min.type = rule.max.type /\ AtMost(rule.min, rule.max)

RuleOK(rule) ==
    /\ rule.kind = "unique_key" => IsInjective(rule.fields)
    /\ rule.kind \in {"range", "row_count"} => BoundsOK(rule)
    /\ rule.kind = "accepted_values" => rule.values # <<>> /\ IsInjective(rule.values)

RulesOK(rules) ==
    /\ \A i \in DOMAIN rules : RuleOK(rules[i])
    /\ \A i, j \in DOMAIN rules : RuleId(rules[i]) = RuleId(rules[j]) => i = j

\* validate_delivery_policy, of a policy the wire model admits.
DeliveryPolicyOK(d) ==
    /\ RequiredKeys \subseteq DOMAIN d
    /\ ModeAdmits(d)
    /\ DeletesAreDeclared(d)
    /\ RecordKeyOK(d)
    /\ PublicationOK(d)
    /\ ServiceLevelOK(d["schedule_lateness"])
    /\ "maximum_age" \in DOMAIN d => ServiceLevelOK(d["maximum_age"])
    /\ d["retry"].base_seconds <= d["retry"].cap_seconds
    /\ ValidSchedule(d["schedule"])
    /\ RulesOK(d["quality"].rules)

-----------------------------------------------------------------------------
(* Landing and projection *)

CodecOK(codec) ==
    codec.kind = "csv" =>
      /\ \A part \in {"delimiter", "quote", "escape"} : Len(codec[part]) = 1
      /\ Cardinality({codec.delimiter, codec.quote, codec.escape}) = 3
      /\ IsInjective(codec.null_tokens)

Names(columns) == {columns[i].name : i \in DOMAIN columns}
Column(columns, name) == columns[CHOOSE i \in DOMAIN columns : columns[i].name = name]

IsDistinct(columns) == \A i, j \in DOMAIN columns : columns[i].name = columns[j].name => i = j

\* reserved are the columns the external integration adds.
IntegrationOK(integration, columns) ==
    integration.kind = "external" =>
      /\ IsInjective(integration.reserved)
      /\ ToSet(integration.reserved) \cap Names(columns) = {}
      /\ integration.keys # <<>>
      /\ IsInjective(integration.keys)

\* The columns a delivery policy names.
NamedColumns(d) ==
    {d["timestamps"].load_field}
      \cup ({d["timestamps"].event_field, d["timestamps"].effective_field} \ {None})
      \cup (IF d["progress"].kind = "sequence" THEN {d["progress"].field} ELSE {})
      \cup ToSet(d["record_key"].fields)
      \cup (IF "tombstone" \in DOMAIN d THEN {d["tombstone"].field} ELSE {})
      \cup UNION {ToSet(d["quality"].rules[i].fields) : i \in DOMAIN d["quality"].rules}

\* The scalars a rule compares a value of its field with.
Compared(rule) ==
    CASE rule.kind = "accepted_values" -> ToSet(rule.values)
      [] rule.kind = "range" -> {rule.min, rule.max} \ {None}
      [] OTHER -> {}

ScalarsOK(d, columns) ==
    LET token(name) == Column(columns, name).type[1]
    IN  /\ "tombstone" \in DOMAIN d =>
             \A s \in ToSet(d["tombstone"].values) : s.type = token(d["tombstone"].field)
        /\ \A i \in DOMAIN d["quality"].rules :
             \A s \in Compared(d["quality"].rules[i]) :
               s.type = token(d["quality"].rules[i].fields[1])

\* A published column is its source column, of the same token, null only if declared so.
PassesThrough(entry, columns) ==
    /\ entry.source \in Names(columns)
    /\ entry.type[1] = Column(columns, entry.source).type[1]
    /\ Column(columns, entry.source).nullable => entry.nullable

\* _validate_landing_and_projection; the loader derives the interfaces itself.
LandingOK(landing, projection, d) ==
    /\ landing.columns # <<>>
    /\ IsDistinct(landing.columns)
    /\ IsInjective(landing.encodings)
    /\ CodecOK(landing.codec)
    /\ IntegrationOK(landing.integration, landing.columns)
    /\ NamedColumns(d) \subseteq Names(landing.columns)
    /\ ScalarsOK(d, landing.columns)
    /\ projection # <<>>
    /\ IsDistinct(projection)
    /\ \A i \in DOMAIN projection : PassesThrough(projection[i], landing.columns)

-----------------------------------------------------------------------------
(* Digests *)

\* Declared sets are sorted, lists keep the order they are declared in.
SetOr(part, key) == IF key \in DOMAIN part THEN [part EXCEPT ![key] = ToSet(part[key])] ELSE part

\* A declared set that repeats a value has no digest; validation has looked at the others.
SetsAreSets(d) ==
    /\ "tombstone" \in DOMAIN d => IsInjective(d["tombstone"].values)
    /\ "snapshot" \in DOMAIN d => IsInjective(d["snapshot"].keys)

CanonicalRule(rule) == [rule EXCEPT !.values = ToSet(rule.values)]
CanonicalRules(rules) == {CanonicalRule(rules[i]) : i \in DOMAIN rules}

CanonicalLanding(landing) ==
    [landing EXCEPT !.columns = ToSet(landing.columns), !.encodings = ToSet(landing.encodings),
                    !.integration = SetOr(landing.integration, "keys")]

CanonicalDelivery(d) ==
    [key \in DOMAIN d |->
       CASE key = "tombstone" -> SetOr(d[key], "values")
         [] key = "snapshot" -> SetOr(d[key], "keys")
         [] key = "quality" -> [d[key] EXCEPT !.rules = CanonicalRules(d[key].rules)]
         [] OTHER -> d[key]]

ContractDigest(contract) ==
    [contract EXCEPT !.landing = CanonicalLanding(contract.landing),
                     !.delivery = CanonicalDelivery(contract.delivery),
                     !.projection = ToSet(contract.projection)]

SourceSchemaDigest(contract) ==
    LET landing == CanonicalLanding(contract.landing)
    IN  <<landing.coordinates, landing.encodings, landing.codec, landing.columns>>

PublishedSchemaDigest(contract) ==
    {<<entry.name, entry.type, entry.nullable>> : entry \in ToSet(contract.projection)}

RulesetDigest(contract) ==
    <<SourceSchemaDigest(contract), PublishedSchemaDigest(contract),
      CanonicalRules(contract.delivery["quality"].rules)>>

-----------------------------------------------------------------------------
(* The loader *)

TokenSafe(identifier) ==
    [i \in DOMAIN identifier |-> IF identifier[i] = "_" THEN "-" ELSE identifier[i]]

\* What the names of all five interfaces have in common.
DeriveInterfaces(source, table) == TokenSafe(source) \o <<"-">> \o TokenSafe(table)

\* A table is [staging, layer, landing, delivery, product, projection]; its layer is None, a
\* label, or Malformed; only a source landing is typed.
Malformed == "?"

\* What every table is refused for, whatever its landing.
TableOK(table) == ~table.staging /\ table.layer # Malformed

IsTyped(table) == table.landing # None
IsDraft(table) == table.delivery # None /\ table.delivery.kind = "draft"

ContractOf(namespace, source, name, table) ==
    [identity |-> <<namespace, source.name, name>>, product |-> table.product,
     landing |-> table.landing, projection |-> table.projection,
     delivery |-> OverlayProductionDelivery(source.defaults, table.delivery.block),
     interfaces |-> DeriveInterfaces(source.name, name)]

ContractOK(contract) ==
    /\ DeliveryPolicyOK(contract.delivery)
    /\ LandingOK(contract.landing, contract.projection, contract.delivery)
    /\ SetsAreSets(contract.delivery)

TypedTableOK(namespace, source, name, table) ==
    /\ table.delivery # None
    /\ table.delivery.kind \in {"draft", "production"}
    /\ table.delivery.kind = "production" =>
         /\ None \notin {namespace, table.product, table.layer}
         /\ source.default_kind = "production"
         /\ ContractOK(ContractOf(namespace, source, name, table))

FileOK(namespace, source) ==
    /\ ~source.canonical_mappings
    /\ \A name \in DOMAIN source.tables :
         /\ TableOK(source.tables[name])
         /\ IsTyped(source.tables[name]) =>
              TypedTableOK(namespace, source, name, source.tables[name])

\* load_typed_declarations: files in path order, the later of two entries of one key stays.
TypedTables(namespace, files) ==
    LET keys(i) == {<<files[i].name, name>> :
                      name \in {n \in DOMAIN files[i].tables : IsTyped(files[i].tables[n])}}
        last(key) == CHOOSE i \in DOMAIN files :
                       key \in keys(i) /\ \A j \in DOMAIN files : key \in keys(j) => j <= i
    IN  [key \in UNION {keys(i) : i \in DOMAIN files} |->
           LET source == files[last(key)]
               table == source.tables[key[2]]
           IN  [layer |-> table.layer,
                contract |-> IF IsDraft(table) THEN None
                             ELSE ContractOf(namespace, source, key[2], table)]]

LoadTypedDeclarations(namespace, files) ==
    IF \A i \in DOMAIN files : FileOK(namespace, files[i])
    THEN [ok |-> TRUE, tables |-> TypedTables(namespace, files)]
    ELSE [ok |-> FALSE, tables |-> <<>>]
=============================================================================
