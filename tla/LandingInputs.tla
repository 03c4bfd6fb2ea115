---------------------------- MODULE LandingInputs ----------------------------
(***************************************************************************)
(* Inputs of the landing loader for TLC: delivery blocks over the defaults of  *)
(* their source, contracts over columns and projections, and contracts that   *)
(* are authored twice.                                                      *)
(***************************************************************************)
EXTENDS EstateInputs

L == INSTANCE LandingDeclarations WITH InstalledZones <- "2026.2"

-----------------------------------------------------------------------------
(* Delivery *)

Restricted(f, keys) == [key \in DOMAIN f \cap keys |-> f[key]]

Whole(n) == [type |-> "int64", unscaled |-> n, scale |-> 0]
Tenths(n) == [type |-> "decimal", unscaled |-> n, scale |-> 1]
Items(n) == [type |-> "count", unscaled |-> n, scale |-> 0]

Timestamps(event, effective) ==
    [load_field |-> "at", event_field |-> event, effective_field |-> effective]

RecordKey(scope) ==
    [fields |-> <<"k">>, fingerprint_scope |-> scope,
     hmac_key_id |-> IF scope = None THEN None ELSE "key"]

Quality(published, fraction, rules) ==
    [publication_mode |-> published, max_error_fraction |-> fraction, rules |-> rules]

Hourly == [kind |-> "interval", every_minutes |-> 60]

ServiceLevel(warn, error) == [warn_after_minutes |-> warn, error_after_minutes |-> error]

CommonKeys(scope, quality) ==
    "schedule" :> Hourly @@ "schedule_lateness" :> ServiceLevel(1, 2)
      @@ "retry" :> [base_seconds |-> 1, cap_seconds |-> 2]
      @@ "record_key" :> RecordKey(scope) @@ "quality" :> quality

\* What a delivery states for its mode.
OfMode ==
    [cdc |-> "mode" :> "cdc" @@ "progress" :> [kind |-> "sequence", field |-> "k"]
               @@ "timestamps" :> Timestamps("at", None)
               @@ "delete_strategy" :> "explicit_tombstone"
               @@ "tombstone" :> [field |-> "k", values |-> <<Whole(0)>>],
     append_only |-> "mode" :> "append_only" @@ "progress" :> [kind |-> "opaque_batch"]
               @@ "timestamps" :> Timestamps(None, None) @@ "delete_strategy" :> "none",
     complete_snapshot |-> "mode" :> "complete_snapshot"
               @@ "progress" :> [kind |-> "opaque_batch"]
               @@ "timestamps" :> Timestamps(None, "at") @@ "delete_strategy" :> "snapshot_diff"
               @@ "snapshot" :> [scope |-> "all", keys |-> <<"k1">>]]

ModeKeys == {"mode"} \cup L!ModeSpecific
Strict == Quality("all_or_nothing", "0", <<>>)

Defaults ==
    {CommonKeys(scope, Strict) @@ Restricted(OfMode[m], keys) :
       scope \in {None, "all"}, m \in DOMAIN OfMode,
       keys \in {{}, {"progress", "timestamps"}, {"mode", "progress", "timestamps"}, ModeKeys}}

Blocks ==
    {Restricted(OfMode[m], keys) : m \in DOMAIN OfMode, keys \in SUBSET ModeKeys}

-----------------------------------------------------------------------------
(* Tables *)

NamedColumn(name, type, nullable) == [name |-> name, type |-> type, nullable |-> nullable]
Entry(name, read, type, nullable) ==
    [name |-> name, source |-> read, type |-> type, nullable |-> nullable]

Int64 == <<"int64", 0>>
Instant == <<"utc_instant", 0>>
Decimal(precision) == <<"decimal", precision>>

Csv == [kind |-> "csv", delimiter |-> <<",">>, quote |-> <<"q">>, escape |-> <<"e">>,
        null_tokens |-> <<"null">>]

External(reserved, keys) == [kind |-> "external", reserved |-> reserved, keys |-> keys]

LandingOf(columns, codec, integration) ==
    [coordinates |-> "table", columns |-> columns, encodings |-> <<"identity">>, codec |-> codec,
     integration |-> integration]

Integrations ==
    {[kind |-> "managed"], External(<<"id", "epoch">>, <<"k1">>), External(<<"k", "epoch">>, <<"k1">>),
     External(<<"id", "id">>, <<"k1">>), External(<<"id", "epoch">>, <<>>)}

PlainColumns == <<NamedColumn("k", Int64, FALSE), NamedColumn("at", Instant, FALSE)>>
PlainProjection == <<Entry("k", "k", Int64, FALSE)>>
PlainLanding == LandingOf(PlainColumns, Csv, [kind |-> "managed"])

TableWith(block, landing, projection) ==
    [staging |-> FALSE, layer |-> "bronze", landing |-> landing, product |-> "facts",
     delivery |-> [kind |-> "production", block |-> block], projection |-> projection]

FileWith(defaults, declared) ==
    [name |-> <<"s">>, canonical_mappings |-> FALSE, default_kind |-> "production",
     defaults |-> defaults, tables |-> [t \in {<<"t">>} |-> declared]]

DeliveredTables ==
    {FileWith(defaults, TableWith(block, PlainLanding, PlainProjection)) :
       defaults \in Defaults, block \in Blocks}

Appended(rules) == CommonKeys(None, Quality("publish_valid_rows", "0.5", rules)) @@ OfMode.append_only

Ruled(kind, severity, fields) ==
    [kind |-> kind, severity |-> severity, fields |-> fields, values |-> <<>>, nulls |-> TRUE,
     min |-> None, max |-> None]

InRange(severity, min, max) ==
    [Ruled("range", severity, <<"v">>) EXCEPT !.min = min, !.max = max]
Accepting(values) == [Ruled("accepted_values", "error", <<"v">>) EXCEPT !.values = values]

ColumnsWith(type, nullable) == PlainColumns \o <<NamedColumn("v", type, nullable)>>

ProjectedTables ==
    {FileWith(<<>>, TableWith(Appended(<<>>), LandingOf(ColumnsWith(type, nullable), codec, integration),
                              PlainProjection \o <<Entry(name, read, published, kept)>>)) :
       type \in {Int64, Decimal(4)}, nullable \in BOOLEAN, codec \in {Csv, [Csv EXCEPT !.quote = <<",">>]},
       integration \in Integrations, name \in {"k", "v"}, read \in {"at", "v", "w"},
       published \in {Int64, Decimal(2)}, kept \in BOOLEAN}

\* A table that is not a plain production landing of a whole estate.
OddTables ==
    LET plain == TableWith(Appended(<<>>), PlainLanding, PlainProjection)
    IN  {FileWith(<<>>, t) :
           t \in {[plain EXCEPT !.staging = TRUE], [plain EXCEPT !.layer = L!Malformed],
                  [plain EXCEPT !.layer = None], [plain EXCEPT !.product = None],
                  [plain EXCEPT !.landing = None, !.layer = None],
                  [plain EXCEPT !.delivery = None], [plain EXCEPT !.delivery.kind = "other"],
                  [plain EXCEPT !.delivery.kind = "draft", !.layer = None]}}
        \cup {[FileWith(<<>>, plain) EXCEPT !.canonical_mappings = TRUE],
              [FileWith(<<>>, plain) EXCEPT !.default_kind = "draft"]}

LandingFiles == DeliveredTables \cup ProjectedTables \cup OddTables

-----------------------------------------------------------------------------
(* Authorings *)

RulePool ==
    {Ruled("not_null", "error", <<"v">>), Ruled("not_null", "warn", <<"v">>),
     Ruled("unique_key", "error", <<"k", "v">>), InRange("error", Tenths(10), None),
     InRange("error", Tenths(15), Tenths(20)), Accepting(<<Tenths(10), Tenths(20)>>),
     Accepting(<<Tenths(20), Tenths(10)>>),
     [Ruled("row_count", "error", <<>>) EXCEPT !.max = Items(1)]}

Authored(rules, projection) ==
    L!ContractOf("estate", [name |-> <<"s">>, defaults |-> <<>>], <<"t">>,
                 TableWith(Appended(rules),
                           LandingOf(ColumnsWith(Decimal(4), TRUE), Csv, [kind |-> "managed"]),
                           projection))

Projections ==
    LET both == PlainProjection \o <<Entry("v", "v", Decimal(4), TRUE)>>
    IN  {both, Reverse(both)}

Authorings ==
    {c \in {Authored(rules, projection) :
              rules \in {<<>>} \cup {<<r>> : r \in RulePool} \cup {<<r, u>> : r, u \in RulePool},
              projection \in Projections} : L!ContractOK(c)}

-----------------------------------------------------------------------------
(* What an accepted contract means *)

ValuesOf(type) ==
    CASE type[1] = "decimal" -> {Tenths(10), Tenths(15), Tenths(20)}
      [] type[1] = "int64" -> {Whole(1), Whole(2)}
      [] OTHER -> {[type |-> type[1], unscaled |-> 0, scale |-> 0]}

\* The rows of a delivery that parses.
ParsedRows(columns) ==
    {row \in [L!Names(columns) -> UNION {ValuesOf(columns[i].type) : i \in DOMAIN columns} \cup {None}] :
       \A i \in DOMAIN columns :
         row[columns[i].name] \in ValuesOf(columns[i].type)
                                    \cup (IF columns[i].nullable THEN {None} ELSE {})}

\* What a rule finds wrong with row i of a delivery.
Finds(rule, rows, i) ==
    LET value == rows[i][rule.fields[1]]
        key(j) == [f \in ToSet(rule.fields) |-> rows[j][f]]
        inside == /\ rule.min # None => L!AtMost(rule.min, value)
                  /\ rule.max # None => L!AtMost(value, rule.max)
    IN  IF rule.kind = "not_null" THEN value = None
        ELSE IF rule.kind = "unique_key" THEN \E j \in DOMAIN rows \ {i} : key(j) = key(i)
        ELSE IF rule.kind = "row_count" THEN rule.max.unscaled < Len(rows)
        ELSE IF value = None THEN ~rule.nulls
        ELSE IF rule.kind = "range" THEN ~inside
        ELSE value \notin ToSet(rule.values)

\* The severities found in each row.
Verdict(contract, rows) ==
    LET rules == contract.delivery["quality"].rules
    IN  [i \in DOMAIN rows |-> {rules[n].severity : n \in {m \in DOMAIN rules : Finds(rules[m], rows, i)}}]

SomeDeliveries(contract) ==
    LET rows == ParsedRows(contract.landing.columns)
    IN  {<<r>> : r \in rows} \cup {<<r, s>> : r, s \in rows}
=============================================================================
