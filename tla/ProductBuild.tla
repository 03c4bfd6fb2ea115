---------------------------- MODULE ProductBuild ----------------------------
(***************************************************************************)
(* Runs of the dbt project emitted for one product that filters, validates     *)
(* and publishes (ergasterion/translators/dbt_patterns/__init__.py).          *)
(*                                                                         *)
(* The chain is cut into a view before the filter and one of the checked rows; *)
(* the filter log, the quarantine and the product's model are tables over       *)
(* them, the SLA record and a consuming product's model tables over the model.  *)
(* What dbt does with the nodes, build in dependency order, skip what is below   *)
(* a failed node or test, replace a table in one step, is external.            *)
(***************************************************************************)
EXTENDS ProductEvidence

CONSTANTS
    Sources,        \* what the product's source can hold: sequences of rows
    Validations,    \* the declared validations
    Modes,          \* the declared publication modes
    MaxRuns,        \* bound on runs
    NoTable         \* a relation no run has built

VARIABLES
    source,         \* the rows of the relation the product reads
    occurrence,     \* the validation it declares
    mode,           \* how it publishes
    table,          \* what each table of the product holds
    node,           \* where the run is with each node
    moved,          \* whether the source has changed since the run started
    builtFrom,      \* the source the model was last built from
    runs            \* runs started

buildVars == <<source, occurrence, mode, table, node, moved, builtFrom, runs>>

Tables == {"filter_log", "quarantine", "model", "sla", "consumer"}
Tests == {"checked_tests", "compliance_test"}
Nodes == Tables \cup Tests

\* Mutant of Upstream: the readers of the model do not wait for its test.
UpstreamOfModels(n) ==
    CASE n \in {"quarantine", "model"} -> {"checked_tests"}
      [] n = "compliance_test" -> {"model"}
      [] n \in {"sla", "consumer"} -> {"model"}
      [] OTHER -> {}

\* What dbt builds before a node: the models it refers to, and their tests.
Upstream(n) ==
    CASE n \in {"quarantine", "model"} -> {"checked_tests"}
      [] n = "compliance_test" -> {"model"}
      [] n \in {"sla", "consumer"} -> {"model", "compliance_test"}
      [] OTHER -> {}

-----------------------------------------------------------------------------
(* The relations of the chain *)

\* The rows of the view of checked rows: it is read through, whenever it is read.
Checked == Filtered(source)

\* Mutant of PublishedOver: rows are added without replacing those of their key.
AppendedTo(published, rows) ==
    IF mode = "atomic" \/ published = NoTable THEN rows ELSE published \o rows

\* What the model holds once it has published rows: all of them, or, for an incremental
\* publication, them and the rows of no key they carry.  A null is no key's equal.
PublishedOver(published, rows) ==
    IF mode = "atomic" \/ published = NoTable THEN rows
    ELSE SelectSeq(published, LAMBDA old :
           \A i \in DOMAIN rows : old.key = Null \/ rows[i].key # old.key) \o rows

Built(n) ==
    CASE n = "filter_log" -> FilterLog(source)
      [] n = "quarantine" -> Quarantine(occurrence, Checked)
      [] n = "model" -> PublishedOver(table["model"], Resumed(occurrence, Checked))
      [] n = "sla" -> Len(table["model"])
      [] n = "consumer" -> table["model"]

TestPasses(n) ==
    CASE n = "checked_tests" -> CheckedTestsPass(occurrence, Checked)
      [] n = "compliance_test" -> Complies(occurrence, table["model"])

-----------------------------------------------------------------------------

BuildInit ==
    /\ source \in Sources /\ occurrence \in Validations /\ mode \in Modes
    /\ table = [t \in Tables |-> NoTable]
    /\ node = [n \in Nodes |-> "idle"]
    /\ moved = FALSE /\ builtFrom = NoTable /\ runs = 0

Running == \E n \in Nodes : node[n] = "waiting"

\* External: what is upstream of the product lands another delivery, at any moment; the
\* bound is one for every run.
Deliver(rows) ==
    /\ rows # source /\ ~moved
    /\ source' = rows /\ moved' = TRUE
    /\ UNCHANGED <<occurrence, mode, table, node, builtFrom, runs>>

StartRun ==
    /\ ~Running /\ runs < MaxRuns
    /\ node' = [n \in Nodes |-> "waiting"] /\ moved' = FALSE /\ runs' = runs + 1
    /\ UNCHANGED <<source, occurrence, mode, table, builtFrom>>

Ready(n) == node[n] = "waiting" /\ \A m \in Upstream(n) : node[m] = "done"

BuildTable(n) ==
    /\ n \in Tables /\ Ready(n)
    /\ table' = [table EXCEPT ![n] = Built(n)]
    /\ node' = [node EXCEPT ![n] = "done"]
    /\ builtFrom' = IF n = "model" THEN source ELSE builtFrom
    /\ UNCHANGED <<source, occurrence, mode, moved, runs>>

Below(n) ==
    {m \in Nodes : n \in Upstream(m) \/ \E o \in Upstream(m) : n \in Upstream(o)}

\* A node that fails, and the nodes dbt skips for it.
Failed(n) == [m \in Nodes |-> IF m = n \/ m \in Below(n) THEN "failed" ELSE node[m]]

RunTests(n) ==
    /\ n \in Tests /\ Ready(n)
    /\ node' = IF TestPasses(n) THEN [node EXCEPT ![n] = "done"] ELSE Failed(n)
    /\ UNCHANGED <<source, occurrence, mode, table, moved, builtFrom, runs>>

\* The adapter fails a node, and its table stays as it was.
FailNode(n) ==
    /\ Ready(n)
    /\ node' = Failed(n)
    /\ UNCHANGED <<source, occurrence, mode, table, moved, builtFrom, runs>>

\* The process running dbt dies.
Interrupt ==
    /\ Running
    /\ node' = [n \in Nodes |-> IF node[n] = "waiting" THEN "failed" ELSE node[n]]
    /\ UNCHANGED <<source, occurrence, mode, table, moved, builtFrom, runs>>

BuildNext ==
    \/ \E rows \in Sources : Deliver(rows)
    \/ StartRun
    \/ \E n \in Nodes : BuildTable(n) \/ RunTests(n) \/ FailNode(n)
    \/ Interrupt

-----------------------------------------------------------------------------
(* Correctness *)

Succeeded == runs > 0 /\ \A n \in Nodes : node[n] = "done"

Count(rows, Test(_)) == Len(SelectSeq(rows, Test))

\* A quarantine keeps every row whose violation is true or cannot be decided off the
\* published side, whatever ran, failed or moved; an abort publishes no row its tests
\* reject, unless the source moved after they read it.
PublishedMeetsRules ==
    table["model"] # NoTable =>
      /\ occurrence.policy = "quarantine" =>
           Count(table["model"], LAMBDA row : Broken(occurrence, row) \in {TRUE, Null}) = 0
      /\ occurrence.policy = "abort" /\ Succeeded /\ ~moved /\ mode = "atomic" =>
           Count(table["model"], LAMBDA row : Broken(occurrence, row) = TRUE) = 0

\* After a run that succeeded over a source that stood still, every row of the source is
\* counted by the filter log, kept by the quarantine or published.
EveryRowAccounted ==
    Succeeded /\ ~moved =>
      Len(source) =
        table["filter_log"]
          + Count(source, LAMBDA row : row \in ToSet(table["model"]))
          + (IF occurrence.policy = "quarantine" THEN Len(table["quarantine"]) ELSE 0)

\* What reads the product never holds a null its contract says is not there, even when
\* the model itself was replaced by rows that do.
ViolationStopsDownstream ==
    occurrence.notNull /\ table["consumer"] # NoTable =>
      Count(table["consumer"], LAMBDA row : row.value = Null) = 0

\* The rows that carry a key, each with how often the relation has it.
Keyed(rows) ==
    LET keyed == SelectSeq(rows, LAMBDA row : row.key # Null)
    IN  [row \in ToSet(keyed) |-> Count(keyed, LAMBDA other : other = row)]

\* Building the model again over an unchanged source leaves every row with a key as it was.
RerunChangesNothing ==
    [][table'["model"] # table["model"] /\ builtFrom = source =>
         Keyed(table'["model"]) = Keyed(table["model"])]_buildVars
=============================================================================
