-------------------------- MODULE ProductEvidence --------------------------
(***************************************************************************)
(* The relations an occurrence that filters or validates cuts a product's     *)
(* chain into (ergasterion/translators/dbt_patterns/filtering.py and          *)
(* validation.py, macros/filter_log.sql and quarantine.sql), and the tests     *)
(* generated over them.                                                     *)
(*                                                                         *)
(* A relation is a sequence of rows [id, key, part, value]; one predicate is   *)
(* declared over part and one rule over value, and each answers what SQL does: *)
(* TRUE, FALSE or Null.  An occurrence is [policy, threshold, notNull]: its    *)
(* on_failure policy, its ceiling in percent, and whether its rule is not_null, *)
(* which has the contract publish value as required.                         *)
(***************************************************************************)
EXTENDS Integers, Sequences, SequencesExt, FiniteSets

CONSTANTS
    Null,       \* the SQL null
    Keeps(_),   \* what the declared predicate answers for a part
    Breaks(_)   \* what another rule than not_null answers for a value

-----------------------------------------------------------------------------
(* Filtering *)

\* dpf_excluded_count: false or unknown.
Excluded(row) == Keeps(row.part) \in {FALSE, Null}

FilterLog(rows) == Len(SelectSeq(rows, Excluded))

\* The chain resumes with the rows the predicate is true for.
Filtered(rows) == SelectSeq(rows, LAMBDA row : Keeps(row.part) = TRUE)

-----------------------------------------------------------------------------
(* Validation *)

Broken(occurrence, row) ==
    IF occurrence.notNull THEN row.value = Null ELSE Breaks(row.value)

\* coalesce(violation, true)
Violates(occurrence, row) == Broken(occurrence, row) \in {TRUE, Null}

\* The checked relation is every row with its violation; the quarantine the failing ones.
Quarantine(occurrence, rows) == SelectSeq(rows, LAMBDA row : Violates(occurrence, row))

\* What the chain resumes with: only quarantine diverts.
Resumed(occurrence, rows) ==
    IF occurrence.policy = "quarantine"
    THEN SelectSeq(rows, LAMBDA row : ~Violates(occurrence, row)) ELSE rows

\* dpf_error_threshold: never breached by an empty relation.
BreachesThreshold(occurrence, rows) ==
    rows # <<>> /\ 100 * Len(Quarantine(occurrence, rows)) > occurrence.threshold * Len(rows)

\* The generated rule test reads the rule itself, and passes what cannot be decided.
RuleTestFails(occurrence, rows) == \E i \in DOMAIN rows : Broken(occurrence, rows[i]) = TRUE

\* The tests at error severity on the checked relation.
CheckedTestsPass(occurrence, rows) ==
    CASE occurrence.policy = "abort" -> ~RuleTestFails(occurrence, rows)
      [] occurrence.policy = "quarantine" -> ~BreachesThreshold(occurrence, rows)
      [] OTHER -> TRUE

\* dpf_contract_compliance: no null in a required column.
Complies(occurrence, rows) ==
    occurrence.notNull => \A i \in DOMAIN rows : rows[i].value # Null
=============================================================================
