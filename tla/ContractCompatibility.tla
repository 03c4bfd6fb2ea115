------------------------ MODULE ContractCompatibility ------------------------
(***************************************************************************)
(* Canonical landing contracts and the change between two of them, as the     *)
(* compatibility classifier of ergasterion/source_delivery.py sees it.        *)
(*                                                                         *)
(* A contract is a record.  Its plain fields hold opaque values; columns maps   *)
(* a column to [type, nullable], projection a published name to [source, type, *)
(* nullable].  snapshot is NoSnapshot or [scope, trust]; integration is        *)
(* [kind, references, trust], with nothing in the last two when it is managed.  *)
(* A contract is its own digest.                                             *)
(***************************************************************************)
EXTENDS Integers, Sequences

CONSTANT NoSnapshot

\* The fields of a contract that bind a delivery or a consumer.
BoundFields ==
    {"domain", "coordinates", "codec", "encodings", "mode", "progress", "timestamps",
     "record_key", "delete_strategy", "tombstone"}

\* The fields a consumer reads but is not bound to.
ReadFields == {"schedule", "facts", "quality"}

\* Two authorings of one contract: order in declared sets, in columns, in the
\* projection and among the rules reaches no digest, so a contract holds them as
\* sets and functions here.
ColumnMap(columns) == [c \in DOMAIN columns |-> <<columns[c].type, columns[c].nullable>>]

IntegrationMajorChange(prior, candidate) ==
    \/ prior.kind # candidate.kind
    \/ prior.kind = "external" /\ prior.references # candidate.references

IntegrationMinorChange(prior, candidate) ==
    /\ prior.kind = "external"
    /\ candidate.kind = "external"
    /\ prior.trust # candidate.trust

SnapshotMajorChange(prior, candidate) ==
    \/ (prior = NoSnapshot) # (candidate = NoSnapshot)
    \/ /\ prior # NoSnapshot
       /\ candidate # NoSnapshot
       /\ prior.scope # candidate.scope

SnapshotMinorChange(prior, candidate) ==
    /\ prior # NoSnapshot
    /\ candidate # NoSnapshot
    /\ prior.trust # candidate.trust

\* A column of the prior map is removed, retyped or renullabled.
Broken(prior, candidate) ==
    \E c \in DOMAIN prior : c \notin DOMAIN candidate \/ candidate[c] # prior[c]

\* A column the prior map lacks is required.
Requires(prior, candidate) ==
    \E c \in DOMAIN candidate \ DOMAIN prior : ~candidate[c][2]

\* Mutant of HasMajorChange: a new column may be required.
HasBreakingChange(prior, candidate) ==
    \/ \E f \in BoundFields : prior[f] # candidate[f]
    \/ IntegrationMajorChange(prior.integration, candidate.integration)
    \/ SnapshotMajorChange(prior.snapshot, candidate.snapshot)
    \/ Broken(ColumnMap(prior.columns), ColumnMap(candidate.columns))
    \/ Broken(ColumnMap(prior.projection), ColumnMap(candidate.projection))

HasMajorChange(prior, candidate) ==
    \/ \E f \in BoundFields : prior[f] # candidate[f]
    \/ IntegrationMajorChange(prior.integration, candidate.integration)
    \/ SnapshotMajorChange(prior.snapshot, candidate.snapshot)
    \/ Broken(ColumnMap(prior.columns), ColumnMap(candidate.columns))
    \/ Broken(ColumnMap(prior.projection), ColumnMap(candidate.projection))
    \/ Requires(ColumnMap(prior.columns), ColumnMap(candidate.columns))
    \/ Requires(ColumnMap(prior.projection), ColumnMap(candidate.projection))

HasMinorChange(prior, candidate) ==
    \/ DOMAIN candidate.columns \ DOMAIN prior.columns # {}
    \/ DOMAIN candidate.projection \ DOMAIN prior.projection # {}
    \/ \E f \in ReadFields : prior[f] # candidate[f]
    \/ IntegrationMinorChange(prior.integration, candidate.integration)
    \/ SnapshotMinorChange(prior.snapshot, candidate.snapshot)

\* classify_contract_change.  The version is part of a contract, so a bump
\* alone is a patch.
ClassifyContractChange(prior, candidate) ==
    IF prior.identity # candidate.identity THEN "new_product"
    ELSE IF prior = candidate THEN "none"
    ELSE IF HasMajorChange(prior, candidate) THEN "major"
    ELSE IF HasMinorChange(prior, candidate) THEN "minor"
    ELSE "patch"

Before(v, w) ==
    \/ v[1] < w[1]
    \/ v[1] = w[1] /\ v[2] < w[2]
    \/ v[1] = w[1] /\ v[2] = w[2] /\ v[3] < w[3]

\* Mutant of SemverBumpOK: any increase is enough.
SemverIncreases(prior, candidate, required) ==
    required = "none" \/ Before(prior, candidate)

\* validate_semver_bump over the cores of two versions.
SemverBumpOK(prior, candidate, required) ==
    \/ required = "none"
    \/ /\ Before(prior, candidate)
       /\ required = "major" => candidate[1] > prior[1]
       /\ required = "minor" => Before(<<prior[1], prior[2], 0>>,
                                       <<candidate[1], candidate[2], 0>>)

RequiredMigrationKind(change) ==
    IF change \in {"none", "patch", "minor"} THEN "carry" ELSE "reset"
=============================================================================
