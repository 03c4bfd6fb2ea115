------------------------ MODULE RemediationRepository ------------------------
(***************************************************************************)
(* The remediation repository over the DuckDB file: immutable decisions and *)
(* the index of released locators                                          *)
(* (ergasterion/ingestion/duckdb_remediation.py).                           *)
(*                                                                         *)
(* An evaluation belongs to one disposition <<attempt, frame>> and is named *)
(* by it; so is the release of the evaluation, and so the two decisions an   *)
(* evaluation can have, "evaluated" and "released".                         *)
(***************************************************************************)
EXTENDS Naturals, Sequences, FiniteSets

CONSTANTS
    Stream,         \* the logical identity
    NoIdentity,     \* the empty identity key
    DecisionPage    \* max_items of one RemediationDecisionQuery

ASSUME RepositoryAssumption ==
    /\ Stream # NoIdentity
    /\ DecisionPage \in Nat \ {0}

VARIABLES
    decisions,      \* the recorded decisions, with the identity they are under
    claims          \* the released locators and the decision that owns each

repositoryVars == <<decisions, claims>>

RepositoryInit == decisions = {} /\ claims = {}

DecisionId(d) == <<d.kind, d.evaluation>>

\* The identity a decision is stored under is the one of the disposition row
\* its first disposition id names: an evaluation carries none.  known is the
\* set of the disposition ids that exist.
IdentityOf(d, known) ==
    IF d.disposition_ids[1] \in known THEN Stream ELSE NoIdentity

Prior(d) == {p \in decisions : DecisionId(p.decision) = DecisionId(d)}

\* _claim_locators refuses a locator another decision owns.
ClaimsConflict(d) ==
    \E l \in d.locators, c \in claims : c.locator = l /\ c.decision # DecisionId(d)

\* What record_decision answers.
RecordOutcome(d) ==
    IF d.disposition_ids = <<>> THEN "integrity_error"
    ELSE IF \E p \in Prior(d) : p.decision # d THEN "decision_conflict"
    ELSE IF \E p \in Prior(d) : p.decision = d THEN "replayed"
    ELSE IF d.kind = "released" /\ ClaimsConflict(d) THEN "release_conflict"
    ELSE "recorded"

\* record_decision: one transaction for the claims and the decision.
RecordDecision(d, known) ==
    /\ RecordOutcome(d) \in {"recorded", "replayed"}
    /\ decisions' = decisions \cup
         IF RecordOutcome(d) = "replayed" THEN {}
         ELSE {[decision |-> d, identity |-> IdentityOf(d, known)]}
    /\ claims' = claims \cup
         IF RecordOutcome(d) = "replayed" THEN {}
         ELSE {[locator |-> l, decision |-> DecisionId(d)] : l \in d.locators}

\* decision_query: the decisions of the stream, of one disposition when one is
\* named, by decided_at.  The order among equal instants is the one of the
\* decision digests, so any.
Matches(disposition) ==
    {p.decision : p \in {q \in decisions :
        /\ q.identity = Stream
        /\ \/ disposition = NoIdentity
           \/ \E i \in 1..Len(q.decision.disposition_ids) :
                q.decision.disposition_ids[i] = disposition}}

InPage(d, found) ==
    Cardinality({e \in found \ {d} : e.decided_at < d.decided_at}) < DecisionPage

DecisionQuery(disposition) ==
    {d \in Matches(disposition) : InPage(d, Matches(disposition))}
=============================================================================
