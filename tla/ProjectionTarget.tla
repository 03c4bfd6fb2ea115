--------------------------- MODULE ProjectionTarget ---------------------------
(***************************************************************************)
(* The projection publisher and its target                                 *)
(* (ergasterion/ingestion/duckdb_projection.py).  The target's cursor,      *)
(* published ledger, stream status and applied rows are written in one      *)
(* DuckDB transaction per intent; they are determined by the sequence of    *)
(* intents applied, which is the state kept here.                           *)
(***************************************************************************)
EXTENDS Integers, Sequences

VARIABLE applied   \* projection_applied: the intents in the order applied

\* read_cursor: the revision of the last applied intent.
Cursor ==
    IF applied = <<>> THEN 0 ELSE applied[Len(applied)].projection_revision

\* The intent's confirmation is already stored.
AlreadyApplied(intent) == \E r \in 1..Len(applied) : applied[r] = intent

\* Mutant of Accepts: a gap is let through.
AcceptsLater(intent) ==
    AlreadyApplied(intent) \/ intent.projection_revision > Cursor

\* apply_gap_ordered accepts an intent it has applied, answering from the
\* stored confirmation, and the intent at the revision after the cursor.
Accepts(intent) ==
    AlreadyApplied(intent) \/ intent.projection_revision = Cursor + 1

\* Mutant of ApplyGapOrdered: an intent it has applied is applied again.
ApplyAgain(intent) ==
    /\ Accepts(intent)
    /\ applied' = Append(applied, intent)

ApplyGapOrdered(intent) ==
    /\ Accepts(intent)
    /\ applied' = IF AlreadyApplied(intent) THEN applied
                                            ELSE Append(applied, intent)

=============================================================================
