---------------------------- MODULE ScratchStore ----------------------------
(***************************************************************************)
(* The local scratch store (ergasterion/ingestion/local_scratch_store.py):  *)
(* directories of sequential chunks, one per scope, under a ceiling on the   *)
(* capacity they reserve together.                                          *)
(*                                                                         *)
(* A port call maps a process's view st = [scopes, created, error] to its    *)
(* next one.  scopes is what is on disk, created the in-process counter       *)
(* that scope ids are digests of, and error the code of the exception that    *)
(* is on its way up, or Ok; nothing happens after an exception.  A scope id   *)
(* is <<attempt, counter>>, and a chunk a row with its size in bytes.        *)
(***************************************************************************)
EXTENDS Integers, Sequences, FiniteSets

CONSTANTS
    MaxScratchBytes,   \* max_scratch_bytes, the aggregate ceiling
    CapacityBytes      \* the capacity every scope of a validation reserves

ASSUME ScratchParameters == {MaxScratchBytes, CapacityBytes} \subseteq Nat

Ok == "ok"

Raise(st, code) == [st EXCEPT !.error = code]

Size(rows) ==
    LET sum[n \in 0..Len(rows)] == IF n = 0 THEN 0 ELSE sum[n - 1] + rows[n].size
    IN  sum[Len(rows)]

ReservedAggregate(scopes) == CapacityBytes * Cardinality(DOMAIN scopes)

\* The counter moves before the directory is looked at, and not when the
\* ceiling refuses.
CreateScope(st, attempt) ==
    LET n == st.created + 1
        id == <<attempt, n>>
    IN  IF st.error # Ok THEN st
        ELSE IF \/ CapacityBytes < 1
                \/ ReservedAggregate(st.scopes) + CapacityBytes > MaxScratchBytes
             THEN Raise(st, "capacity_exceeded")
        ELSE IF id \in DOMAIN st.scopes
             THEN Raise([st EXCEPT !.created = n], "scope_conflict")
        ELSE [st EXCEPT
                !.created = n,
                !.scopes = [x \in DOMAIN st.scopes \cup {id} |->
                              IF x = id THEN [rows |-> <<>>, closed |-> FALSE]
                              ELSE st.scopes[x]]]

\* What write_sequential answers to the chunk row at sequence.
WriteOutcome(st, attempt, id, sequence, row) ==
    IF id \notin DOMAIN st.scopes \/ id[1] # attempt THEN "scope_owner_mismatch"
    ELSE IF st.scopes[id].closed THEN "scope_closed"
    ELSE IF sequence # Len(st.scopes[id].rows) THEN "sequence_conflict"
    ELSE IF Size(st.scopes[id].rows) + row.size > CapacityBytes THEN "capacity_exceeded"
    ELSE Ok

WriteSequential(st, attempt, id, sequence, row) ==
    LET outcome == WriteOutcome(st, attempt, id, sequence, row)
    IN  IF st.error # Ok THEN st
        ELSE IF outcome # Ok THEN Raise(st, outcome)
        ELSE [st EXCEPT !.scopes[id].rows = Append(@, row)]

\* The rows written one after the other from the sequence on.
WriteRows(st, attempt, id, sequence, rows) ==
    LET after[n \in 0..Len(rows)] ==
          IF n = 0 THEN st
          ELSE WriteSequential(after[n - 1], attempt, id, sequence + n - 1, rows[n])
    IN  after[Len(rows)]

\* The number of rows after the sequence that fit in max_bytes together.
\* Sequences start at 0, so the row of sequence s is rows[s + 1].
Fits(rows, after, max_bytes) ==
    CHOOSE k \in 0..(Len(rows) - after - 1) :
      /\ Size(SubSeq(rows, after + 2, after + 1 + k)) <= max_bytes
      /\ k < Len(rows) - after - 1 =>
           Size(SubSeq(rows, after + 2, after + 2 + k)) > max_bytes

\* read_sequential: what it answers, the page and whether there is another.
ReadSequential(st, attempt, id, after, max_bytes) ==
    LET rows == st.scopes[id].rows
        k == Fits(rows, after, max_bytes)
        more == after + 1 + k < Len(rows)
        outcome ==
          IF id \notin DOMAIN st.scopes THEN "not_found"
          ELSE IF id[1] # attempt THEN "scope_owner_mismatch"
          ELSE IF ~st.scopes[id].closed THEN "scope_open"
          ELSE IF more /\ rows[after + 2 + k].size > max_bytes THEN "item_too_large"
          ELSE Ok
    IN  IF outcome # Ok THEN [error |-> outcome, chunks |-> <<>>, more |-> FALSE]
        ELSE [error |-> Ok, chunks |-> SubSeq(rows, after + 2, after + 1 + k),
              more |-> more]

CloseScope(st, attempt, id) ==
    IF st.error # Ok THEN st
    ELSE IF id \notin DOMAIN st.scopes \/ id[1] # attempt
         THEN Raise(st, "not_found")
    ELSE [st EXCEPT !.scopes[id].closed = TRUE]

\* delete_scope of each of ids that is there; a refusal is swallowed.
DeleteScopes(scopes, ids) == [x \in DOMAIN scopes \ ids |-> scopes[x]]
=============================================================================
