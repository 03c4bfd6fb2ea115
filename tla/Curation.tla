------------------------------ MODULE Curation ------------------------------
(***************************************************************************)
(* Data curation as it is rendered (dbt_patterns/curation.py): the resolution  *)
(* relation, which clusters records by the key values they share, the evidence  *)
(* of what no key merged, and the one row that survives of each entity.        *)
(*                                                                         *)
(* A record is a row, a function from column names; step declares record_key,   *)
(* keys (names, best first), rounds (merge_iterations), survivorship (a strategy *)
(* for each column), source, recency and priority (precedence), and scoring,     *)
(* None or [block, lower, upper].  SQL orders nulls last, both ways.  Every     *)
(* record has a record key; nothing has two records have two.                 *)
(***************************************************************************)
EXTENDS Integers, Sequences, SequencesExt, FiniteSets, FiniteSetsExt

CONSTANTS
    Null,               \* the SQL null
    None,               \* a part the step does not declare
    MatchScore(_, _)    \* what the declared rule scores a pair of records

-----------------------------------------------------------------------------
(* Resolution *)

\* _edges_body: a record, and a value of a key it carries, under the key's name.
Edges(records, step) ==
    {[record |-> records[i][step.record_key], rank |-> k,
      value |-> <<step.keys[k], records[i][step.keys[k]]>>] :
        i \in DOMAIN records, k \in DOMAIN step.keys}

Carried(edges) == {e \in edges : e.value[2] # Null}

\* Mutant of NextLabels: a record takes the label of its best key alone.
NextLabelsOfBestKey(edges, labels) ==
    LET valueLabel(v) == Min({labels[e.record] : e \in {x \in edges : x.value = v}})
        best(r) == Min({e.rank : e \in {x \in edges : x.record = r}})
    IN  [r \in DOMAIN labels |->
           Min({valueLabel(e.value) : e \in {x \in edges : x.record = r /\ x.rank = best(r)}})]

\* One value round and one label round: the least label of a record of each value, then the
\* least of its values for each record.
NextLabels(edges, labels) ==
    LET valueLabel(v) == Min({labels[e.record] : e \in {x \in edges : x.value = v}})
    IN  [r \in DOMAIN labels |->
           Min({valueLabel(e.value) : e \in {x \in edges : x.record = r}})]

\* _label_rounds
Components(edges, rounds) ==
    LET labels[n \in 0..rounds] ==
          IF n = 0 THEN [r \in {e.record : e \in edges} |-> r]
          ELSE NextLabels(edges, labels[n - 1])
    IN  labels[rounds]

\* _resolved_body: a record no key of which has a value is an entity of its own.
Resolution(records, step) ==
    LET edges == Carried(Edges(records, step))
        components == Components(edges, step.rounds)
        entity(r) == IF r \in DOMAIN components THEN components[r] ELSE r
        members(r) == {s \in DOMAIN components : entity(s) = entity(r)}
        ranks(r) == {e.rank : e \in {x \in edges : x.record \in members(r)}}
    IN  [i \in DOMAIN records |->
           LET r == records[i][step.record_key]
               count == IF r \in DOMAIN components THEN Cardinality(members(r)) ELSE 1
           IN  [row |-> records[i], record |-> r, entity |-> entity(r), count |-> count,
                keyName |-> IF ranks(r) = {} THEN Null ELSE step.keys[Min(ranks(r))],
                pending |-> count = 1]]

-----------------------------------------------------------------------------
(* The pending relation *)

Band(scoring, score) ==
    CASE score = Null -> "unscored"
      [] score # Null /\ score >= scoring.upper -> "accepted"
      [] score # Null /\ score < scoring.upper /\ score >= scoring.lower -> "review"
      [] OTHER -> "rejected"

InOneBlock(scoring, a, b) ==
    \A c \in ToSet(scoring.block) : a.row[c] # Null /\ a.row[c] = b.row[c]

\* _pending_companion: every pending record, or, when pairs are scored, every pair of them
\* in one block.
PendingRelation(resolution, step) ==
    LET pending == {resolution[i] : i \in {j \in DOMAIN resolution : resolution[j].pending}}
    IN  IF step.scoring = None
        THEN {[a |-> p.record, b |-> Null, band |-> "unresolved"] : p \in pending}
        ELSE {[a |-> p[1].record, b |-> p[2].record,
               band |-> Band(step.scoring, MatchScore(p[1].row, p[2].row))] :
                p \in {pair \in pending \X pending :
                         /\ pair[1].record < pair[2].record
                         /\ InOneBlock(step.scoring, pair[1], pair[2])}}

-----------------------------------------------------------------------------
(* Survivorship *)

\* _priority_expression: a source nobody ranked is last.
Priority(step, source) ==
    IF source \in ToSet(step.priority)
    THEN CHOOSE p \in DOMAIN step.priority : step.priority[p] = source
    ELSE Len(step.priority) + 1

\* The terms a column's records are ordered by: a value first, the most recent when that
\* is the strategy, the declared order of sources, the record key.
Ranking(step, column, entry) ==
    LET row == entry.row
        recency == row[step.recency]
    IN  <<IF row[column] = Null THEN 1 ELSE 0,
          IF step.survivorship[column] # "most_recent" THEN <<0, 0>>
          ELSE IF recency = Null THEN <<1, 0>> ELSE <<0, -recency>>,
          Priority(step, row[step.source]), entry.record>>

RanksBefore(a, b) ==
    \/ a[1] < b[1]
    \/ a[1] = b[1] /\ a[2][1] < b[2][1]
    \/ a[1] = b[1] /\ a[2][1] = b[2][1] /\ a[2][2] < b[2][2]
    \/ a[1] = b[1] /\ a[2] = b[2] /\ a[3] < b[3]
    \/ a[1] = b[1] /\ a[2] = b[2] /\ a[3] = b[3] /\ a[4] < b[4]

\* _survivorship_ctes: the record at pick_rank 1; among equals, the first that is read.
Pick(resolution, step, entity, column) ==
    LET members == {i \in DOMAIN resolution : resolution[i].entity = entity}
        rank(i) == Ranking(step, column, resolution[i])
        least == {i \in members : \A j \in members : ~RanksBefore(rank(j), rank(i))}
    IN  resolution[Min(least)].row[column]

\* One row for each entity, each column with the value its strategy picks.
Survivors(resolution, step) ==
    {[entity |-> entity,
      row |-> [c \in DOMAIN step.survivorship |-> Pick(resolution, step, entity, c)]] :
        entity \in {resolution[i].entity : i \in DOMAIN resolution}}

-----------------------------------------------------------------------------
(* What the rendering refuses *)

\* A step names columns the composition carries, texts where it compares them, ranks a
\* survivorship strategy for each and no other, and a number of rounds.
CurationRefusal(step, types) ==
    LET columns == DOMAIN types
        texts == {step.record_key, step.source} \cup ToSet(step.keys)
        block == IF step.scoring = None THEN {} ELSE ToSet(step.scoring.block)
    IN  IF step.rounds < 1 THEN "undeclared_merge_iterations"
        ELSE IF (texts \cup block \cup {step.recency}) \ columns # {} THEN "unresolved_curation_column"
        ELSE IF \E c \in texts : types[c] # "string" THEN "unrenderable_curation_column"
        ELSE IF step.scoring # None /\ step.scoring.lower > step.scoring.upper THEN
               "inverted_review_band"
        ELSE IF columns \ DOMAIN step.survivorship # {} THEN "undeclared_survivorship"
        ELSE IF DOMAIN step.survivorship \ columns # {} THEN "unresolved_survivorship_column"
        ELSE "none"
=============================================================================
