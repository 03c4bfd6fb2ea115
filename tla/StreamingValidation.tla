------------------------ MODULE StreamingValidation ------------------------
(***************************************************************************)
(* validate_frames (ergasterion/ingestion/validation.py) as quarantine      *)
(* revalidate runs it: frames stream through the quality rules under a bound *)
(* on the bytes held in memory; unit states and the tags of unique keys that *)
(* do not fit spill to the scratch store, and duplicates are found by an     *)
(* external merge sort of the tags.                                         *)
(*                                                                         *)
(* A frame is [size, parsed, values]; parsed is false when it has a parse or *)
(* type error or no typed fields.  A finding is <<rule, code>>.  A step is    *)
(* one frame, one merge or one phase; a process may die between two steps,    *)
(* and the next process starts from what is on disk.                        *)
(***************************************************************************)
EXTENDS ScratchStore

CONSTANTS
    Evaluations,    \* the evaluation ids, which own the scopes
    FrameKinds,     \* the frames a delivery may hold
    MaxFrames,      \* bound: frames of a delivery
    Budgets,        \* the values of memory_budget_bytes
    Policies,       \* [mode, fraction, delivery, progress] of quality policies
    Rules,          \* the authored quality rules, in order
    Null,           \* a null value
    TagSize,        \* encoded bytes of a uniqueness record
    UnitSize,       \* encoded bytes of a unit record
    MaxStarts       \* bound: revalidate commands

ASSUME ValidationParameters ==
    /\ Budgets \subseteq Nat \ {0}
    /\ {TagSize, UnitSize} \subseteq Nat \ {0}
    /\ {MaxFrames, MaxStarts} \subseteq Nat
    /\ Evaluations # {}

\* What the rules read of a frame: the fields of a unique key have values of
\* one ordered kind, or none.
ASSUME ValidationInputs ==
    /\ DOMAIN Rules = 1..Len(Rules) /\ Len(Rules) \in Nat
    /\ \A f \in FrameKinds : f.size \in Nat /\ f.parsed \in BOOLEAN
    /\ \A r \in DOMAIN Rules : Rules[r].kind = "unique_key" =>
         /\ DOMAIN Rules[r].fields = 1..Len(Rules[r].fields)
         /\ Len(Rules[r].fields) \in Nat
         /\ \A f \in FrameKinds : f.parsed =>
              \A i \in DOMAIN Rules[r].fields : f.values[Rules[r].fields[i]] \in {Null} \cup Int

VARIABLES
    scopes,     \* the scopes on disk
    delivery,   \* the candidate frames, as the landing tables keep them
    budget,     \* memory_budget_bytes of the binding
    policy,     \* the quality policy of the contract
    pc,         \* the phase of the running validation
    v,          \* what the running validation holds in memory
    outcome,    \* the last outcome: NoOutcome, an error code, or the result
    starts      \* revalidate commands so far

vars == <<scopes, delivery, budget, policy, pc, v, outcome, starts>>

NoScope == <<>>
NoOutcome == [error |-> "none", dispositions |-> <<>>, decision |-> "none"]

\* A validation before its first frame, over the scopes on disk.
Fresh(owner, disk) ==
    [owner |-> owner, frame |-> 0, meter |-> 0, peak |-> 0,
     tags |-> <<>>, units |-> <<>>, spill |-> NoScope, unit |-> NoScope,
     work |-> {}, runs |-> <<>>, merged |-> <<>>, duplicates |-> {},
     found |-> DOMAIN disk, scopes |-> disk, created |-> 0, error |-> Ok]

-----------------------------------------------------------------------------
(* The memory meter *)

WouldExceed(w, nbytes) == w.meter + nbytes > budget

Charge(w, nbytes) ==
    [w EXCEPT !.meter = @ + nbytes,
              !.peak = IF w.meter + nbytes > @ THEN w.meter + nbytes ELSE @]

Release(w, nbytes) ==
    [w EXCEPT !.meter = IF @ > nbytes THEN @ - nbytes ELSE 0]

-----------------------------------------------------------------------------
(* Quality rules *)

UniqueRules == {r \in DOMAIN Rules : Rules[r].kind = "unique_key"}

\* The findings of one field rule, over the values of a parsed frame.
FieldFinding(r, values) ==
    LET rule == Rules[r]
        value == values[rule.field]
        forbidden == value = Null /\ ~(rule.nullable /\ rule.allow_null)
    IN  IF rule.kind = "not_null" THEN
               (IF value = Null THEN {<<r, "null_not_allowed">>} ELSE {})
        ELSE IF forbidden THEN {<<r, "null_not_allowed">>}
        ELSE IF value = Null THEN {}
        ELSE IF rule.kind = "accepted_values" THEN
               (IF value \in rule.values THEN {}
                ELSE {<<r, "accepted_value_violation">>})
        ELSE IF value < rule.min \/ value > rule.max
        THEN {<<r, "range_violation">>} ELSE {}

\* _evaluate_field_rules
FieldFindings(values) ==
    UNION {FieldFinding(r, values) :
             r \in {q \in DOMAIN Rules : Rules[q].kind \notin {"row_count", "unique_key"}}}

\* _unique_key_tag: the key of a frame under a unique rule, Null when one of
\* its fields is.
UniqueKeyTag(r, values) ==
    LET fields == Rules[r].fields
    IN  IF \E i \in DOMAIN fields : values[fields[i]] = Null THEN Null
        ELSE [i \in DOMAIN fields |-> values[fields[i]]]

\* _row_count_findings
RowCountFindings(framed) ==
    {<<r, "row_count_violation">> :
       r \in {q \in DOMAIN Rules :
                /\ Rules[q].kind = "row_count"
                /\ (framed < Rules[q].min \/ framed > Rules[q].max)}}

IsError(finding) == Rules[finding[1]].severity = "error"

\* decide_publication.  An impossible policy is an exception.
DecidePublication(framed, errors, batch_error) ==
    LET partial == /\ policy.mode = "publish_valid_rows"
                   /\ policy.delivery = "append_only"
                   /\ policy.progress = "opaque_batch"
    IN  IF policy.mode = "publish_valid_rows" /\ ~partial THEN "invalid_config"
        ELSE IF policy.mode = "all_or_nothing" /\ policy.fraction # 0 THEN "invalid_config"
        ELSE IF partial /\ policy.fraction \notin 0..99 THEN "invalid_config"
        ELSE IF batch_error THEN "reject_delivery"
        ELSE IF framed = 0 \/ errors = 0 THEN "publish_all"
        ELSE IF ~partial \/ errors = framed THEN "reject_delivery"
        ELSE IF 100 * errors > policy.fraction * framed THEN "reject_delivery"
        ELSE "publish_valid_rows"

-----------------------------------------------------------------------------
(* Spilling *)

EnsureScope(w, id) == IF id = NoScope THEN CreateScope(w, w.owner) ELSE w

NextRow(w, id) == IF id \in DOMAIN w.scopes THEN Len(w.scopes[id].rows) ELSE 0

\* _UniqueSpill.spill_retained: the retained tags are written, rule by rule.
SpillTags(w) ==
    LET made == EnsureScope(w, w.spill)
        id == IF w.spill = NoScope THEN <<w.owner, made.created>> ELSE w.spill
    IN  IF w.error # Ok \/ w.tags = <<>> THEN w
        ELSE IF made.error # Ok THEN made
        ELSE Release([WriteRows(made, w.owner, id, NextRow(made, id), w.tags) EXCEPT
                        !.spill = id, !.tags = <<>>], Size(w.tags))

\* _UnitBuffer.spill_retained
SpillUnits(w) ==
    LET made == EnsureScope(w, w.unit)
        id == IF w.unit = NoScope THEN <<w.owner, made.created>> ELSE w.unit
    IN  IF w.error # Ok \/ w.units = <<>> THEN w
        ELSE IF made.error # Ok THEN made
        ELSE Release([WriteRows(made, w.owner, id, NextRow(made, id), w.units) EXCEPT
                        !.unit = id, !.units = <<>>], Size(w.units))

\* Room for nbytes once spilled has spilled what it could.
Reserve(w, spilled, nbytes) ==
    LET room == IF WouldExceed(w, nbytes) THEN spilled ELSE w
    IN  IF w.error # Ok THEN w
        ELSE IF room.error # Ok THEN room
        ELSE IF WouldExceed(room, nbytes) THEN Raise(room, "capacity_exceeded")
        ELSE Charge(room, nbytes)

\* _UniqueSpill.observe: only tags are spilled to make room for a tag.
Observe(w, r, tag, sequence) ==
    LET row == [rule |-> r, tag |-> tag, sequence |-> sequence, size |-> TagSize]
        room == Reserve(w, SpillTags(w), TagSize)
    IN  IF room.error # Ok THEN room ELSE [room EXCEPT !.tags = Append(@, row)]

\* The unique rules of a frame, in order; those whose key is null are skipped.
ObserveKeys(w, frame, sequence) ==
    LET after[r \in 0..Len(Rules)] ==
          IF r = 0 THEN w
          ELSE IF r \notin UniqueRules \/ UniqueKeyTag(r, frame.values) = Null
               THEN after[r - 1]
          ELSE Observe(after[r - 1], r, UniqueKeyTag(r, frame.values), sequence)
    IN  IF frame.parsed THEN after[Len(Rules)] ELSE w

RuleFindings(frame) ==
    IF ~frame.parsed THEN {}
    ELSE FieldFindings(frame.values) \cup
         {<<r, "null_not_allowed">> :
            r \in {q \in UniqueRules : UniqueKeyTag(q, frame.values) = Null}}

\* _UnitBuffer.add: only units are spilled to make room for a unit.
AddUnit(w, frame, sequence) ==
    LET row == [sequence |-> sequence, parsed |-> frame.parsed,
                findings |-> RuleFindings(frame), size |-> UnitSize]
        room == Reserve(w, SpillUnits(w), UnitSize)
    IN  IF room.error # Ok THEN room ELSE [room EXCEPT !.units = Append(@, row)]

\* Mutant of ValidateOne: the frame stays charged.
ValidateUnreleased(w, frame, sequence) ==
    AddUnit(ObserveKeys(Reserve(w, SpillUnits(SpillTags(w)), frame.size),
                        frame, sequence),
            frame, sequence)

\* A frame that is held is observed and let go of.
ValidateHeld(held, frame, sequence) ==
    IF held.error # Ok THEN held
    ELSE AddUnit(Release(ObserveKeys(held, frame, sequence), frame.size), frame, sequence)

\* One frame of the loop of validate_frames.
ValidateOne(w, frame, sequence) ==
    ValidateHeld(Reserve(w, SpillUnits(SpillTags(w)), frame.size), frame, sequence)

-----------------------------------------------------------------------------
(* Duplicates: an external merge sort of the spilled tags *)

\* _tag_sort_key: rule, tag, sequence.  The order of two tags is the order of
\* their digests in the code and of their values here: any total order does.
TagLess(s, t) ==
    \E i \in DOMAIN s : s[i] < t[i] /\ \A j \in 1..(i - 1) : s[j] = t[j]

Before(a, b) ==
    \/ a.rule < b.rule
    \/ a.rule = b.rule /\ TagLess(a.tag, b.tag)
    \/ a.rule = b.rule /\ a.tag = b.tag /\ a.sequence <= b.sequence

\* The rows in that order: the i-th has i rows up to it.
Sorted(rows) ==
    LET upto(n) == {m \in DOMAIN rows : Before(rows[m], rows[n])}
    IN  [i \in DOMAIN rows |-> rows[CHOOSE n \in DOMAIN rows : Cardinality(upto(n)) = i]]

\* All the rows of a closed scope, page by page.
ReadAll(w, id) ==
    LET rows == w.scopes[id].rows
        from[after \in -1..(Len(rows) - 1)] ==
          LET page == ReadSequential(w, w.owner, id, after, budget)
          IN  IF page.more
              THEN page.chunks \o from[after + Len(page.chunks)]
              ELSE page.chunks
    IN  from[-1]

\* The rows cut into runs that fit in memory.
Runs(rows) ==
    LET cut[n \in 0..Len(rows)] ==
          IF n = 0 THEN <<>>
          ELSE LET so == cut[n - 1]
               IN  IF \/ so = <<>>
                      \/ Size(so[Len(so)]) + rows[n].size > budget
                   THEN Append(so, <<rows[n]>>)
                   ELSE [so EXCEPT ![Len(so)] = Append(@, rows[n])]
    IN  cut[Len(rows)]

SortedRuns(runs) == [i \in DOMAIN runs |-> Sorted(runs[i])]

\* The runs one after the other in a scope, which is closed after them.
WriteRuns(w, id, runs) ==
    LET flat[i \in 0..Len(runs)] == IF i = 0 THEN <<>> ELSE flat[i - 1] \o runs[i]
        written == WriteRows(w, w.owner, id, 0, flat[Len(runs)])
    IN  [CloseScope(written, w.owner, id) EXCEPT
           !.work = @ \cup {id},
           !.runs = [i \in DOMAIN runs |-> <<id, Len(flat[i - 1]), Len(flat[i]) - 1>>]]

\* _build_sorted_runs: every run is sorted and written to one work scope.  A
\* run is remembered by its scope and its first and last sequence.
BuildSortedRuns(w) ==
    LET made == CreateScope(w, w.owner)
    IN  IF made.error # Ok THEN made
        ELSE WriteRuns(made, <<w.owner, made.created>>, SortedRuns(Runs(ReadAll(w, w.spill))))

RunRows(w, run) == SubSeq(w.scopes[run[1]].rows, run[2] + 1, run[3] + 1)

\* Mutant of Merge: what is left of a run is left behind when the other ends.
MergeShort(left, right) ==
    LET taken[k \in 0..(Len(left) + Len(right))] ==
          IF k = 0 THEN 0
          ELSE LET i == taken[k - 1]
                   j == k - 1 - i
               IN  IF i = Len(left) \/ j >= Len(right) THEN i
                   ELSE IF Before(left[i + 1], right[j + 1]) THEN i + 1 ELSE i
        ended == CHOOSE k \in DOMAIN taken :
                   /\ taken[k] = Len(left) \/ k - taken[k] = Len(right)
                   /\ \A m \in 0..(k - 1) : taken[m] # Len(left) /\ m - taken[m] # Len(right)
    IN  [k \in 1..ended |-> IF taken[k] > taken[k - 1] THEN left[taken[k]]
                            ELSE right[k - taken[k]]]

\* The loop of _merge_runs: taken[k] of the first k rows written come from left.
Merge(left, right) ==
    LET taken[k \in 0..(Len(left) + Len(right))] ==
          IF k = 0 THEN 0
          ELSE LET i == taken[k - 1]
                   j == k - 1 - i
               IN  IF i < Len(left) /\ (j = Len(right) \/ Before(left[i + 1], right[j + 1]))
                   THEN i + 1 ELSE i
    IN  [k \in 1..(Len(left) + Len(right)) |->
           IF taken[k] > taken[k - 1] THEN left[taken[k]] ELSE right[k - taken[k]]]

\* _merge_runs into a scope of its own, which stays reserved to the end.
MergeRuns(w, left, right) ==
    LET made == CreateScope(w, w.owner)
        id == <<w.owner, made.created>>
        rows == Merge(RunRows(w, left), RunRows(w, right))
    IN  IF made.error # Ok THEN made
        ELSE [CloseScope(WriteRows(made, w.owner, id, 0, rows), w.owner, id) EXCEPT
                !.work = @ \cup {id},
                !.runs = SubSeq(@, 3, Len(@)),
                !.merged = Append(@, <<id, 0, Len(rows) - 1>>)]

\* _unique_key_findings: the members of a group of two or more.
GroupFindings(rows) ==
    {<<rows[i].sequence, rows[i].rule>> :
       i \in {n \in DOMAIN rows :
                \E m \in DOMAIN rows \ {n} :
                  rows[m].rule = rows[n].rule /\ rows[m].tag = rows[n].tag}}

\* _scan_run_for_duplicates: a group is a stretch of equal keys, and is
\* flushed when the next key comes or the run ends.
ScanRun(rows) ==
    LET first[n \in 1..Len(rows)] ==
          IF n > 1 /\ rows[n - 1].rule = rows[n].rule /\ rows[n - 1].tag = rows[n].tag
          THEN first[n - 1] ELSE n
    IN  UNION {GroupFindings(SubSeq(rows, first[n], n)) : n \in DOMAIN rows}

-----------------------------------------------------------------------------
(* The command *)

Running == pc # "idle"

\* quarantine revalidate of the evaluation, in a new process.
Start(owner) ==
    /\ ~Running
    /\ starts < MaxStarts
    /\ starts' = starts + 1
    /\ v' = Fresh(owner, scopes)
    /\ pc' = "frames"
    /\ UNCHANGED <<scopes, delivery, budget, policy, outcome>>

\* The process goes on at step with w, or to its except clause.
Continue(w, step) ==
    /\ v' = w
    /\ scopes' = w.scopes
    /\ pc' = IF w.error = Ok THEN step ELSE "raise"
    /\ UNCHANGED <<delivery, budget, policy, outcome, starts>>

ValidateFrame ==
    /\ pc = "frames"
    /\ v.frame < Len(delivery)
    /\ Continue([ValidateOne(v, delivery[v.frame + 1], v.frame) EXCEPT !.frame = @ + 1],
                "frames")

\* duplicate_findings of tags that all stayed in memory.
DuplicatesInMemory ==
    /\ pc = "frames"
    /\ v.frame = Len(delivery)
    /\ v.spill = NoScope
    /\ Continue([v EXCEPT !.duplicates = GroupFindings(v.tags)], "materialize")

\* duplicate_findings of spilled tags: the rest is spilled, the scope closed,
\* the sorted runs built.
SortTags ==
    /\ pc = "frames"
    /\ v.frame = Len(delivery)
    /\ v.spill # NoScope
    /\ LET spilled == CloseScope(SpillTags(v), v.owner, v.spill)
       IN  Continue(IF spilled.error # Ok THEN spilled ELSE BuildSortedRuns(spilled),
                    "merge")

\* A pass over the runs merges them two by two.
MergeStep ==
    /\ pc = "merge"
    /\ Len(v.runs) > 1
    /\ Continue(MergeRuns(v, v.runs[1], v.runs[2]), "merge")

\* The end of a pass: an odd run is carried over.
EndPass ==
    /\ pc = "merge"
    /\ Len(v.runs) < 2
    /\ v.merged # <<>>
    /\ Continue([v EXCEPT !.runs = v.merged \o v.runs, !.merged = <<>>], "merge")

ScanDuplicates ==
    /\ pc = "merge"
    /\ Len(v.runs) = 1
    /\ v.merged = <<>>
    /\ Continue([v EXCEPT !.duplicates = ScanRun(RunRows(v, v.runs[1]))],
                "materialize")

\* The state of every unit, from memory or, once one was spilled, from scratch.
UnitsOf(w) == IF w.unit = NoScope THEN w.units ELSE ReadAll(w, w.unit)

DispositionOf(unit, duplicates) ==
    LET extras == {<<d[2], "duplicate_key">> :
                     d \in {e \in duplicates : e[1] = unit.sequence}}
        findings == unit.findings \cup extras
    IN  [sequence |-> unit.sequence, findings |-> findings,
         status |-> IF ~unit.parsed \/ \E f \in findings : IsError(f)
                    THEN "rejected" ELSE "accepted"]

Dispositions(units, duplicates) ==
    [i \in DOMAIN units |-> DispositionOf(units[i], duplicates)]

\* Mutant of OwnScopes: the scopes of the merge sort are forgotten.
SpillScopes(w) == {w.spill, w.unit} \ {NoScope}

\* The scopes the finally clauses delete.
OwnScopes(w) == ({w.spill, w.unit} \cup w.work) \ {NoScope}

Decision(dispositions) ==
    LET errors == Cardinality({i \in DOMAIN dispositions :
                                 dispositions[i].status = "rejected"})
        batch == RowCountFindings(Len(delivery))
        decided == DecidePublication(Len(delivery), errors,
                                     \E f \in batch : IsError(f))
    IN  IF policy.delivery = "complete_snapshot" /\ decided # "invalid_config"
             /\ (errors > 0 \/ decided # "publish_all")
        THEN "reject_delivery" ELSE decided

ClosedUnits(w) == IF w.unit = NoScope THEN w ELSE CloseScope(w, w.owner, w.unit)

ResultOf(dispositions) ==
    [error |-> Ok, dispositions |-> dispositions, decision |-> Decision(dispositions)]

EndWith(w) ==
    /\ scopes' = DeleteScopes(w.scopes, OwnScopes(w))
    /\ outcome' = IF w.error # Ok THEN [NoOutcome EXCEPT !.error = w.error]
                  ELSE ResultOf(Dispositions(UnitsOf(w), v.duplicates))

\* materialize, the deletion of the scopes, and the result.
Materialize ==
    /\ pc = "materialize"
    /\ EndWith(ClosedUnits(IF v.unit = NoScope THEN v ELSE SpillUnits(v)))
    /\ pc' = "idle"
    /\ v' = Fresh(v.owner, scopes')
    /\ UNCHANGED <<delivery, budget, policy, starts>>

\* The except clause: the scopes are deleted and the error goes up.
RaiseError ==
    /\ pc = "raise"
    /\ scopes' = DeleteScopes(scopes, OwnScopes(v))
    /\ outcome' = [NoOutcome EXCEPT !.error = v.error]
    /\ pc' = "idle"
    /\ v' = Fresh(v.owner, scopes')
    /\ UNCHANGED <<delivery, budget, policy, starts>>

\* The process dies and leaves its scopes on disk.
Crash ==
    /\ Running
    /\ pc' = "idle"
    /\ outcome' = [NoOutcome EXCEPT !.error = "crash"]
    /\ v' = Fresh(v.owner, scopes)
    /\ UNCHANGED <<scopes, delivery, budget, policy, starts>>

Init ==
    /\ scopes = [x \in {} |-> x]
    /\ \E n \in 0..MaxFrames : delivery \in [1..n -> FrameKinds]
    /\ budget \in Budgets
    /\ policy \in Policies
    /\ pc = "idle"
    /\ v = Fresh(CHOOSE e \in Evaluations : TRUE, scopes)
    /\ outcome = NoOutcome
    /\ starts = 0

Next ==
    \/ \E e \in Evaluations : Start(e)
    \/ ValidateFrame \/ DuplicatesInMemory \/ SortTags \/ MergeStep \/ EndPass
    \/ ScanDuplicates \/ Materialize \/ RaiseError
    \/ Crash

Spec == Init /\ [][Next]_vars

-----------------------------------------------------------------------------
(* Properties *)

\* The store, the meter and the outcome have their types.
ValidationTypeOK ==
    /\ \A id \in DOMAIN scopes :
         /\ id[1] \in Evaluations
         /\ Size(scopes[id].rows) <= CapacityBytes
         /\ scopes[id].closed \in BOOLEAN
    /\ pc \in {"idle", "frames", "merge", "materialize", "raise"}
    /\ v.meter \in Nat /\ v.peak \in Nat
    /\ starts \in 0..MaxStarts

\* The findings the contract asks for, whatever fits in memory: those of the
\* frame's own rules, and a duplicate key for every parsed frame that shares
\* its key with another.
ExpectedFindings(i) ==
    RuleFindings(delivery[i]) \cup
    {<<r, "duplicate_key">> :
       r \in {q \in UniqueRules :
                /\ delivery[i].parsed
                /\ UniqueKeyTag(q, delivery[i].values) # Null
                /\ \E j \in DOMAIN delivery \ {i} :
                     /\ delivery[j].parsed
                     /\ UniqueKeyTag(q, delivery[j].values)
                          = UniqueKeyTag(q, delivery[i].values)}}

\* A validation that ends with a result found exactly what the contract asks
\* for, one disposition for each frame in order: what was spilled, how the
\* tags were cut into runs and how the pages fell makes no difference.
SpillIsTransparent ==
    outcome.error = Ok =>
      /\ Len(outcome.dispositions) = Len(delivery)
      /\ \A i \in DOMAIN delivery :
           /\ outcome.dispositions[i].sequence = i - 1
           /\ outcome.dispositions[i].findings = ExpectedFindings(i)

\* The meter counts what the validation retains, and never more than the
\* declared bound.
MeterIsRetained ==
    /\ v.peak <= budget
    /\ (Running /\ v.error = Ok) => v.meter = Size(v.tags) + Size(v.units)

\* A validation that ended, with a result or an error, left no scope behind
\* that was not on disk before it began: only a crash does.
EndsWithoutScopes ==
    [][(Running /\ ~Running' /\ outcome'.error # "crash") =>
         DOMAIN scopes' \subseteq v.found]_vars

\* What is published meets the policy: all of a delivery only without an
\* error, part of it only where the mode admits it, within the ceiling and
\* never of a snapshot.
PublishedMeetsPolicy ==
    LET errors == Cardinality({i \in DOMAIN outcome.dispositions :
                                 outcome.dispositions[i].status = "rejected"})
    IN  /\ outcome.decision = "publish_all" => errors = 0
        /\ outcome.decision = "publish_valid_rows" =>
             /\ policy.delivery = "append_only"
             /\ errors < Len(delivery)
             /\ 100 * errors <= policy.fraction * Len(delivery)

\* A validation keeps within its budget while it runs, by a meter that counts
\* what it holds, and decides by the policy when it ends.
ValidationInvariant ==
    /\ ValidationTypeOK
    /\ MeterIsRetained
    /\ PublishedMeetsPolicy
=============================================================================
