---------------------- MODULE StreamingValidationProofs ----------------------
(***************************************************************************)
(* What a validation finds does not depend on what fits in memory, proved    *)
(* for StreamingValidation with any rules, frames, budgets and ceilings.     *)
(*                                                                         *)
(* The argument follows one set, the tags of the frames seen so far.  Scratch *)
(* and memory list it between them without repetition, so the sorted runs    *)
(* split it, every merge keeps it split, and the last run lists it in order,  *)
(* where equal keys stand together.  The meter is followed along: it counts   *)
(* what memory lists and the frame in hand.                                  *)
(***************************************************************************)
EXTENDS StreamingValidation, TLAPS, FiniteSetTheorems, FunctionTheorems, SequenceTheorems,
        WellFoundedInduction

-----------------------------------------------------------------------------
(* Types *)

TagValues(r) == [DOMAIN Rules[r].fields -> Int]

TagRows ==
    {row \in [rule : UniqueRules, tag : UNION {TagValues(r) : r \in UniqueRules},
              sequence : Nat, size : {TagSize}] :
       row.tag \in TagValues(row.rule)}

Violations ==
    {"null_not_allowed", "accepted_value_violation", "range_violation"}

UnitRows ==
    [sequence : Nat, parsed : BOOLEAN, findings : SUBSET (Nat \X Violations),
     size : {UnitSize}]

Rows == TagRows \cup UnitRows

Ids == Evaluations \X Nat
RunIds == Ids \X Int \X Int
Scope == [rows : Seq(Rows), closed : BOOLEAN]

Codes ==
    {Ok, "capacity_exceeded", "scope_conflict", "scope_owner_mismatch", "scope_closed",
     "sequence_conflict", "not_found"}

Disks == UNION {[D -> Scope] : D \in SUBSET Ids}

\* The validations, field by field.
Views ==
    [owner : Evaluations, frame : Nat, meter : Nat, peak : Nat,
     tags : Seq(TagRows), units : Seq(UnitRows),
     spill : Ids \cup {NoScope}, unit : Ids \cup {NoScope},
     work : SUBSET Ids, runs : Seq(RunIds), merged : Seq(RunIds),
     duplicates : SUBSET (Nat \X Nat), found : SUBSET Ids,
     scopes : Disks, created : Nat, error : Codes]

-----------------------------------------------------------------------------
(* The parts of the inductive invariant *)

Members(s) == {s[i] : i \in 1..Len(s)}
Distinct(s) == \A i, j \in 1..Len(s) : s[i] = s[j] => i = j
Ascending(s) == \A i, j \in 1..Len(s) : i < j => Before(s[i], s[j]) /\ s[i] # s[j]

IsOwn(w, id) == id # NoScope => id \in DOMAIN w.scopes /\ id[1] = w.owner

\* Whatever goes wrong, the finally clauses know every scope that was made.
Well(w) ==
    /\ w \in Views
    /\ w.peak <= budget
    /\ IsOwn(w, w.spill) /\ IsOwn(w, w.unit)
    /\ w.spill # NoScope => w.spill # w.unit
    /\ DOMAIN w.scopes \subseteq w.found \cup OwnScopes(w)
    /\ \A id \in DOMAIN w.scopes : Size(w.scopes[id].rows) <= CapacityBytes

Stored(w, id) == IF id = NoScope THEN <<>> ELSE w.scopes[id].rows
AllTags(w) == Stored(w, w.spill) \o w.tags
AllUnits(w) == Stored(w, w.unit) \o w.units

\* Scratch and memory list the tags of a set, each once.
ListsTags(w, T) ==
    /\ AllTags(w) \in Seq(TagRows)
    /\ Distinct(AllTags(w))
    /\ Members(AllTags(w)) = T
    /\ T # {} => TagSize <= budget

\* Scratch and memory list the units us, in order.
ListsUnits(w, us) ==
    /\ AllUnits(w) \in Seq(UnitRows)
    /\ AllUnits(w) = us
    /\ us # <<>> => UnitSize <= budget

\* A validation that lists them and holds h bytes besides, unless it failed.
Holding(w, T, us, h) ==
    /\ Well(w)
    /\ w.error = Ok =>
         /\ ListsTags(w, T)
         /\ ListsUnits(w, us)
         /\ w.meter = Size(w.tags) + Size(w.units) + h

\* The tags of the first n frames, and of the next one under its first k rules.
IsTagOf(row, i) ==
    /\ delivery[i].parsed
    /\ row.sequence = i - 1
    /\ row.tag = UniqueKeyTag(row.rule, delivery[i].values)
    /\ row.tag # Null

TagsOf(n) == {row \in TagRows : \E i \in 1..n : IsTagOf(row, i)}
TagsUnder(n, k) == TagsOf(n) \cup {row \in TagRows : row.rule <= k /\ IsTagOf(row, n + 1)}

UnitOf(frame, sequence) ==
    [sequence |-> sequence, parsed |-> frame.parsed,
     findings |-> RuleFindings(frame), size |-> UnitSize]

UnitsUpTo(n) == [i \in 1..n |-> UnitOf(delivery[i], i - 1)]

\* The members of a set of tags that share their key with another.
Duplicated(T) ==
    {<<a.sequence, a.rule>> :
       a \in {b \in T : \E c \in T : c # b /\ c.rule = b.rule /\ c.tag = b.tag}}

\* A run of a sort is a stretch of a scope in ascending order.
IsRun(w, run) ==
    /\ run[1] \in DOMAIN w.scopes
    /\ RunRows(w, run) \in Seq(TagRows)
    /\ Ascending(RunRows(w, run))

AllRuns(w, runs) == \A i \in 1..Len(runs) : IsRun(w, runs[i])

RowSets(w, runs) == [i \in 1..Len(runs) |-> Members(RunRows(w, runs[i]))]

\* Two families of sets share no member, and split T between them.
Apart(A, n, B, m, T) ==
    /\ \A i, j \in 1..n : i # j => A[i] \cap A[j] = {}
    /\ \A i, j \in 1..m : i # j => B[i] \cap B[j] = {}
    /\ \A i \in 1..n : \A j \in 1..m : A[i] \cap B[j] = {}
    /\ \A x \in T : (\E i \in 1..n : x \in A[i]) \/ (\E j \in 1..m : x \in B[j])
    /\ \A i \in 1..n : A[i] \subseteq T
    /\ \A j \in 1..m : B[j] \subseteq T

\* The runs of a pass, merged and to be merged, split a set of tags between them.
Split(w, T) ==
    /\ AllRuns(w, w.runs)
    /\ AllRuns(w, w.merged)
    /\ Apart(RowSets(w, w.runs), Len(w.runs), RowSets(w, w.merged), Len(w.merged), T)

WholeTags == TagsOf(Len(delivery))
WholeUnits == UnitsUpTo(Len(delivery))

InFrames(w) ==
    /\ w.frame \in 0..Len(delivery)
    /\ Holding(w, TagsOf(w.frame), UnitsUpTo(w.frame), 0)
    /\ w.work = {} /\ w.runs = <<>> /\ w.merged = <<>>

InMerge(w) ==
    /\ Holding(w, WholeTags, WholeUnits, 0)
    /\ w.tags = <<>>
    /\ Split(w, WholeTags)

InMaterialize(w) ==
    /\ Holding(w, WholeTags, WholeUnits, 0)
    /\ w.duplicates = Duplicated(WholeTags)

\* A phase has what it needs, and an exception is raised.
InPhase(w, step) ==
    /\ Well(w)
    /\ step = "raise" <=> w.error # Ok
    /\ step = "frames" => InFrames(w)
    /\ step = "merge" => InMerge(w)
    /\ step = "materialize" => InMaterialize(w)

ValidationInductive ==
    /\ delivery \in Seq(FrameKinds)
    /\ budget \in Nat
    /\ pc \in {"idle", "frames", "merge", "materialize", "raise"}
    /\ starts \in 0..MaxStarts
    /\ v.scopes = scopes
    /\ InPhase(v, pc)
    /\ PublishedMeetsPolicy
    /\ SpillIsTransparent

-----------------------------------------------------------------------------
(* Recursion over 0..n *)

\* Every nonempty set of naturals has a least element: induction in a form the
\* provers can use.
LEMMA LeastNatural ==
    ASSUME NEW T, T \subseteq Nat, T # {}
    PROVE  \E x \in T : \A y \in T : x <= y
<1> DEFINE R == OpToRel(<, Nat)
<1>1. IsWellFoundedOn(R, Nat)
  BY NatLessThanWellFounded
<1>2. \A y, x \in Nat : y < x => <<y, x>> \in R
  BY DEF OpToRel
<1> HIDE DEF R
<1>3. PICK x \in T : \A y \in T : ~ (<<y, x>> \in R)
  BY <1>1, WFMin
<1>4. ASSUME NEW y \in T PROVE x <= y
  <2>1. x \in Nat /\ y \in Nat
    OBVIOUS
  <2>2. ~(y < x)
    BY <1>2, <1>3, <2>1
  <2>. QED BY <2>1, <2>2
<1>. QED BY <1>4

\* What holds of 0, and of every number up to n after it, holds up to n.
LEMMA UpToInduction ==
    ASSUME NEW n \in Nat, NEW S, 0 \in S, \A i \in 1..n : i - 1 \in S => i \in S
    PROVE  \A i \in 0..n : i \in S
<1> DEFINE T == {i \in 0..n : i \notin S}
<1>1. SUFFICES ASSUME T # {} PROVE FALSE
  OBVIOUS
<1>2. PICK m \in T : \A i \in T : m <= i
  <2>1. T \subseteq Nat
    OBVIOUS
  <2> HIDE DEF T
  <2>. QED BY <1>1, <2>1, LeastNatural
<1>3. m \in 1..n /\ m - 1 \in 0..n
  OBVIOUS
<1>4. m - 1 \in S
  BY <1>2, <1>3
<1>. QED BY <1>3, <1>4

\* The values of a loop of n steps over V, from a.
IsLoop(g, V, a, n, F) ==
    /\ g \in [0..n -> V]
    /\ g[0] = a
    /\ \A i \in 1..n : g[i] = F[i][g[i - 1]]

\* A loop of n passes over values of V has a table of what it holds after each.
LEMMA LoopExists ==
    ASSUME NEW V, NEW a \in V, NEW n \in Nat, NEW F \in [1..n -> [V -> V]]
    PROVE  \E g : IsLoop(g, V, a, n, F)
<1> DEFINE Tables(g, m) == g[0] = a /\ \A i \in 1..m : g[i] = F[i][g[i - 1]]
           S == {m \in 0..n : \E g \in [0..m -> V] : Tables(g, m)}
<1>1. 0 \in S
  <2> DEFINE g == [i \in 0..0 |-> a]
  <2>1. g \in [0..0 -> V] /\ Tables(g, 0)
    OBVIOUS
  <2> HIDE DEF g
  <2>2. \E f \in [0..0 -> V] : Tables(f, 0)
    BY <2>1
  <2> HIDE DEF Tables
  <2>. QED BY <2>2
<1>2. ASSUME NEW m \in 1..n, m - 1 \in S PROVE m \in S
  <2>1. PICK g \in [0..(m - 1) -> V] : Tables(g, m - 1)
    BY <1>2
  <2> DEFINE h == [i \in 0..m |-> IF i = m THEN F[m][g[m - 1]] ELSE g[i]]
  <2>2. g[m - 1] \in V /\ F[m] \in [V -> V]
    OBVIOUS
  <2>3. h \in [0..m -> V]
    BY <2>2
  <2>4. h[0] = a
    BY <2>1
  <2>5. ASSUME NEW i \in 1..m PROVE h[i] = F[i][h[i - 1]]
    <3>1. CASE i = m
      BY <3>1
    <3>2. CASE i # m
      <4>1. i \in 1..(m - 1) /\ i - 1 \in 0..(m - 1)
        BY <3>2
      <4>2. h[i] = g[i] /\ h[i - 1] = g[i - 1]
        BY <4>1
      <4>. QED BY <2>1, <4>1, <4>2
    <3>. QED BY <3>1, <3>2
  <2> HIDE DEF h
  <2>6. \E f \in [0..m -> V] : Tables(f, m)
    BY <2>3, <2>4, <2>5
  <2> HIDE DEF Tables
  <2>. QED BY <2>6
<1>3. n \in S
  <2> HIDE DEF S
  <2>1. \A i \in 1..n : i - 1 \in S => i \in S
    BY <1>2
  <2>2. \A i \in 0..n : i \in S
    BY <1>1, <2>1, UpToInduction
  <2>. QED BY <2>2
<1>4. PICK g \in [0..n -> V] : Tables(g, n)
  BY <1>3
<1>5. IsLoop(g, V, a, n, F)
  BY <1>4 DEF IsLoop
<1>. QED BY <1>5

-----------------------------------------------------------------------------
(* Sizes *)

IsSized(rows) == \A i \in 1..Len(rows) : rows[i].size \in Nat

SizeLoop(g, rows) ==
    g = [n \in 0..Len(rows) |-> IF n = 0 THEN 0 ELSE g[n - 1] + rows[n].size]

\* Size is the last entry of the table of partial sums.
LEMMA SizeLoops ==
    ASSUME NEW S, NEW rows \in Seq(S), IsSized(rows)
    PROVE  \E g \in [0..Len(rows) -> Nat] : SizeLoop(g, rows) /\ Size(rows) = g[Len(rows)]
<1> DEFINE n == Len(rows)
           F == [i \in 1..n |-> [x \in Nat |-> x + rows[i].size]]
<1>1. n \in Nat /\ F \in [1..n -> [Nat -> Nat]]
  BY DEF IsSized
<1>2. PICK g \in [0..n -> Nat] : g[0] = 0 /\ \A i \in 1..n : g[i] = F[i][g[i - 1]]
  <2>1. PICK k, G, N, z : k = n /\ G = F /\ N = Nat /\ z = 0
    OBVIOUS
  <2>2. k \in Nat /\ G \in [1..k -> [N -> N]] /\ z \in N
    BY <1>1, <2>1
  <2>3. PICK g : IsLoop(g, N, z, k, G)
    BY <2>2, LoopExists
  <2>. QED BY <2>1, <2>3 DEF IsLoop
<1>3. ASSUME NEW i \in 1..n PROVE g[i] = g[i - 1] + rows[i].size
  <2>1. F[i] = [x \in Nat |-> x + rows[i].size]
    OBVIOUS
  <2>2. i - 1 \in 0..n
    BY <1>1
  <2>3. g[i - 1] \in Nat
    BY <1>2, <2>2
  <2> HIDE DEF F
  <2>. QED BY <1>2, <2>1, <2>3
<1>4. SizeLoop(g, rows)
  BY <1>1, <1>2, <1>3 DEF SizeLoop
<1> DEFINE sum == CHOOSE f : SizeLoop(f, rows)
<1>5. Size(rows) = sum[n]
  BY DEF Size, SizeLoop
<1>6. SizeLoop(sum, rows)
  BY <1>4
<1> HIDE DEF sum
<1>7. \A i \in 1..n : sum[i] = sum[i - 1] + rows[i].size
  BY <1>1, <1>6 DEF SizeLoop
<1>8. sum[0] = 0
  BY <1>1, <1>6 DEF SizeLoop
<1>9. \A i \in 0..n : i \in {k \in 0..n : sum[k] \in Nat}
  <2> DEFINE T == {k \in 0..n : sum[k] \in Nat}
  <2>1. 0 \in T
    BY <1>1, <1>8
  <2>2. ASSUME NEW i \in 1..n, i - 1 \in T PROVE i \in T
    <3>1. rows[i].size \in Nat /\ sum[i - 1] \in Nat /\ i \in 0..n
      BY <1>1, <2>2 DEF IsSized
    <3>2. sum[i] = sum[i - 1] + rows[i].size
      BY <1>7
    <3>. QED BY <3>1, <3>2
  <2> HIDE DEF T, n
  <2>. QED BY <1>1, <2>1, <2>2, UpToInduction DEF T
<1>10. sum \in [0..n -> Nat]
  <2>1. sum = [i \in 0..n |-> IF i = 0 THEN 0 ELSE sum[i - 1] + rows[i].size]
    BY <1>6 DEF SizeLoop
  <2>2. DOMAIN sum = 0..n /\ sum = [i \in 0..n |-> sum[i]]
    BY <2>1
  <2>. QED BY <1>9, <2>2
<1>. QED BY <1>5, <1>6, <1>10

\* No rows have no size.
LEMMA SizeOfNone ==
    Size(<<>>) = 0
<1>1. <<>> \in Seq({}) /\ IsSized(<<>>) /\ Len(<<>>) = 0
  BY DEF IsSized
<1>2. PICK g \in [0..0 -> Nat] : SizeLoop(g, <<>>) /\ Size(<<>>) = g[0]
  BY <1>1, SizeLoops
<1>. QED BY <1>1, <1>2 DEF SizeLoop

\* The size of sized rows is a natural number.
LEMMA SizeType ==
    ASSUME NEW S, NEW rows \in Seq(S), IsSized(rows)
    PROVE  Size(rows) \in Nat
<1>1. PICK g \in [0..Len(rows) -> Nat] : SizeLoop(g, rows) /\ Size(rows) = g[Len(rows)]
  BY SizeLoops
<1>. QED BY <1>1

\* The size of some rows and one more.
LEMMA SizeOfMore ==
    ASSUME NEW S, NEW rows \in Seq(S), IsSized(rows), NEW row \in S, row.size \in Nat
    PROVE  Size(Append(rows, row)) = Size(rows) + row.size
<1> DEFINE more == Append(rows, row)
           n == Len(rows)
<1>1. /\ more \in Seq(S) /\ Len(more) = n + 1 /\ n \in Nat /\ more[n + 1] = row
      /\ \A i \in 1..n : more[i] = rows[i]
  OBVIOUS
<1>2. IsSized(more)
  BY <1>1 DEF IsSized
<1>3. PICK g \in [0..n -> Nat] : SizeLoop(g, rows) /\ Size(rows) = g[n]
  BY SizeLoops
<1> HIDE DEF more
<1>4. PICK h \in [0..(n + 1) -> Nat] : SizeLoop(h, more) /\ Size(more) = h[n + 1]
  BY <1>1, <1>2, SizeLoops
<1>5. g[0] = 0 /\ \A i \in 1..n : g[i] = g[i - 1] + rows[i].size
  BY <1>1, <1>3 DEF SizeLoop
<1>6. h[0] = 0 /\ \A i \in 1..(n + 1) : h[i] = h[i - 1] + more[i].size
  BY <1>1, <1>4 DEF SizeLoop
<1>7. \A i \in 0..n : i \in {k \in 0..n : h[k] = g[k]}
  <2> DEFINE T == {k \in 0..n : h[k] = g[k]}
  <2>1. 0 \in T
    BY <1>1, <1>5, <1>6
  <2>2. ASSUME NEW i \in 1..n, i - 1 \in T PROVE i \in T
    <3>1. i \in 1..(n + 1) /\ more[i] = rows[i] /\ h[i - 1] = g[i - 1]
      BY <1>1, <2>2
    <3>2. h[i] = g[i]
      BY <1>5, <1>6, <3>1
    <3>. QED BY <1>1, <3>2
  <2> HIDE DEF T, n
  <2>. QED BY <1>1, <2>1, <2>2, UpToInduction DEF T
<1>8. h[n] = g[n]
  BY <1>1, <1>7
<1>9. n + 1 \in 1..(n + 1) /\ n + 1 - 1 = n
  BY <1>1
<1>10. h[n + 1] = h[n] + row.size
  BY <1>1, <1>6, <1>9
<1>. QED BY <1>3, <1>4, <1>8, <1>10 DEF more

-----------------------------------------------------------------------------
(* Reading a scope *)

\* A stretch of sized rows is a sequence of sized rows.
LEMMA SubSeqSized ==
    ASSUME NEW S, NEW rows \in Seq(S), IsSized(rows), NEW a \in 1..(Len(rows) + 1),
           NEW b \in (a - 1)..Len(rows)
    PROVE  /\ SubSeq(rows, a, b) \in Seq(S)
           /\ Len(SubSeq(rows, a, b)) = b - a + 1
           /\ IsSized(SubSeq(rows, a, b))
<1>1. a \in Int /\ b \in Int /\ \A i \in a..b : rows[i] \in S
  OBVIOUS
<1>2. /\ SubSeq(rows, a, b) \in Seq(S)
      /\ Len(SubSeq(rows, a, b)) = IF a <= b THEN b - a + 1 ELSE 0
      /\ \A i \in 1..(b - a + 1) : SubSeq(rows, a, b)[i] = rows[a + i - 1]
  BY <1>1, SubSeqProperties
<1>3. Len(SubSeq(rows, a, b)) = b - a + 1
  BY <1>1, <1>2
<1>4. \A i \in 1..(b - a + 1) : a + i - 1 \in 1..Len(rows)
  OBVIOUS
<1>. QED BY <1>2, <1>3, <1>4 DEF IsSized

\* A page holds as many rows as fit.
LEMMA FitsFits ==
    ASSUME NEW S, NEW rows \in Seq(S), IsSized(rows), NEW after \in -1..(Len(rows) - 1),
           NEW most \in Nat, NEW rest, rest = Len(rows) - after - 1
    PROVE  /\ Fits(rows, after, most) \in 0..rest
           /\ Size(SubSeq(rows, after + 2, after + 1 + Fits(rows, after, most))) <= most
           /\ Fits(rows, after, most) < rest =>
                Size(SubSeq(rows, after + 2, after + 2 + Fits(rows, after, most))) > most
<1> DEFINE part(k) == SubSeq(rows, after + 2, after + 1 + k)
           Good(k) == /\ Size(part(k)) <= most
                      /\ k < rest => Size(SubSeq(rows, after + 2, after + 2 + k)) > most
           T == {k \in 0..rest : k = rest \/ Size(part(k + 1)) > most}
<1>1. rest \in Nat /\ after \in Int
  OBVIOUS
<1>2. \A k \in 0..rest : after + 1 + (k + 1) = after + 2 + k
  BY <1>1
<1>3. \A k \in 0..rest : Size(part(k)) \in Nat
  <2> SUFFICES ASSUME NEW k \in 0..rest PROVE Size(part(k)) \in Nat
    OBVIOUS
  <2>1. after + 2 \in 1..(Len(rows) + 1) /\ after + 1 + k \in (after + 2 - 1)..Len(rows)
    BY <1>1
  <2>2. part(k) \in Seq(S) /\ IsSized(part(k))
    BY <2>1, SubSeqSized
  <2> HIDE DEF part
  <2>. QED BY <2>2, SizeType
<1>4. part(0) = <<>>
  <2>1. after + 2 \in Int /\ after + 1 + 0 \in Int /\ after + 1 + 0 < after + 2
    BY <1>1
  <2>. QED BY <2>1, SubSeqEmpty
<1>5. PICK k \in T : \A m \in T : k <= m
  <2>1. T \subseteq Nat /\ rest \in T
    BY <1>1
  <2> HIDE DEF T
  <2>. QED BY <2>1, LeastNatural
<1>6. k \in 0..rest /\ Good(k)
  <2>1. k \in 0..rest
    OBVIOUS
  <2>2. Size(part(k)) <= most
    <3>1. CASE k = 0
      <4> HIDE DEF part
      <4>. QED BY <1>4, <3>1, SizeOfNone
    <3>2. CASE k # 0
      <4>1. k - 1 \in 0..rest /\ k - 1 \notin T /\ k - 1 # rest /\ k - 1 + 1 = k
        <5>1. k - 1 \in 0..rest /\ k - 1 # rest /\ k - 1 + 1 = k /\ ~(k <= k - 1)
          BY <1>1, <2>1, <3>2
        <5> HIDE DEF T
        <5>. QED BY <1>5, <5>1
      <4>2. ~(Size(part(k)) > most)
        <5> HIDE DEF part
        <5>. QED BY <4>1
      <4>3. Size(part(k)) \in Nat
        BY <1>3, <2>1
      <4> HIDE DEF part
      <4>. QED BY <4>2, <4>3
    <3>. QED BY <3>1, <3>2
  <2>3. k < rest => Size(SubSeq(rows, after + 2, after + 2 + k)) > most
    <3> SUFFICES ASSUME k < rest PROVE Size(SubSeq(rows, after + 2, after + 2 + k)) > most
      OBVIOUS
    <3>1. Size(part(k + 1)) > most
      <4>1. k # rest
        BY <1>1, <2>1
      <4> HIDE DEF part
      <4>. QED BY <4>1
    <3>. QED BY <1>2, <2>1, <3>1
  <2>. QED BY <2>1, <2>2, <2>3
<1> DEFINE fits == CHOOSE m \in 0..rest : Good(m)
<1>7. Fits(rows, after, most) = fits
  BY DEF Fits
<1>8. fits \in 0..rest /\ Good(fits)
  <2> HIDE DEF Good
  <2>. QED BY <1>6
<1> HIDE DEF fits
<1>. QED BY <1>7, <1>8

PageOf(w, id, after) == ReadSequential(w, w.owner, id, after, budget)

\* What the rows after a sequence are, given those after a later one.
PageLoop(f, w, id) ==
    f = [after \in -1..(Len(w.scopes[id].rows) - 1) |->
           IF PageOf(w, id, after).more
           THEN PageOf(w, id, after).chunks \o f[after + Len(PageOf(w, id, after).chunks)]
           ELSE PageOf(w, id, after).chunks]

\* The pages of a closed scope make up its rows, however they fall.
LEMMA ReadAllIsRows ==
    ASSUME NEW w, NEW id, NEW S, NEW rows \in Seq(S), IsSized(rows), budget \in Nat,
           id \in DOMAIN w.scopes, id[1] = w.owner, w.scopes[id].closed = TRUE,
           w.scopes[id].rows = rows,
           \A i \in 1..Len(rows) : rows[i].size <= budget
    PROVE  ReadAll(w, id) = rows
<1> DEFINE last == Len(rows) - 1
           page(after) == PageOf(w, id, after)
           after2(after) == after + Len(page(after).chunks)
           tail(after) == SubSeq(rows, after + 2, Len(rows))
           Step(f, after) == IF page(after).more
                             THEN page(after).chunks \o f[after + Len(page(after).chunks)]
                             ELSE page(after).chunks
<1>1. last \in Int /\ Len(rows) \in Nat
  OBVIOUS
<1>2. ASSUME NEW f, NEW after \in -1..last,
             \A later \in (after + 1)..last : f[later] = tail(later)
      PROVE  Step(f, after) = tail(after)
  <2>1. PICK k, p, a, b, n, most :
          /\ most = budget /\ k = Fits(rows, after, most) /\ p = page(after)
          /\ a = after + 2 /\ b = after + 1 + k /\ n = Len(rows)
    OBVIOUS
  <2>2. p = ReadSequential(w, w.owner, id, after, most)
    BY <2>1 DEF PageOf
  <2>3. /\ k \in 0..(Len(rows) - after - 1)
        /\ k < Len(rows) - after - 1 => k > 0
        /\ p.chunks = SubSeq(rows, a, b)
        /\ p.more <=> k < Len(rows) - after - 1
    <3> DEFINE rest == n - after - 1
    <3>1. rest \in Nat /\ after \in Int /\ n \in Nat /\ most \in Nat
      BY <1>1, <2>1
    <3>2. /\ k \in 0..rest
          /\ k < rest => Size(SubSeq(rows, after + 2, after + 2 + k)) > most
      BY <2>1, <3>1, FitsFits
    <3>3. ASSUME k < rest PROVE k > 0
      <4> SUFFICES ASSUME k = 0 PROVE FALSE
        BY <3>2
      <4>1. a \in 1..n /\ after + 2 + k = a /\ a - 1 \in Int /\ a \in a..n
        BY <2>1, <3>1, <3>2, <3>3
      <4>2. SubSeq(rows, a, a) = SubSeq(rows, a, a - 1) \o <<rows[a]>>
        BY <2>1, <4>1, SubSeqRecursiveSecond
      <4>3. SubSeq(rows, a, a - 1) = <<>>
        BY <4>1, SubSeqEmpty
      <4>4. rows[a] \in S /\ <<>> \in Seq(S) /\ IsSized(<<>>)
        BY <2>1, <4>1 DEF IsSized
      <4>5. Append(<<>>, rows[a]) = <<>> \o <<rows[a]>>
        BY <4>4, AppendIsConcat
      <4>6. rows[a].size \in Nat /\ rows[a].size <= most
        BY <2>1, <4>1 DEF IsSized
      <4>7. Size(Append(<<>>, rows[a])) = Size(<<>>) + rows[a].size
        BY <4>4, <4>6, SizeOfMore
      <4>8. SubSeq(rows, a, a) = Append(<<>>, rows[a])
        BY <4>2, <4>3, <4>5
      <4>9. Size(SubSeq(rows, a, a)) = rows[a].size
        BY <4>6, <4>7, <4>8, SizeOfNone
      <4>. QED BY <2>1, <3>1, <3>2, <3>3, <4>1, <4>6, <4>9
    <3>4. (after + 1 + k < Len(rows)) = (k < rest)
      BY <2>1, <3>1, <3>2
    <3>5. k < rest => ~(rows[after + 2 + k].size > most)
      <4> SUFFICES ASSUME k < rest PROVE ~(rows[after + 2 + k].size > most)
        OBVIOUS
      <4>1. after + 2 + k \in 1..n
        BY <3>1, <3>2
      <4>2. rows[after + 2 + k].size \in Nat /\ rows[after + 2 + k].size <= most
        BY <2>1, <4>1 DEF IsSized
      <4>3. PICK x : x = rows[after + 2 + k].size
        OBVIOUS
      <4>4. x \in Nat /\ x <= most /\ most \in Nat
        BY <3>1, <4>2, <4>3
      <4>5. ~(x > most)
        BY <4>4
      <4>. QED BY <4>3, <4>5
    <3>6. p.chunks = SubSeq(rows, a, b)
      <4>1. k = Fits(rows, after, most)
        BY <2>1
      <4>2. ReadSequential(w, w.owner, id, after, most).chunks
              = SubSeq(rows, after + 2, after + 1 + k)
        BY <3>4, <3>5, <4>1 DEF ReadSequential, Ok
      <4>3. SubSeq(rows, a, b) = SubSeq(rows, after + 2, after + 1 + k)
        BY <2>1
      <4>. QED BY <2>2, <4>2, <4>3
    <3>7. p.more <=> k < rest
      <4>1. k = Fits(rows, after, most)
        BY <2>1
      <4>2. ReadSequential(w, w.owner, id, after, most).more <=> k < rest
        BY <3>4, <3>5, <4>1 DEF ReadSequential, Ok
      <4>. QED BY <2>2, <4>2
    <3>. QED BY <2>1, <3>2, <3>3, <3>6, <3>7
  <2> HIDE DEF page
  <2>4. CASE k < Len(rows) - after - 1
    <3>0. /\ after \in Int /\ -1 <= after /\ k \in Int /\ 0 < k /\ k < n - after - 1 /\ n \in Int
          /\ a = after + 2 /\ b = after + 1 + k /\ last = n - 1
      BY <1>1, <2>1, <2>3, <2>4
    <3>1. /\ a \in 1..(n + 1) /\ b \in (a - 1)..n /\ n \in b..n
          /\ b - a + 1 = k /\ after + k + 2 = b + 1 /\ after + k \in (after + 1)..last
      <4> HIDE DEF last
      <4>. QED BY <3>0
    <3>2. Len(SubSeq(rows, a, b)) = k
      <4>1. a \in 1..(Len(rows) + 1) /\ b \in (a - 1)..Len(rows)
        BY <2>1, <3>1
      <4>2. Len(SubSeq(rows, a, b)) = b - a + 1
        BY <4>1, SubSeqSized
      <4>. QED BY <3>1, <4>2
    <3>3. f[after + k] = SubSeq(rows, b + 1, n)
      BY <1>2, <2>1, <3>1
    <3>4. SubSeq(rows, a, b) \o SubSeq(rows, b + 1, n) = SubSeq(rows, a, n)
      BY <2>1, <3>1, ConcatAdjacentSubSeq
    <3>5. tail(after) = SubSeq(rows, a, n)
      BY <2>1
    <3> HIDE DEF tail, last
    <3>. QED BY <2>1, <2>3, <2>4, <3>2, <3>3, <3>4, <3>5
  <2>5. CASE ~(k < Len(rows) - after - 1)
    <3>1. b = n
      BY <1>1, <2>1, <2>3, <2>5
    <3>. QED BY <2>1, <2>3, <2>5, <3>1
  <2>. QED BY <2>4, <2>5
<1>3. \E f : PageLoop(f, w, id)
  <2> DEFINE f == [after \in -1..last |-> tail(after)]
  <2>1. ASSUME NEW after \in -1..last PROVE f[after] = Step(f, after)
    <3>1. \A later \in (after + 1)..last : f[later] = tail(later)
      BY <1>1
    <3>2. f[after] = tail(after)
      OBVIOUS
    <3> HIDE DEF f, tail, Step
    <3>. QED BY <1>2, <3>1, <3>2
  <2>2. f = [after \in -1..last |-> f[after]]
    OBVIOUS
  <2> HIDE DEF f
  <2>3. f = [after \in -1..last |-> Step(f, after)]
    <3> HIDE DEF Step
    <3>. QED BY <2>1, <2>2
  <2>4. PageLoop(f, w, id)
    BY <2>3 DEF PageLoop
  <2>. QED BY <2>4
<1> DEFINE from == CHOOSE f : PageLoop(f, w, id)
<1>4. ReadAll(w, id) = from[-1]
  BY DEF ReadAll, PageLoop, PageOf
<1>5. PageLoop(from, w, id)
  BY <1>3
<1> HIDE DEF from
<1>6. \A after \in -1..last : from[after] = Step(from, after)
  BY <1>5 DEF PageLoop
<1>7. \A d \in 0..Len(rows) : d \in
        {e \in 0..Len(rows) : \A after \in (last - e)..last : from[after] = tail(after)}
  <2> DEFINE T == {e \in 0..Len(rows) : \A after \in (last - e)..last : from[after] = tail(after)}
  <2> HIDE DEF Step, tail
  <2>1. 0 \in T
    <3>1. ASSUME NEW after \in (last - 0)..last PROVE from[after] = tail(after)
      <4>1. after = last /\ after \in -1..last
        BY <1>1
      <4>2. \A later \in (after + 1)..last : from[later] = tail(later)
        BY <1>1, <4>1
      <4>3. Step(from, after) = tail(after)
        BY <1>2, <4>1, <4>2
      <4>. QED BY <1>6, <4>1, <4>3
    <3>. QED BY <1>1, <3>1
  <2>2. ASSUME NEW e \in 1..Len(rows), e - 1 \in T PROVE e \in T
    <3>1. ASSUME NEW after \in (last - e)..last PROVE from[after] = tail(after)
      <4>1. after \in -1..last
        BY <1>1
      <4>2. \A later \in (after + 1)..last : from[later] = tail(later)
        <5>1. \A later \in (after + 1)..last : later \in (last - (e - 1))..last
          BY <1>1
        <5>. QED BY <2>2, <5>1
      <4>3. Step(from, after) = tail(after)
        BY <1>2, <4>1, <4>2
      <4>. QED BY <1>6, <4>1, <4>3
    <3>. QED BY <3>1
  <2>3. PICK n : n = Len(rows)
    OBVIOUS
  <2> HIDE DEF T
  <2>4. \A d \in 0..n : d \in T
    BY <1>1, <2>1, <2>2, <2>3, UpToInduction
  <2>. QED BY <2>3, <2>4 DEF T
<1>8. from[-1] = tail(-1)
  <2>1. Len(rows) \in 0..Len(rows) /\ -1 \in (last - Len(rows))..last
    BY <1>1
  <2> HIDE DEF tail, last
  <2>. QED BY <1>7, <2>1
<1>9. tail(-1) = rows
  <2>1. -1 + 2 = 1
    OBVIOUS
  <2>2. SubSeq(rows, 1, Len(rows)) = rows
    BY SubSeqFull
  <2>. QED BY <2>1, <2>2
<1>. QED BY <1>4, <1>8, <1>9

-----------------------------------------------------------------------------
(* The order of the tags *)

\* Tags of one length are totally ordered.
LEMMA TagOrder ==
    ASSUME NEW n \in Nat, NEW s \in [1..n -> Int], NEW t \in [1..n -> Int],
           NEW u \in [1..n -> Int]
    PROVE  /\ ~TagLess(s, s)
           /\ s = t \/ TagLess(s, t) \/ TagLess(t, s)
           /\ TagLess(s, t) /\ TagLess(t, u) => TagLess(s, u)
<1>1. ~TagLess(s, s)
  BY DEF TagLess
<1>2. ASSUME s # t PROVE TagLess(s, t) \/ TagLess(t, s)
  <2> DEFINE T == {i \in 1..n : s[i] # t[i]}
  <2>0. \E i \in 1..n : s[i] # t[i]
    BY <1>2
  <2>1. T # {} /\ T \subseteq Nat
    <3>1. PICK i \in 1..n : s[i] # t[i]
      BY <2>0
    <3>2. i \in T
      BY <3>1
    <3>3. T \subseteq Nat
      OBVIOUS
    <3> HIDE DEF T
    <3>. QED BY <3>2, <3>3
  <2>2. PICK i \in T : \A j \in T : i <= j
    <3> HIDE DEF T
    <3>. QED BY <2>1, LeastNatural
  <2>3. i \in 1..n /\ s[i] \in Int /\ t[i] \in Int /\ s[i] # t[i]
    OBVIOUS
  <2>4. \A j \in 1..(i - 1) : s[j] = t[j]
    <3> SUFFICES ASSUME NEW j \in 1..(i - 1) PROVE s[j] = t[j]
      OBVIOUS
    <3>1. j \in 1..n /\ ~(i <= j)
      BY <2>3
    <3>. QED BY <2>2, <3>1
  <2>5. s[i] < t[i] \/ t[i] < s[i]
    BY <2>3
  <2>6. DOMAIN s = 1..n /\ DOMAIN t = 1..n
    OBVIOUS
  <2> HIDE DEF T
  <2>. QED BY <2>3, <2>4, <2>5, <2>6 DEF TagLess
<1>3. ASSUME TagLess(s, t), TagLess(t, u) PROVE TagLess(s, u)
  <2>1. PICK i \in 1..n : s[i] < t[i] /\ \A j \in 1..(i - 1) : s[j] = t[j]
    BY <1>3 DEF TagLess
  <2>2. PICK k \in 1..n : t[k] < u[k] /\ \A j \in 1..(k - 1) : t[j] = u[j]
    BY <1>3 DEF TagLess
  <2>3. /\ s[i] \in Int /\ t[i] \in Int /\ u[i] \in Int
        /\ s[k] \in Int /\ t[k] \in Int /\ u[k] \in Int /\ i \in Int /\ k \in Int
        /\ DOMAIN s = 1..n
    OBVIOUS
  <2>4. CASE i < k
    <3>1. i \in 1..(k - 1)
      BY <2>4
    <3>2. t[i] = u[i]
      BY <2>2, <3>1
    <3>3. s[i] < u[i]
      BY <2>1, <3>2
    <3>4. \A j \in 1..(i - 1) : s[j] = u[j]
      <4> SUFFICES ASSUME NEW j \in 1..(i - 1) PROVE s[j] = u[j]
        OBVIOUS
      <4>1. j \in 1..(k - 1)
        BY <2>4
      <4>. QED BY <2>1, <2>2, <4>1
    <3>. QED BY <2>3, <3>3, <3>4 DEF TagLess
  <2>5. CASE k < i
    <3>1. k \in 1..(i - 1)
      BY <2>5
    <3>2. s[k] = t[k]
      BY <2>1, <3>1
    <3>3. s[k] < u[k]
      BY <2>2, <3>2
    <3>4. \A j \in 1..(k - 1) : s[j] = u[j]
      <4> SUFFICES ASSUME NEW j \in 1..(k - 1) PROVE s[j] = u[j]
        OBVIOUS
      <4>1. j \in 1..(i - 1)
        BY <2>5
      <4>. QED BY <2>1, <2>2, <4>1
    <3>. QED BY <2>3, <3>3, <3>4 DEF TagLess
  <2>6. CASE i = k
    <3>1. s[i] < u[i]
      BY <2>1, <2>2, <2>3, <2>6
    <3>2. \A j \in 1..(i - 1) : s[j] = u[j]
      <4> SUFFICES ASSUME NEW j \in 1..(i - 1) PROVE s[j] = u[j]
        OBVIOUS
      <4>1. j \in 1..(k - 1)
        BY <2>6
      <4>. QED BY <2>1, <2>2, <4>1
    <3>. QED BY <2>3, <3>1, <3>2 DEF TagLess
  <2>. QED BY <2>3, <2>4, <2>5, <2>6
<1>. QED BY <1>1, <1>2, <1>3

\* The fields of a row of the scope of tags.
LEMMA TagRowFields ==
    ASSUME NEW a \in TagRows
    PROVE  /\ a.rule \in UniqueRules /\ a.rule \in Nat /\ a.sequence \in Nat
           /\ a.size = TagSize /\ a.size \in Nat
           /\ a.tag \in TagValues(a.rule)
           /\ a = [rule |-> a.rule, tag |-> a.tag, sequence |-> a.sequence, size |-> a.size]
           /\ \E n \in Nat : TagValues(a.rule) = [1..n -> Int]
<1>1. a \in [rule : UniqueRules, tag : UNION {TagValues(r) : r \in UniqueRules},
             sequence : Nat, size : {TagSize}]
  BY DEF TagRows
<1>2. a.tag \in TagValues(a.rule)
  BY DEF TagRows
<1>3. a.rule \in UniqueRules /\ a.sequence \in Nat /\ a.size = TagSize
  BY <1>1
<1>4. a = [rule |-> a.rule, tag |-> a.tag, sequence |-> a.sequence, size |-> a.size]
  BY <1>1
<1>5. a.rule \in DOMAIN Rules /\ Rules[a.rule].kind = "unique_key"
  BY <1>3 DEF UniqueRules
<1>6. a.rule \in Nat
  BY <1>5, ValidationInputs
<1>7. DOMAIN Rules[a.rule].fields = 1..Len(Rules[a.rule].fields)
      /\ Len(Rules[a.rule].fields) \in Nat
  BY <1>5, ValidationInputs
<1>8. TagSize \in Nat
  BY ValidationParameters
<1>. QED BY <1>2, <1>3, <1>4, <1>6, <1>7, <1>8 DEF TagValues

\* The rows of a sort are in one order, in which equal keys stand together.
LEMMA BeforeOrder ==
    ASSUME NEW a \in TagRows, NEW b \in TagRows, NEW c \in TagRows
    PROVE  /\ Before(a, a)
           /\ Before(a, b) \/ Before(b, a)
           /\ Before(a, b) /\ Before(b, a) => a = b
           /\ Before(a, b) /\ Before(b, c) => Before(a, c)
           /\ Before(a, b) /\ Before(b, c) /\ a.rule = c.rule /\ a.tag = c.tag
                => b.rule = a.rule /\ b.tag = a.tag
<1>1. /\ a.rule \in Nat /\ b.rule \in Nat /\ c.rule \in Nat
      /\ a.sequence \in Nat /\ b.sequence \in Nat /\ c.sequence \in Nat
  BY TagRowFields
<1>2. PICK n \in Nat : TagValues(a.rule) = [1..n -> Int]
  BY TagRowFields
<1>3. /\ a.tag \in [1..n -> Int]
      /\ b.rule = a.rule => b.tag \in [1..n -> Int]
      /\ c.rule = a.rule => c.tag \in [1..n -> Int]
  BY <1>2, TagRowFields
<1>4. \A s, t \in [1..n -> Int] :
        ~TagLess(s, s) /\ (s = t \/ TagLess(s, t) \/ TagLess(t, s))
        /\ ~(TagLess(s, t) /\ TagLess(t, s))
  BY TagOrder
<1>5. \A s, t, u \in [1..n -> Int] : TagLess(s, t) /\ TagLess(t, u) => TagLess(s, u)
  BY TagOrder
<1>6. Before(a, a)
  BY <1>1 DEF Before
<1>7. Before(a, b) \/ Before(b, a)
  <2>1. CASE a.rule = b.rule
    <3>1. a.tag = b.tag \/ TagLess(a.tag, b.tag) \/ TagLess(b.tag, a.tag)
      BY <1>3, <1>4, <2>1
    <3>. QED BY <1>1, <2>1, <3>1 DEF Before
  <2>2. CASE a.rule # b.rule
    BY <1>1, <2>2 DEF Before
  <2>. QED BY <2>1, <2>2
<1>8. ASSUME Before(a, b), Before(b, a) PROVE a = b
  <2>1. a.rule = b.rule
    BY <1>1, <1>8 DEF Before
  <2>2. /\ ~(TagLess(a.tag, b.tag) /\ TagLess(b.tag, a.tag))
        /\ ~TagLess(a.tag, a.tag)
    BY <1>3, <1>4, <2>1
  <2>3. a.tag = b.tag /\ a.sequence = b.sequence
    BY <1>1, <1>8, <2>1, <2>2 DEF Before
  <2>. QED BY <2>1, <2>3, TagRowFields
<1>9. ASSUME Before(a, b), Before(b, c) PROVE Before(a, c)
  <2>1. CASE a.rule = b.rule /\ b.rule = c.rule
    <3>1. CASE TagLess(a.tag, b.tag) /\ TagLess(b.tag, c.tag)
      BY <1>3, <1>5, <2>1, <3>1 DEF Before
    <3>2. CASE ~(TagLess(a.tag, b.tag) /\ TagLess(b.tag, c.tag))
      BY <1>1, <1>9, <2>1, <3>2 DEF Before
    <3>. QED BY <3>1, <3>2
  <2>2. CASE ~(a.rule = b.rule /\ b.rule = c.rule)
    <3>1. a.rule < c.rule
      BY <1>1, <1>9, <2>2 DEF Before
    <3>. QED BY <3>1 DEF Before
  <2>. QED BY <2>1, <2>2
<1>10. ASSUME Before(a, b), Before(b, c), a.rule = c.rule, a.tag = c.tag
       PROVE  b.rule = a.rule /\ b.tag = a.tag
  <2>1. b.rule = a.rule
    BY <1>1, <1>10 DEF Before
  <2>2. ~(TagLess(a.tag, b.tag) /\ TagLess(b.tag, a.tag)) /\ ~TagLess(a.tag, a.tag)
    BY <1>3, <1>4, <2>1
  <2>. QED BY <1>1, <1>10, <2>1, <2>2 DEF Before
<1>. QED BY <1>6, <1>7, <1>8, <1>9, <1>10

\* The order of the tag rows is total, and antisymmetric.
LEMMA BeforePairs ==
    ASSUME NEW a \in TagRows, NEW b \in TagRows
    PROVE  /\ Before(a, a)
           /\ Before(a, b) \/ Before(b, a)
           /\ Before(a, b) /\ Before(b, a) => a = b
<1>1. PICK c : c = a
  OBVIOUS
<1>2. c \in TagRows
  BY <1>1
<1>. QED BY <1>2, BeforeOrder

-----------------------------------------------------------------------------
(* Sorting *)

\* A sorted buffer lists the same rows, in ascending order.
LEMMA SortedAscends ==
    ASSUME NEW rows \in Seq(TagRows), Distinct(rows)
    PROVE  /\ Sorted(rows) \in Seq(TagRows)
           /\ Members(Sorted(rows)) = Members(rows)
           /\ Ascending(Sorted(rows))
<1> DEFINE k == Len(rows)
           upto(n) == {m \in 1..k : Before(rows[m], rows[n])}
           place == [n \in 1..k |-> Cardinality(upto(n))]
           at == [i \in 1..k |-> CHOOSE n \in 1..k : Cardinality(upto(n)) = i]
           sorted == [i \in 1..k |-> rows[at[i]]]
<1>0. Sorted(rows) = sorted
  <2>1. DOMAIN rows = 1..k
    OBVIOUS
  <2>. QED BY <2>1 DEF Sorted
<1>1. k \in Nat /\ \A n \in 1..k : rows[n] \in TagRows
  OBVIOUS
<1>2. IsFiniteSet(1..k) /\ Cardinality(1..k) = k
  <2>1. 1 \in Int /\ k \in Int
    BY <1>1
  <2>2. IsFiniteSet(1..k) /\ Cardinality(1..k) = IF 1 > k THEN 0 ELSE k - 1 + 1
    <3> HIDE DEF k
    <3>. QED BY <2>1, FS_Interval
  <2>. QED BY <1>1, <2>2
<1>3. \A n \in 1..k : IsFiniteSet(upto(n)) /\ Cardinality(upto(n)) \in 1..k
  <2> SUFFICES ASSUME NEW n \in 1..k
               PROVE  IsFiniteSet(upto(n)) /\ Cardinality(upto(n)) \in 1..k
    OBVIOUS
  <2>1. PICK U : U = upto(n)
    OBVIOUS
  <2>2. U \in SUBSET (1..k) /\ n \in U
    BY <1>1, <2>1, BeforeOrder
  <2>3. IsFiniteSet(U) /\ Cardinality(U) <= k
    BY <1>2, <2>2, FS_Subset
  <2>4. Cardinality(U) \in Nat
    BY <2>3, FS_CardinalityType
  <2>5. Cardinality(U) # 0
    BY <2>2, <2>3, FS_EmptySet
  <2>. QED BY <1>1, <2>1, <2>3, <2>4, <2>5
<1>4. ASSUME NEW n \in 1..k, NEW m \in 1..k, Before(rows[n], rows[m]), rows[n] # rows[m]
      PROVE  Cardinality(upto(n)) < Cardinality(upto(m))
  <2>1. PICK U, W : U = upto(n) /\ W = upto(m)
    OBVIOUS
  <2>2. U \in SUBSET W
    <3> SUFFICES ASSUME NEW q \in 1..k, Before(rows[q], rows[n])
                 PROVE  Before(rows[q], rows[m])
      BY <2>1
    <3>1. rows[q] \in TagRows /\ rows[n] \in TagRows /\ rows[m] \in TagRows
      BY <1>1
    <3>. QED BY <1>4, <3>1, BeforeOrder
  <2>3. m \in W /\ m \notin U
    <3>1. rows[n] \in TagRows /\ rows[m] \in TagRows
      BY <1>1
    <3>2. Before(rows[m], rows[m]) /\ ~Before(rows[m], rows[n])
      BY <1>4, <3>1, BeforePairs
    <3>. QED BY <2>1, <3>2
  <2>4. IsFiniteSet(W) /\ Cardinality(W) \in Nat /\ Cardinality(U) \in Nat
    <3> HIDE DEF upto
    <3>. QED BY <1>1, <1>3, <2>1
  <2>5. /\ Cardinality(U) <= Cardinality(W)
        /\ Cardinality(W) = Cardinality(U) => W = U
    BY <2>2, <2>4, FS_Subset
  <2>6. W # U
    BY <2>3
  <2>. QED BY <2>1, <2>4, <2>5, <2>6
<1>5. \A n, m \in 1..k : place[n] = place[m] => n = m
  <2> SUFFICES ASSUME NEW n \in 1..k, NEW m \in 1..k, n # m
               PROVE  Cardinality(upto(n)) # Cardinality(upto(m))
    OBVIOUS
  <2>1. rows[n] # rows[m] /\ rows[n] \in TagRows /\ rows[m] \in TagRows
    BY <1>1 DEF Distinct
  <2>2. Before(rows[n], rows[m]) \/ Before(rows[m], rows[n])
    BY <2>1, BeforePairs
  <2>3. Cardinality(upto(n)) \in Nat /\ Cardinality(upto(m)) \in Nat
    <3> HIDE DEF upto
    <3>. QED BY <1>1, <1>3
  <2>4. Cardinality(upto(n)) < Cardinality(upto(m)) \/ Cardinality(upto(m)) < Cardinality(upto(n))
    BY <1>4, <2>1, <2>2
  <2> HIDE DEF upto
  <2>. QED BY <2>3, <2>4
<1>6. place \in Injection(1..k, 1..k)
  <2>1. place \in [1..k -> 1..k]
    BY <1>3
  <2>. QED BY <1>5, <2>1 DEF Injection, IsInjective
<1>7. place \in Surjection(1..k, 1..k)
  <2> HIDE DEF place
  <2>. QED BY <1>2, <1>6, FS_Injection
<1>8. \A i \in 1..k : at[i] \in 1..k /\ Cardinality(upto(at[i])) = i
  <2> SUFFICES ASSUME NEW i \in 1..k PROVE at[i] \in 1..k /\ Cardinality(upto(at[i])) = i
    OBVIOUS
  <2>1. PICK n \in 1..k : place[n] = i
    <3> HIDE DEF place
    <3>. QED BY <1>7 DEF Surjection
  <2>2. Cardinality(upto(n)) = i
    BY <2>1
  <2>3. at[i] = CHOOSE m \in 1..k : Cardinality(upto(m)) = i
    OBVIOUS
  <2> HIDE DEF at, upto
  <2>. QED BY <2>2, <2>3
<1>9. \A n \in 1..k : \E i \in 1..k : at[i] = n
  <2> SUFFICES ASSUME NEW n \in 1..k PROVE \E i \in 1..k : at[i] = n
    OBVIOUS
  <2>1. PICK i \in 1..k : i = Cardinality(upto(n))
    BY <1>3
  <2>2. at[i] \in 1..k /\ Cardinality(upto(at[i])) = i
    BY <1>8
  <2> HIDE DEF at
  <2>3. place[at[i]] = place[n]
    BY <2>1, <2>2
  <2>4. at[i] = n
    <3> HIDE DEF place
    <3>. QED BY <1>5, <2>2, <2>3
  <2>. QED BY <2>4
<1> HIDE DEF at
<1>10. /\ sorted \in Seq(TagRows) /\ Len(sorted) = k
       /\ \A i \in 1..k : sorted[i] = rows[at[i]] /\ sorted[i] \in TagRows
  <2>1. \A i \in 1..k : rows[at[i]] \in TagRows
    BY <1>1, <1>8
  <2>2. sorted \in [1..k -> TagRows]
    BY <2>1
  <2>3. \A i \in 1..k : sorted[i] = rows[at[i]]
    OBVIOUS
  <2> HIDE DEF sorted
  <2>. QED BY <1>1, <2>1, <2>2, <2>3
<1> HIDE DEF sorted
<1>11. Members(sorted) = Members(rows)
  <2>1. ASSUME NEW i \in 1..k PROVE \E n \in 1..k : sorted[i] = rows[n]
    BY <1>8, <1>10
  <2>2. ASSUME NEW n \in 1..k PROVE \E i \in 1..k : sorted[i] = rows[n]
    BY <1>9, <1>10
  <2>3. Members(sorted) = {sorted[i] : i \in 1..k}
    BY <1>10 DEF Members
  <2>4. Members(rows) = {rows[n] : n \in 1..k}
    BY DEF Members
  <2> HIDE DEF k
  <2>5. {sorted[i] : i \in 1..k} \subseteq {rows[n] : n \in 1..k}
    BY <2>1
  <2>6. {rows[n] : n \in 1..k} \subseteq {sorted[i] : i \in 1..k}
    BY <2>2
  <2>. QED BY <2>3, <2>4, <2>5, <2>6
<1>12. Ascending(sorted)
  <2> SUFFICES ASSUME NEW i \in 1..k, NEW j \in 1..k, i < j
               PROVE  Before(sorted[i], sorted[j]) /\ sorted[i] # sorted[j]
    BY <1>10 DEF Ascending
  <2>1. PICK n, m : n = at[i] /\ m = at[j]
    OBVIOUS
  <2>2. n \in 1..k /\ m \in 1..k /\ Cardinality(upto(n)) = i /\ Cardinality(upto(m)) = j
    BY <1>8, <2>1
  <2>3. n # m
    <3>1. i # j
      BY <1>1
    <3> HIDE DEF upto
    <3>. QED BY <2>2, <3>1
  <2>4. rows[n] # rows[m] /\ rows[n] \in TagRows /\ rows[m] \in TagRows
    BY <1>1, <2>2, <2>3 DEF Distinct
  <2>5. ~Before(rows[m], rows[n])
    <3> SUFFICES ASSUME Before(rows[m], rows[n]) PROVE FALSE
      OBVIOUS
    <3>1. Cardinality(upto(m)) < Cardinality(upto(n))
      BY <1>4, <2>2, <2>4
    <3> HIDE DEF upto
    <3>. QED BY <1>1, <2>2, <3>1
  <2>6. Before(rows[n], rows[m])
    BY <2>4, <2>5, BeforePairs
  <2>. QED BY <1>10, <2>1, <2>4, <2>6
<1>. QED BY <1>0, <1>10, <1>11, <1>12

-----------------------------------------------------------------------------
(* Merging *)

TakesLeft(left, right, i, j) ==
    i < Len(left) /\ (j = Len(right) \/ Before(left[i + 1], right[j + 1]))

TakenLoop(g, left, right) ==
    g = [k \in 0..(Len(left) + Len(right)) |->
           IF k = 0 THEN 0
           ELSE IF TakesLeft(left, right, g[k - 1], k - 1 - g[k - 1])
                THEN g[k - 1] + 1 ELSE g[k - 1]]

MergedAt(g, left, right, k) == IF g[k] > g[k - 1] THEN left[g[k]] ELSE right[k - g[k]]

IsTaken(g, left, right, n) ==
    /\ g \in [0..n -> Int]
    /\ g[0] = 0
    /\ \A k \in 1..n : g[k] = IF TakesLeft(left, right, g[k - 1], k - 1 - g[k - 1])
                             THEN g[k - 1] + 1 ELSE g[k - 1]

IsMerge(g, left, right, n) ==
    /\ IsTaken(g, left, right, n)
    /\ Merge(left, right) = [k \in 1..n |-> MergedAt(g, left, right, k)]

\* A merge has a table of how many rows of its left run it has taken.
LEMMA TakenExists ==
    ASSUME NEW left, NEW right, NEW n \in Nat
    PROVE  \E g : IsTaken(g, left, right, n)
<1> DEFINE F == [k \in 1..n |->
                   [i \in Int |-> IF TakesLeft(left, right, i, k - 1 - i) THEN i + 1 ELSE i]]
<1>1. F \in [1..n -> [Int -> Int]]
  OBVIOUS
<1>2. PICK N, z, G : N = Int /\ z = 0 /\ G = F
  OBVIOUS
<1>3. G \in [1..n -> [N -> N]] /\ z \in N
  BY <1>1, <1>2
<1>g. PICK g : IsLoop(g, N, z, n, G)
  BY <1>3, LoopExists
<1>4. g \in [0..n -> N] /\ g[0] = z /\ \A i \in 1..n : g[i] = G[i][g[i - 1]]
  BY <1>g DEF IsLoop
<1>5. ASSUME NEW k \in 1..n
      PROVE  g[k] = IF TakesLeft(left, right, g[k - 1], k - 1 - g[k - 1])
                    THEN g[k - 1] + 1 ELSE g[k - 1]
  <2>1. G[k] = [i \in Int |-> IF TakesLeft(left, right, i, k - 1 - i) THEN i + 1 ELSE i]
    BY <1>2
  <2>2. k - 1 \in 0..n
    OBVIOUS
  <2>3. g[k - 1] \in Int
    BY <1>2, <1>4, <2>2
  <2> HIDE DEF F
  <2>. QED BY <1>4, <2>1, <2>3
<1>6. IsTaken(g, left, right, n)
  BY <1>2, <1>4, <1>5 DEF IsTaken
<1>. QED BY <1>6

\* Among the first k rows of a merge g[k] are of the left run, the other ones
\* of the right, and each comes before what is left of either.
LEMMA MergeLoop ==
    ASSUME NEW left \in Seq(TagRows), NEW right \in Seq(TagRows),
           NEW n, n = Len(left) + Len(right)
    PROVE  \E g : IsMerge(g, left, right, n)
<1> DEFINE taken == CHOOSE g : TakenLoop(g, left, right)
<1>1. n \in Nat
  OBVIOUS
<1>2. Merge(left, right) = [k \in 1..n |-> MergedAt(taken, left, right, k)]
  BY DEF Merge, TakenLoop, TakesLeft, MergedAt
<1>3. \E g : TakenLoop(g, left, right)
  <2>3. PICK g : IsTaken(g, left, right, n)
    BY <1>1, TakenExists
  <2>4. /\ g \in [0..n -> Int]
        /\ g[0] = 0
        /\ \A k \in 1..n : g[k] = IF TakesLeft(left, right, g[k - 1], k - 1 - g[k - 1])
                                 THEN g[k - 1] + 1 ELSE g[k - 1]
    BY <2>3 DEF IsTaken
  <2>6. g = [k \in 0..n |-> g[k]]
    BY <2>4
  <2> DEFINE Step(k) == IF k = 0 THEN 0
                        ELSE IF TakesLeft(left, right, g[k - 1], k - 1 - g[k - 1])
                             THEN g[k - 1] + 1 ELSE g[k - 1]
  <2>7. \A k \in 0..n : g[k] = Step(k)
    BY <1>1, <2>4
  <2>8. g = [k \in 0..n |-> Step(k)]
    <3> HIDE DEF Step
    <3>. QED BY <2>6, <2>7
  <2>9. TakenLoop(g, left, right)
    BY <2>8 DEF TakenLoop
  <2>. QED BY <2>9
<1>4. TakenLoop(taken, left, right)
  BY <1>3
<1> HIDE DEF taken
<1>5. taken[0] = 0
  BY <1>1, <1>4 DEF TakenLoop
<1>6. \A k \in 1..n : taken[k] = IF TakesLeft(left, right, taken[k - 1], k - 1 - taken[k - 1])
                                 THEN taken[k - 1] + 1 ELSE taken[k - 1]
  <2> DEFINE Step(k) == IF k = 0 THEN 0
                        ELSE IF TakesLeft(left, right, taken[k - 1], k - 1 - taken[k - 1])
                             THEN taken[k - 1] + 1 ELSE taken[k - 1]
  <2>1. taken = [k \in 0..n |-> Step(k)]
    BY <1>4 DEF TakenLoop
  <2>2. ASSUME NEW k \in 1..n PROVE taken[k] = Step(k) /\ k # 0
    <3> HIDE DEF Step
    <3>1. k \in 0..n /\ k # 0
      BY <1>1
    <3>. QED BY <2>1, <3>1
  <2>. QED BY <2>2
<1>7. taken \in [0..n -> Int]
  <2> DEFINE T == {k \in 0..n : taken[k] \in Int}
  <2>1. 0 \in T
    BY <1>1, <1>5
  <2>2. \A k \in 1..n : k - 1 \in T => k \in T
    BY <1>1, <1>6
  <2>3. \A k \in 0..n : k \in T
    <3> HIDE DEF T
    <3>. QED BY <1>1, <2>1, <2>2, UpToInduction
  <2>4. taken = [k \in 0..n |-> taken[k]]
    BY <1>4 DEF TakenLoop
  <2>. QED BY <2>3, <2>4
<1>8. IsMerge(taken, left, right, n)
  BY <1>2, <1>5, <1>6, <1>7 DEF IsMerge, IsTaken
<1>. QED BY <1>8

\* Merging two ascending runs that share no row lists the rows of both in order.
LEMMA MergeAscends ==
    ASSUME NEW left \in Seq(TagRows), NEW right \in Seq(TagRows),
           Ascending(left), Ascending(right), Members(left) \cap Members(right) = {}
    PROVE  /\ Merge(left, right) \in Seq(TagRows)
           /\ Members(Merge(left, right)) = Members(left) \cup Members(right)
           /\ Ascending(Merge(left, right))
<1>1. PICK l, r, n : l = Len(left) /\ r = Len(right) /\ n = Len(left) + Len(right)
  OBVIOUS
<1>2. l \in Nat /\ r \in Nat /\ n = l + r /\ n \in Nat
  BY <1>1
<1>g. PICK g : IsMerge(g, left, right, n)
  BY <1>1, MergeLoop
<1>3. /\ g \in [0..n -> Int]
      /\ g[0] = 0
      /\ \A k \in 1..n : g[k] = IF TakesLeft(left, right, g[k - 1], k - 1 - g[k - 1])
                               THEN g[k - 1] + 1 ELSE g[k - 1]
      /\ Merge(left, right) = [k \in 1..n |-> MergedAt(g, left, right, k)]
  BY <1>g DEF IsMerge, IsTaken
<1> DEFINE Takes(k) == TakesLeft(left, right, g[k - 1], k - 1 - g[k - 1])
<1>4. \A k \in 0..n : g[k] \in 0..l /\ k - g[k] \in 0..r
  <2> DEFINE T == {k \in 0..n : g[k] \in 0..l /\ k - g[k] \in 0..r}
  <2>1. 0 \in T
    BY <1>2, <1>3
  <2>2. ASSUME NEW k \in 1..n, k - 1 \in T PROVE k \in T
    <3>1. PICK i, j : i = g[k - 1] /\ j = k - 1 - g[k - 1]
      OBVIOUS
    <3>2. i \in 0..l /\ j \in 0..r /\ i + j = k - 1
      BY <1>3, <2>2, <3>1
    <3>3. CASE Takes(k)
      <4>1. g[k] = i + 1 /\ i < l
        BY <1>1, <1>3, <3>1, <3>3 DEF TakesLeft
      <4>. QED BY <1>2, <3>2, <4>1
    <3>4. CASE ~Takes(k)
      <4>1. g[k] = i
        BY <1>3, <3>1, <3>4
      <4>2. ~(i < l) \/ j # r
        BY <1>1, <3>1, <3>4 DEF TakesLeft
      <4>3. j < r
        BY <1>2, <3>2, <4>2
      <4>. QED BY <1>2, <3>2, <4>1, <4>3
    <3>. QED BY <3>3, <3>4
  <2>3. \A k \in 0..n : k \in T
    <3> HIDE DEF T
    <3>. QED BY <1>2, <2>1, <2>2, UpToInduction
  <2>. QED BY <2>3
<1>5. \A k \in 1..n :
        /\ Takes(k) => g[k] = g[k - 1] + 1 /\ k - g[k] = k - 1 - g[k - 1]
        /\ ~Takes(k) => g[k] = g[k - 1] /\ k - g[k] = k - 1 - g[k - 1] + 1
  <2> SUFFICES ASSUME NEW k \in 1..n
               PROVE  /\ Takes(k) => g[k] = g[k - 1] + 1 /\ k - g[k] = k - 1 - g[k - 1]
                      /\ ~Takes(k) => g[k] = g[k - 1] /\ k - g[k] = k - 1 - g[k - 1] + 1
    OBVIOUS
  <2>1. k - 1 \in 0..n /\ k \in 0..n
    BY <1>2
  <2>2. g[k - 1] \in Int /\ g[k] \in Int /\ k \in Int
    BY <1>3, <2>1
  <2>3. g[k] = IF Takes(k) THEN g[k - 1] + 1 ELSE g[k - 1]
    BY <1>3
  <2> HIDE DEF Takes
  <2>. QED BY <2>2, <2>3
<1>6. ASSUME NEW m \in 0..n, NEW k \in m..n
      PROVE  g[m] <= g[k] /\ m - g[m] <= k - g[k]
  <2> DEFINE T == {q \in 0..n : m <= q => g[m] <= g[q] /\ m - g[m] <= q - g[q]}
  <2>1. 0 \in T
    BY <1>2, <1>3
  <2>2. ASSUME NEW q \in 1..n, q - 1 \in T PROVE q \in T
    <3>1. q \in 0..n /\ q - 1 \in 0..n /\ q \in Int /\ m \in Int
      BY <1>2
    <3>2. g[q] \in Int /\ g[q - 1] \in Int /\ g[m] \in Int
      BY <1>3, <3>1
    <3>3. g[q - 1] <= g[q] /\ q - 1 - g[q - 1] <= q - g[q]
      <4> HIDE DEF Takes
      <4>. QED BY <1>5, <3>1, <3>2
    <3>4. CASE m <= q - 1
      <4>1. PICK x, y, z : x = g[m] /\ y = g[q - 1] /\ z = g[q]
        OBVIOUS
      <4>2. x <= y /\ m - x <= q - 1 - y /\ y <= z /\ q - 1 - y <= q - z
        BY <2>2, <3>3, <3>4, <4>1
      <4>3. x \in Int /\ y \in Int /\ z \in Int
        BY <3>2, <4>1
      <4>4. x <= z /\ m - x <= q - z
        BY <3>1, <4>2, <4>3
      <4>. QED BY <3>1, <4>1, <4>4
    <3>5. CASE ~(m <= q - 1)
      <4>1. m <= q => m = q
        BY <3>1, <3>5
      <4>. QED BY <3>1, <3>2, <4>1
    <3>. QED BY <3>4, <3>5
  <2>3. \A q \in 0..n : q \in T
    <3> HIDE DEF T
    <3>. QED BY <1>2, <2>1, <2>2, UpToInduction
  <2>4. k \in 0..n /\ m <= k
    OBVIOUS
  <2>. QED BY <2>3, <2>4
<1> DEFINE merged == Merge(left, right)
<1>7. \A k \in 1..n :
        /\ Takes(k) => g[k] \in 1..l /\ merged[k] = left[g[k]]
        /\ ~Takes(k) => k - g[k] \in 1..r /\ merged[k] = right[k - g[k]]
  <2> SUFFICES ASSUME NEW k \in 1..n
               PROVE  /\ Takes(k) => g[k] \in 1..l /\ merged[k] = left[g[k]]
                      /\ ~Takes(k) => k - g[k] \in 1..r /\ merged[k] = right[k - g[k]]
    OBVIOUS
  <2>1. k - 1 \in 0..n /\ k \in 0..n
    BY <1>2
  <2>2. /\ g[k - 1] \in 0..l /\ g[k] \in 0..l
        /\ k - 1 - g[k - 1] \in 0..r /\ k - g[k] \in 0..r
    BY <1>4, <2>1
  <2>3. merged[k] = IF g[k] > g[k - 1] THEN left[g[k]] ELSE right[k - g[k]]
    BY <1>3 DEF MergedAt
  <2>4. ASSUME Takes(k) PROVE g[k] \in 1..l /\ g[k] > g[k - 1]
    <3>1. g[k] = g[k - 1] + 1
      BY <1>5, <2>4
    <3>. QED BY <1>2, <2>2, <3>1
  <2>5. ASSUME ~Takes(k) PROVE k - g[k] \in 1..r /\ ~(g[k] > g[k - 1])
    <3>1. g[k] = g[k - 1] /\ k - g[k] = k - 1 - g[k - 1] + 1
      BY <1>5, <2>5
    <3>. QED BY <1>2, <2>2, <3>1
  <2> HIDE DEF Takes, merged
  <2>. QED BY <2>3, <2>4, <2>5
<1>8. /\ \A i \in 1..l : left[i] \in TagRows /\ left[i] \in Members(left)
      /\ \A j \in 1..r : right[j] \in TagRows /\ right[j] \in Members(right)
  BY <1>1 DEF Members
<1>9. merged \in Seq(TagRows) /\ Len(merged) = n
  <2>1. ASSUME NEW k \in 1..n PROVE merged[k] \in TagRows
    <3> HIDE DEF Takes, merged
    <3>. QED BY <1>7, <1>8
  <2>2. merged = [k \in 1..n |-> merged[k]]
    BY <1>3
  <2>3. merged \in [1..n -> TagRows]
    <3> HIDE DEF merged
    <3>. QED BY <2>1, <2>2
  <2> HIDE DEF merged
  <2>. QED BY <1>2, <2>3
<1> HIDE DEF merged
<1>10. \A i \in 1..l : \E k \in 1..n : merged[k] = left[i]
  <2> SUFFICES ASSUME NEW i \in 1..l PROVE \E k \in 1..n : merged[k] = left[i]
    OBVIOUS
  <2> DEFINE T == {k \in 0..n : i <= g[k]}
  <2>1. n \in T
    <3>1. n \in 0..n
      BY <1>2
    <3>2. g[n] \in 0..l /\ n - g[n] \in 0..r
      BY <1>4, <3>1
    <3>. QED BY <1>2, <3>1, <3>2
  <2>2. PICK k \in T : \A q \in T : k <= q
    <3>1. T \subseteq Nat
      OBVIOUS
    <3> HIDE DEF T
    <3>. QED BY <2>1, <3>1, LeastNatural
  <2>3. k \in 1..n /\ k - 1 \in 0..n /\ i <= g[k]
    BY <1>2, <1>3
  <2>4. ~(i <= g[k - 1])
    BY <2>2, <2>3
  <2>5. g[k] \in Int /\ g[k - 1] \in Int
    BY <1>3, <2>3
  <2>6. Takes(k)
    <3> HIDE DEF Takes
    <3>. QED BY <1>5, <2>3, <2>4, <2>5
  <2>7. g[k] = i
    <3>1. g[k] = g[k - 1] + 1
      BY <1>5, <2>3, <2>6
    <3>. QED BY <2>3, <2>4, <2>5, <3>1
  <2>. QED BY <1>7, <2>3, <2>6, <2>7
<1>11. \A j \in 1..r : \E k \in 1..n : merged[k] = right[j]
  <2> SUFFICES ASSUME NEW j \in 1..r PROVE \E k \in 1..n : merged[k] = right[j]
    OBVIOUS
  <2> DEFINE T == {k \in 0..n : j <= k - g[k]}
  <2>1. n \in T
    <3>1. n \in 0..n
      BY <1>2
    <3>2. g[n] \in 0..l /\ n - g[n] \in 0..r
      BY <1>4, <3>1
    <3>. QED BY <1>2, <3>1, <3>2
  <2>2. PICK k \in T : \A q \in T : k <= q
    <3>1. T \subseteq Nat
      OBVIOUS
    <3> HIDE DEF T
    <3>. QED BY <2>1, <3>1, LeastNatural
  <2>3. k \in 1..n /\ k - 1 \in 0..n /\ j <= k - g[k]
    BY <1>2, <1>3
  <2>4. ~(j <= k - 1 - g[k - 1])
    BY <2>2, <2>3
  <2>5. g[k] \in Int /\ g[k - 1] \in Int
    BY <1>3, <2>3
  <2>6. ~Takes(k)
    <3> HIDE DEF Takes
    <3>. QED BY <1>5, <2>3, <2>4, <2>5
  <2>7. k - g[k] = j
    <3>1. k - g[k] = k - 1 - g[k - 1] + 1
      BY <1>5, <2>3, <2>6
    <3>. QED BY <2>3, <2>4, <2>5, <3>1
  <2>. QED BY <1>7, <2>3, <2>6, <2>7
<1>12. Members(merged) = Members(left) \cup Members(right)
  <2>1. Members(merged) = {merged[k] : k \in 1..n}
    BY <1>9 DEF Members
  <2>2. Members(left) = {left[i] : i \in 1..l} /\ Members(right) = {right[j] : j \in 1..r}
    BY <1>1 DEF Members
  <2>3. \A k \in 1..n : (\E i \in 1..l : merged[k] = left[i]) \/ (\E j \in 1..r : merged[k] = right[j])
    <3> HIDE DEF Takes
    <3>. QED BY <1>7
  <2>4. Members(merged) \subseteq Members(left) \cup Members(right)
    BY <2>1, <2>2, <2>3
  <2>5. Members(left) \subseteq Members(merged)
    BY <1>10, <2>1, <2>2
  <2>6. Members(right) \subseteq Members(merged)
    BY <1>11, <2>1, <2>2
  <2>. QED BY <2>4, <2>5, <2>6
<1>13. Ascending(merged)
  <2> SUFFICES ASSUME NEW k \in 1..n, NEW m \in 1..n, k < m
               PROVE  Before(merged[k], merged[m]) /\ merged[k] # merged[m]
    BY <1>9 DEF Ascending
  <2>1. PICK i, j : i = g[k - 1] /\ j = k - 1 - g[k - 1]
    OBVIOUS
  <2>2. /\ k - 1 \in 0..n /\ k \in 0..n /\ m - 1 \in 0..n /\ m \in 0..n /\ m - 1 \in k..n
        /\ k \in Int /\ m \in Int
    BY <1>2
  <2>3. /\ i \in 0..l /\ j \in 0..r /\ i \in Int /\ j \in Int
        /\ g[k] \in Int /\ g[m - 1] \in Int /\ g[m] \in Int
    <3>1. g[k - 1] \in 0..l /\ k - 1 - g[k - 1] \in 0..r
      BY <1>4, <2>2
    <3>2. g[k] \in Int /\ g[m - 1] \in Int /\ g[m] \in Int
      BY <1>3, <2>2
    <3>. QED BY <1>2, <2>1, <3>1, <3>2
  <2>4. g[k] <= g[m - 1] /\ k - g[k] <= m - 1 - g[m - 1]
    BY <1>6, <2>2
  <2>5. /\ \A a, b \in 1..l : a <= b => Before(left[a], left[b])
        /\ \A a, b \in 1..l : a < b => left[a] # left[b]
    <3>1. \A a, b \in 1..l : a < b => Before(left[a], left[b]) /\ left[a] # left[b]
      BY <1>1 DEF Ascending
    <3>2. \A a \in 1..l : Before(left[a], left[a])
      BY <1>8, BeforePairs
    <3>3. \A a, b \in 1..l : a <= b => a < b \/ a = b
      OBVIOUS
    <3>. QED BY <3>1, <3>2, <3>3
  <2>6. /\ \A a, b \in 1..r : a <= b => Before(right[a], right[b])
        /\ \A a, b \in 1..r : a < b => right[a] # right[b]
    <3>1. \A a, b \in 1..r : a < b => Before(right[a], right[b]) /\ right[a] # right[b]
      BY <1>1 DEF Ascending
    <3>2. \A a \in 1..r : Before(right[a], right[a])
      BY <1>8, BeforePairs
    <3>3. \A a, b \in 1..r : a <= b => a < b \/ a = b
      OBVIOUS
    <3>. QED BY <3>1, <3>2, <3>3
  <2>7. \A a \in 1..l, b \in 1..r : left[a] # right[b]
    BY <1>8
  <2>8. CASE Takes(k)
    <3>1. g[k] = i + 1 /\ k - g[k] = j /\ i + 1 \in 1..l /\ merged[k] = left[i + 1]
      BY <1>5, <1>7, <2>1, <2>8
    <3>2. j = r \/ Before(left[i + 1], right[j + 1])
      BY <1>1, <2>1, <2>8 DEF TakesLeft
    <3>3. CASE Takes(m)
      <4>1. PICK b : b = g[m]
        OBVIOUS
      <4>2. b = g[m - 1] + 1 /\ b \in 1..l /\ merged[m] = left[b]
        BY <1>5, <1>7, <3>3, <4>1
      <4>3. i + 1 < b /\ i + 1 <= b
        <5> HIDE DEF Takes
        <5>1. PICK x : x = g[m - 1]
          OBVIOUS
        <5>2. x \in Int /\ i \in Int
          BY <2>3, <5>1
        <5>3. i + 1 <= x
          BY <2>4, <3>1, <5>1
        <5>4. b = x + 1
          BY <4>2, <5>1
        <5>. QED BY <5>2, <5>3, <5>4
      <4> HIDE DEF Takes
      <4>. QED BY <2>5, <3>1, <4>2, <4>3
    <3>4. CASE ~Takes(m)
      <4>1. PICK b : b = m - g[m]
        OBVIOUS
      <4>2. b = m - 1 - g[m - 1] + 1 /\ b \in 1..r /\ merged[m] = right[b]
        BY <1>5, <1>7, <3>4, <4>1
      <4>3. j + 1 <= b /\ j + 1 \in 1..r /\ j # r
        <5> HIDE DEF Takes
        <5>1. PICK x : x = m - 1 - g[m - 1]
          OBVIOUS
        <5>2. x \in Int
          BY <2>2, <2>3, <5>1
        <5>3. j <= x
          BY <2>4, <3>1, <5>1
        <5>4. b = x + 1 /\ b \in 1..r
          BY <4>2, <5>1
        <5>5. j \in 0..r /\ j \in Int /\ r \in Nat
          BY <1>2, <2>3
        <5>. QED BY <5>2, <5>3, <5>4, <5>5
      <4>4. Before(left[i + 1], right[j + 1]) /\ Before(right[j + 1], right[b])
        BY <2>6, <3>2, <4>2, <4>3
      <4>5. Before(left[i + 1], right[b])
        BY <1>8, <3>1, <4>2, <4>3, <4>4, BeforeOrder
      <4> HIDE DEF Takes
      <4>. QED BY <2>7, <3>1, <4>2, <4>5
    <3>. QED BY <3>3, <3>4
  <2>9. CASE ~Takes(k)
    <3>1. g[k] = i /\ k - g[k] = j + 1 /\ j + 1 \in 1..r /\ merged[k] = right[j + 1]
      BY <1>5, <1>7, <2>1, <2>9
    <3>2. i < l => ~Before(left[i + 1], right[j + 1])
      BY <1>1, <2>1, <2>9 DEF TakesLeft
    <3>3. CASE ~Takes(m)
      <4>1. PICK b : b = m - g[m]
        OBVIOUS
      <4>2. b = m - 1 - g[m - 1] + 1 /\ b \in 1..r /\ merged[m] = right[b]
        BY <1>5, <1>7, <3>3, <4>1
      <4>3. j + 1 < b /\ j + 1 <= b
        <5> HIDE DEF Takes
        <5>. QED BY <2>2, <2>3, <2>4, <3>1, <4>2
      <4> HIDE DEF Takes
      <4>. QED BY <2>6, <3>1, <4>2, <4>3
    <3>4. CASE Takes(m)
      <4>1. PICK b : b = g[m]
        OBVIOUS
      <4>2. b = g[m - 1] + 1 /\ b \in 1..l /\ merged[m] = left[b]
        BY <1>5, <1>7, <3>4, <4>1
      <4>3. i + 1 <= b /\ i + 1 \in 1..l /\ i < l
        <5>1. i <= g[m - 1]
          BY <2>4, <3>1
        <5>2. i + 1 <= b /\ b <= l
          <6> HIDE DEF Takes
          <6>. QED BY <1>2, <2>3, <4>2, <5>1
        <5> HIDE DEF Takes
        <5>3. i \in Int /\ i \in 0..l /\ b \in 1..l /\ l \in Nat
          BY <1>2, <2>3, <4>2
        <5>. QED BY <5>2, <5>3
      <4>4. Before(right[j + 1], left[i + 1]) /\ Before(left[i + 1], left[b])
        BY <1>8, <2>5, <3>1, <3>2, <4>2, <4>3, BeforePairs
      <4>5. Before(right[j + 1], left[b])
        BY <1>8, <3>1, <4>2, <4>3, <4>4, BeforeOrder
      <4> HIDE DEF Takes
      <4>. QED BY <2>7, <3>1, <4>2, <4>5
    <3>. QED BY <3>3, <3>4
  <2>. QED BY <2>8, <2>9
<1>. QED BY <1>9, <1>12, <1>13 DEF merged

-----------------------------------------------------------------------------
(* Duplicates *)

SameKey(a, b) == a.rule = b.rule /\ a.tag = b.tag

\* A buffer of distinct tags reports those that share their key.
LEMMA GroupsAreDuplicated ==
    ASSUME NEW rows \in Seq(TagRows), Distinct(rows)
    PROVE  GroupFindings(rows) = Duplicated(Members(rows))
<1> DEFINE k == Len(rows)
<1>1. DOMAIN rows = 1..k /\ \A i \in 1..k : rows[i] \in Members(rows)
  BY DEF Members
<1>2. ASSUME NEW n \in 1..k, NEW m \in 1..k, n # m, SameKey(rows[m], rows[n])
      PROVE  <<rows[n].sequence, rows[n].rule>> \in Duplicated(Members(rows))
  <2>1. PICK a, c : a = rows[n] /\ c = rows[m]
    OBVIOUS
  <2>2. a \in Members(rows) /\ c \in Members(rows) /\ c # a
    BY <1>1, <1>2, <2>1 DEF Distinct
  <2>3. c.rule = a.rule /\ c.tag = a.tag
    BY <1>2, <2>1 DEF SameKey
  <2>. QED BY <2>1, <2>2, <2>3 DEF Duplicated
<1>3. ASSUME NEW a \in Members(rows), NEW c \in Members(rows), c # a, SameKey(c, a)
      PROVE  <<a.sequence, a.rule>> \in GroupFindings(rows)
  <2>1. PICK n \in 1..k : rows[n] = a
    BY DEF Members
  <2>2. PICK m \in 1..k : rows[m] = c
    BY DEF Members
  <2>3. m \in DOMAIN rows \ {n} /\ rows[m].rule = rows[n].rule /\ rows[m].tag = rows[n].tag
    BY <1>1, <1>3, <2>1, <2>2 DEF SameKey
  <2>. QED BY <1>1, <2>1, <2>3 DEF GroupFindings
<1>4. \A x \in GroupFindings(rows) : x \in Duplicated(Members(rows))
  <2> SUFFICES ASSUME NEW x \in GroupFindings(rows) PROVE x \in Duplicated(Members(rows))
    OBVIOUS
  <2>1. PICK n \in 1..k : /\ x = <<rows[n].sequence, rows[n].rule>>
                          /\ \E m \in 1..k : n # m /\ SameKey(rows[m], rows[n])
    BY <1>1 DEF GroupFindings, SameKey
  <2>. QED BY <1>2, <2>1
<1>5. \A x \in Duplicated(Members(rows)) : x \in GroupFindings(rows)
  <2> SUFFICES ASSUME NEW x \in Duplicated(Members(rows)) PROVE x \in GroupFindings(rows)
    OBVIOUS
  <2>1. PICK a \in Members(rows) : /\ x = <<a.sequence, a.rule>>
                                   /\ \E c \in Members(rows) : c # a /\ SameKey(c, a)
    BY DEF Duplicated, SameKey
  <2>. QED BY <1>3, <2>1
<1>. QED BY <1>4, <1>5

IsFirst(f, rows) ==
    /\ f \in [1..Len(rows) -> Int]
    /\ \A n \in 1..Len(rows) :
         f[n] = IF n > 1 /\ SameKey(rows[n - 1], rows[n]) THEN f[n - 1] ELSE n
    /\ ScanRun(rows) = UNION {GroupFindings(SubSeq(rows, f[n], n)) : n \in 1..Len(rows)}

FirstLoop(f, rows) ==
    f = [n \in 1..Len(rows) |->
           IF n > 1 /\ SameKey(rows[n - 1], rows[n]) THEN f[n - 1] ELSE n]

IsFirstUpTo(g, rows, k) ==
    /\ g \in [0..k -> Int]
    /\ \A n \in 1..k : g[n] = IF n > 1 /\ SameKey(rows[n - 1], rows[n]) THEN g[n - 1] ELSE n

\* The scan has a table of where the group of each row begins.
LEMMA FirstExists ==
    ASSUME NEW rows, NEW k \in Nat
    PROVE  \E g : IsFirstUpTo(g, rows, k)
<1> DEFINE F == [n \in 1..k |->
                   [i \in Int |-> IF n > 1 /\ SameKey(rows[n - 1], rows[n]) THEN i ELSE n]]
<1>1. F \in [1..k -> [Int -> Int]]
  OBVIOUS
<1>2. PICK N, z, G : N = Int /\ z = 0 /\ G = F
  OBVIOUS
<1>3. G \in [1..k -> [N -> N]] /\ z \in N
  BY <1>1, <1>2
<1>g. PICK g : IsLoop(g, N, z, k, G)
  BY <1>3, LoopExists
<1>4. g \in [0..k -> N] /\ g[0] = z /\ \A i \in 1..k : g[i] = G[i][g[i - 1]]
  BY <1>g DEF IsLoop
<1>5. ASSUME NEW n \in 1..k
      PROVE  g[n] = IF n > 1 /\ SameKey(rows[n - 1], rows[n]) THEN g[n - 1] ELSE n
  <2>1. G[n] = [i \in Int |-> IF n > 1 /\ SameKey(rows[n - 1], rows[n]) THEN i ELSE n]
    BY <1>2
  <2>2. n - 1 \in 0..k
    OBVIOUS
  <2>3. g[n - 1] \in Int
    BY <1>2, <1>4, <2>2
  <2> HIDE DEF F
  <2>. QED BY <1>4, <2>1, <2>3
<1>6. IsFirstUpTo(g, rows, k)
  BY <1>2, <1>4, <1>5 DEF IsFirstUpTo
<1>. QED BY <1>6

\* Every row of the last run has the first row of its group.
LEMMA FirstOfGroup ==
    ASSUME NEW rows \in Seq(TagRows)
    PROVE  \E f : IsFirst(f, rows)
<1> DEFINE k == Len(rows)
           Step(f, n) == IF n > 1 /\ SameKey(rows[n - 1], rows[n]) THEN f[n - 1] ELSE n
           first == CHOOSE f : FirstLoop(f, rows)
<1>1. k \in Nat /\ DOMAIN rows = 1..k
  OBVIOUS
<1>2. ScanRun(rows) = UNION {GroupFindings(SubSeq(rows, first[n], n)) : n \in 1..k}
  BY <1>1 DEF ScanRun, FirstLoop, SameKey
<1>3. \E f : FirstLoop(f, rows)
  <2>1. PICK g : IsFirstUpTo(g, rows, k)
    <3> HIDE DEF k, first
    <3>. QED BY <1>1, FirstExists
  <2>2. g \in [0..k -> Int] /\ \A n \in 1..k : g[n] = Step(g, n)
    BY <2>1 DEF IsFirstUpTo
  <2> DEFINE f == [n \in 1..k |-> g[n]]
  <2>3. \A n \in 1..k : f[n] = Step(f, n)
    <3> SUFFICES ASSUME NEW n \in 1..k PROVE f[n] = Step(f, n)
      OBVIOUS
    <3>1. n > 1 => n - 1 \in 1..k
      BY <1>1
    <3>2. n > 1 => f[n - 1] = g[n - 1]
      BY <3>1
    <3>3. f[n] = g[n]
      OBVIOUS
    <3> HIDE DEF f
    <3>. QED BY <2>2, <3>2, <3>3
  <2>4. f = [n \in 1..k |-> f[n]]
    OBVIOUS
  <2> HIDE DEF f
  <2>5. f = [n \in 1..k |-> Step(f, n)]
    <3> HIDE DEF Step
    <3>. QED BY <2>3, <2>4
  <2>6. FirstLoop(f, rows)
    BY <2>5 DEF FirstLoop
  <2>. QED BY <2>6
<1>4. FirstLoop(first, rows)
  BY <1>3
<1> HIDE DEF first
<1>5. \A n \in 1..k : first[n] = Step(first, n)
  BY <1>4 DEF FirstLoop
<1>6. first \in [1..k -> Int]
  <2> DEFINE T == {n \in 0..k : n > 0 => first[n] \in Int}
  <2>1. 0 \in T
    BY <1>1
  <2>2. ASSUME NEW n \in 1..k, n - 1 \in T PROVE n \in T
    <3>1. n > 1 => first[n - 1] \in Int
      BY <2>2
    <3>. QED BY <1>5, <3>1
  <2>3. \A n \in 0..k : n \in T
    <3> HIDE DEF T, k
    <3>. QED BY <1>1, <2>1, <2>2, UpToInduction
  <2>4. \A n \in 1..k : first[n] \in Int
    BY <2>3
  <2>5. first = [n \in 1..k |-> first[n]]
    BY <1>4 DEF FirstLoop
  <2>. QED BY <2>4, <2>5
<1>7. IsFirst(first, rows)
  BY <1>2, <1>5, <1>6 DEF IsFirst
<1>. QED BY <1>7

\* In a run in ascending order equal keys stand together, so that the groups
\* flushed one after the other report every duplicate.
LEMMA ScanIsDuplicated ==
    ASSUME NEW rows \in Seq(TagRows), Ascending(rows)
    PROVE  ScanRun(rows) = Duplicated(Members(rows))
<1>k. PICK k : k = Len(rows)
  OBVIOUS
<1>1. k \in Nat /\ \A i \in 1..k : rows[i] \in TagRows
  BY <1>k
<1>f. PICK f : IsFirst(f, rows)
  BY FirstOfGroup
<1>2. /\ f \in [1..k -> Int]
      /\ \A n \in 1..k :
           f[n] = IF n > 1 /\ SameKey(rows[n - 1], rows[n]) THEN f[n - 1] ELSE n
      /\ ScanRun(rows) = UNION {GroupFindings(SubSeq(rows, f[n], n)) : n \in 1..k}
  BY <1>f, <1>k DEF IsFirst
<1>3. \A i, j \in 1..k : i < j => Before(rows[i], rows[j]) /\ rows[i] # rows[j]
  BY <1>k DEF Ascending
<1>4. ASSUME NEW q \in 1..k, NEW n \in 1..k, q < n, ~SameKey(rows[n - 1], rows[n])
      PROVE  ~SameKey(rows[q], rows[n])
  <2>1. n - 1 \in 1..k /\ (q = n - 1 \/ q < n - 1) /\ n - 1 < n
    BY <1>1, <1>4
  <2>2. CASE q = n - 1
    BY <1>4, <2>2
  <2>3. CASE q < n - 1
    <3>1. PICK a, b, c : a = rows[q] /\ b = rows[n - 1] /\ c = rows[n]
      OBVIOUS
    <3>2. a \in TagRows /\ b \in TagRows /\ c \in TagRows
      BY <1>1, <2>1, <3>1
    <3>3. Before(a, b) /\ Before(b, c)
      BY <1>3, <2>1, <2>3, <3>1
    <3>4. a.rule = c.rule /\ a.tag = c.tag => b.rule = a.rule /\ b.tag = a.tag
      BY <3>2, <3>3, BeforeOrder
    <3>. QED BY <1>4, <3>1, <3>4 DEF SameKey
  <2>. QED BY <2>1, <2>2, <2>3
<1> DEFINE Starts(n) == f[n] \in 1..n /\ \A q \in 1..n : SameKey(rows[q], rows[n]) => f[n] <= q
           T == {n \in 0..k : n > 0 => Starts(n)}
<1>5. \A n \in 0..k : n \in T
  <2>1. 0 \in T
    BY <1>1
  <2>2. ASSUME NEW n \in 1..k, n - 1 \in T PROVE n \in T
    <3>0. n \in Int /\ n \in 0..k
      BY <1>1
    <3>1. CASE n > 1 /\ SameKey(rows[n - 1], rows[n])
      <4>1. f[n] = f[n - 1]
        BY <1>2, <3>1
      <4>2. Starts(n - 1)
        BY <2>2, <3>0, <3>1
      <4>3. f[n] \in 1..n
        BY <3>0, <4>1, <4>2
      <4>4. ASSUME NEW q \in 1..n, SameKey(rows[q], rows[n]) PROVE f[n] <= q
        <5>1. q = n \/ q \in 1..(n - 1)
          BY <3>0
        <5>2. SameKey(rows[q], rows[n - 1])
          BY <3>1, <4>4 DEF SameKey
        <5>. QED BY <4>1, <4>2, <4>3, <5>1, <5>2
      <4>. QED BY <3>0, <4>3, <4>4
    <3>2. CASE ~(n > 1 /\ SameKey(rows[n - 1], rows[n]))
      <4>1. f[n] = n
        BY <1>2, <3>2
      <4>2. ASSUME NEW q \in 1..n, SameKey(rows[q], rows[n]) PROVE n <= q
        <5>1. CASE q = n
          BY <3>0, <5>1
        <5>2. CASE q # n
          <6>1. q < n /\ q \in 1..k /\ n > 1
            BY <1>1, <3>0, <5>2
          <6>. QED BY <1>4, <3>2, <4>2, <6>1
        <5>. QED BY <5>1, <5>2
      <4>. QED BY <3>0, <4>1, <4>2
    <3>. QED BY <3>1, <3>2
  <2> HIDE DEF T
  <2>. QED BY <1>1, <2>1, <2>2, UpToInduction
<1>6. \A n \in 1..k : Starts(n)
  <2> SUFFICES ASSUME NEW n \in 1..k PROVE Starts(n)
    OBVIOUS
  <2>1. n \in 0..k /\ n > 0
    BY <1>1
  <2>. QED BY <1>5, <2>1
<1>7. ASSUME NEW n \in 1..k, NEW sub, sub = SubSeq(rows, f[n], n)
      PROVE  /\ sub \in Seq(TagRows) /\ DOMAIN sub = 1..(n - f[n] + 1)
             /\ \A i \in 1..(n - f[n] + 1) : sub[i] = rows[f[n] + i - 1]
  <2>1. f[n] \in 1..n /\ f[n] \in Int /\ n \in Int
    BY <1>6
  <2>2. PICK a : a = f[n]
    OBVIOUS
  <2>3. \A i \in a..n : rows[i] \in TagRows
    BY <1>1, <2>1, <2>2
  <2>4. /\ SubSeq(rows, a, n) \in Seq(TagRows)
        /\ Len(SubSeq(rows, a, n)) = IF a <= n THEN n - a + 1 ELSE 0
        /\ \A i \in 1..(n - a + 1) : SubSeq(rows, a, n)[i] = rows[a + i - 1]
    BY <2>1, <2>2, <2>3, SubSeqProperties
  <2>5. a <= n
    BY <2>1, <2>2
  <2>. QED BY <1>7, <2>2, <2>4, <2>5
<1>8. ASSUME NEW p \in 1..k, NEW q \in 1..k, p # q, SameKey(rows[q], rows[p])
      PROVE  <<rows[p].sequence, rows[p].rule>> \in ScanRun(rows)
  <2>1. PICK n \in {p, q} : p <= n /\ q <= n
    <3>1. p \in Int /\ q \in Int
      OBVIOUS
    <3>2. p <= q \/ q <= p
      BY <3>1
    <3>. QED BY <3>1, <3>2
  <2>2. n \in 1..k /\ p \in 1..n /\ q \in 1..n
    BY <1>1, <2>1
  <2>3. SameKey(rows[p], rows[n]) /\ SameKey(rows[q], rows[n])
    BY <1>8, <2>1 DEF SameKey
  <2>4. PICK a, sub : a = f[n] /\ sub = SubSeq(rows, f[n], n)
    OBVIOUS
  <2>5. a \in 1..n /\ a <= p /\ a <= q
    BY <1>6, <2>2, <2>3, <2>4
  <2>6. PICK i, j : i = p - a + 1 /\ j = q - a + 1
    OBVIOUS
  <2>7. /\ i \in 1..(n - a + 1) /\ j \in 1..(n - a + 1) /\ i # j
        /\ a + i - 1 = p /\ a + j - 1 = q
    BY <1>8, <2>2, <2>5, <2>6
  <2>8. /\ DOMAIN sub = 1..(n - a + 1)
        /\ \A m \in 1..(n - a + 1) : sub[m] = rows[a + m - 1]
    BY <1>7, <2>2, <2>4
  <2>9. sub[i] = rows[p] /\ sub[j] = rows[q] /\ i \in DOMAIN sub /\ j \in DOMAIN sub \ {i}
    BY <2>7, <2>8
  <2>10. sub[j].rule = sub[i].rule /\ sub[j].tag = sub[i].tag
    BY <1>8, <2>9 DEF SameKey
  <2>11. <<rows[p].sequence, rows[p].rule>> \in GroupFindings(sub)
    BY <2>9, <2>10 DEF GroupFindings
  <2>. QED BY <1>2, <2>2, <2>4, <2>11
<1>9. ASSUME NEW x \in ScanRun(rows) PROVE x \in Duplicated(Members(rows))
  <2>1. PICK n \in 1..k : x \in GroupFindings(SubSeq(rows, f[n], n))
    BY <1>2
  <2>2. PICK a, sub : a = f[n] /\ sub = SubSeq(rows, f[n], n)
    OBVIOUS
  <2>3. /\ DOMAIN sub = 1..(n - a + 1)
        /\ \A m \in 1..(n - a + 1) : sub[m] = rows[a + m - 1]
    BY <1>7, <2>2
  <2>4. PICK i \in DOMAIN sub : /\ x = <<sub[i].sequence, sub[i].rule>>
                                /\ \E m \in DOMAIN sub \ {i} : sub[m].rule = sub[i].rule
                                                             /\ sub[m].tag = sub[i].tag
    BY <2>1, <2>2 DEF GroupFindings
  <2>5. PICK j \in DOMAIN sub \ {i} : sub[j].rule = sub[i].rule /\ sub[j].tag = sub[i].tag
    BY <2>4
  <2>6. PICK p, q : p = a + i - 1 /\ q = a + j - 1
    OBVIOUS
  <2>7. a \in 1..n
    BY <1>6, <2>2
  <2>8. p \in 1..k /\ q \in 1..k /\ p # q
    BY <1>1, <2>3, <2>5, <2>6, <2>7
  <2>9. PICK b, c : b = rows[p] /\ c = rows[q]
    OBVIOUS
  <2>10. sub[i] = b /\ sub[j] = c
    BY <2>3, <2>5, <2>6, <2>9
  <2>11. b # c
    <3>1. p < q \/ q < p
      BY <2>8
    <3>. QED BY <1>3, <2>8, <2>9, <3>1
  <2>12. b \in Members(rows) /\ c \in Members(rows)
    BY <1>k, <2>8, <2>9 DEF Members
  <2>13. x = <<b.sequence, b.rule>> /\ c.rule = b.rule /\ c.tag = b.tag
    BY <2>4, <2>5, <2>10
  <2>. QED BY <2>11, <2>12, <2>13 DEF Duplicated
<1>10. ASSUME NEW x \in Duplicated(Members(rows)) PROVE x \in ScanRun(rows)
  <2>1. PICK b \in Members(rows) :
           /\ x = <<b.sequence, b.rule>>
           /\ \E c \in Members(rows) : c # b /\ c.rule = b.rule /\ c.tag = b.tag
    BY DEF Duplicated
  <2>2. PICK c \in Members(rows) : c # b /\ c.rule = b.rule /\ c.tag = b.tag
    BY <2>1
  <2>3. PICK p \in 1..k : rows[p] = b
    BY <1>k DEF Members
  <2>4. PICK q \in 1..k : rows[q] = c
    BY <1>k DEF Members
  <2>5. p # q /\ SameKey(rows[q], rows[p])
    BY <2>2, <2>3, <2>4 DEF SameKey
  <2>. QED BY <1>8, <2>1, <2>3, <2>5
<1>. QED BY <1>9, <1>10

-----------------------------------------------------------------------------
(* Cutting the tags into runs *)

\* One more row is one more member, and repeats none if it is new.
LEMMA MembersOfMore ==
    ASSUME NEW S, NEW s \in Seq(S), NEW x \in S
    PROVE  /\ Append(s, x) \in Seq(S)
           /\ Members(Append(s, x)) = Members(s) \cup {x}
           /\ Distinct(s) /\ x \notin Members(s) => Distinct(Append(s, x))
<1>k. PICK k, t : k = Len(s) /\ t = Append(s, x)
  OBVIOUS
<1>1. /\ k \in Nat /\ t \in Seq(S) /\ Len(t) = k + 1 /\ t[k + 1] = x
      /\ \A i \in 1..k : t[i] = s[i]
  BY <1>k
<1>2. \A i \in 1..(k + 1) : i \in 1..k \/ i = k + 1
  BY <1>1
<1>3. \A i \in 1..k : i \in 1..(k + 1)
  BY <1>1
<1>4. k + 1 \in 1..(k + 1)
  BY <1>1
<1>5. Members(t) = {t[i] : i \in 1..(k + 1)} /\ Members(s) = {s[i] : i \in 1..k}
  BY <1>1, <1>k DEF Members
<1>6. Members(t) = Members(s) \cup {x}
  BY <1>1, <1>2, <1>3, <1>4, <1>5
<1>7. ASSUME Distinct(s), x \notin Members(s) PROVE Distinct(t)
  <2>1. \A i, j \in 1..k : s[i] = s[j] => i = j
    BY <1>7, <1>k DEF Distinct
  <2>2. \A i \in 1..k : s[i] # x
    BY <1>5, <1>7
  <2>3. \A i, j \in 1..(k + 1) : t[i] = t[j] => i = j
    BY <1>1, <1>2, <2>1, <2>2
  <2>. QED BY <1>1, <2>3 DEF Distinct
<1>. QED BY <1>1, <1>6, <1>7, <1>k

\* Runs that split a set of tags between them.
Cuts(runs, T) ==
    /\ runs \in Seq(Seq(TagRows))
    /\ \A i \in 1..Len(runs) : Distinct(runs[i])
    /\ \A i, j \in 1..Len(runs) : i # j => Members(runs[i]) \cap Members(runs[j]) = {}
    /\ T = UNION {Members(runs[i]) : i \in 1..Len(runs)}

CutNext(runs, row) ==
    IF \/ runs = <<>>
       \/ Size(runs[Len(runs)]) + row.size > budget
    THEN Append(runs, <<row>>)
    ELSE [runs EXCEPT ![Len(runs)] = Append(@, row)]

\* The next row extends the last run or begins one: the runs still split the rows read.
LEMMA CutStep ==
    ASSUME NEW runs, NEW T, Cuts(runs, T), NEW row \in TagRows, row \notin T
    PROVE  Cuts(CutNext(runs, row), T \cup {row})
<1>n. PICK n, next : n = Len(runs) /\ next = CutNext(runs, row)
  OBVIOUS
<1>0. runs \in Seq(Seq(TagRows)) /\ n \in Nat /\ \A i \in 1..n : runs[i] \in Seq(TagRows)
  <2>1. PICK S : S = Seq(TagRows)
    OBVIOUS
  <2>2. runs \in Seq(S)
    BY <2>1 DEF Cuts
  <2>. QED BY <1>n, <2>1, <2>2
<1>1. /\ runs \in Seq(Seq(TagRows)) /\ n \in Nat
      /\ \A i \in 1..n : runs[i] \in Seq(TagRows) /\ Distinct(runs[i])
      /\ \A i, j \in 1..n : i # j => Members(runs[i]) \cap Members(runs[j]) = {}
      /\ T = UNION {Members(runs[i]) : i \in 1..n}
  BY <1>0, <1>n DEF Cuts
<1>2. CASE next = Append(runs, <<row>>)
  <2>1. PICK one : one = <<row>>
    OBVIOUS
  <2>2. one \in Seq(TagRows) /\ Len(one) = 1 /\ one[1] = row
    BY <2>1
  <2>3. Members(one) = {row} /\ Distinct(one)
    <3>1. \A i \in 1..1 : i = 1
      OBVIOUS
    <3>2. 1 \in 1..1
      OBVIOUS
    <3>. QED BY <2>2, <3>1, <3>2 DEF Members, Distinct
  <2>4. /\ next \in Seq(Seq(TagRows)) /\ Len(next) = n + 1 /\ next[n + 1] = one
        /\ \A i \in 1..n : next[i] = runs[i]
    BY <1>1, <1>2, <1>n, <2>1, <2>2
  <2>5. \A i \in 1..(n + 1) : i \in 1..n \/ i = n + 1
    BY <1>1
  <2>6. \A i \in 1..n : Members(runs[i]) \subseteq T
    BY <1>1
  <2>7. \A i \in 1..(n + 1) : Distinct(next[i])
    BY <1>1, <2>3, <2>4, <2>5
  <2>8. \A i, j \in 1..(n + 1) : i # j => Members(next[i]) \cap Members(next[j]) = {}
    <3> SUFFICES ASSUME NEW i \in 1..(n + 1), NEW j \in 1..(n + 1), i # j
                 PROVE  Members(next[i]) \cap Members(next[j]) = {}
      OBVIOUS
    <3>1. CASE i \in 1..n /\ j \in 1..n
      BY <1>1, <2>4, <3>1
    <3>2. CASE i \in 1..n /\ j = n + 1
      <4>1. Members(next[i]) \subseteq T /\ Members(next[j]) = {row}
        BY <2>3, <2>4, <2>6, <3>2
      <4>. QED BY <4>1
    <3>3. CASE i = n + 1 /\ j \in 1..n
      <4>1. Members(next[j]) \subseteq T /\ Members(next[i]) = {row}
        BY <2>3, <2>4, <2>6, <3>3
      <4>. QED BY <4>1
    <3>. QED BY <2>5, <3>1, <3>2, <3>3
  <2>9. T \cup {row} = UNION {Members(next[i]) : i \in 1..(n + 1)}
    <3>1. \A i \in 1..n : i \in 1..(n + 1) /\ Members(next[i]) = Members(runs[i])
      BY <1>1, <2>4
    <3>2. n + 1 \in 1..(n + 1) /\ Members(next[n + 1]) = {row}
      BY <1>1, <2>3, <2>4
    <3>3. \A x \in T \cup {row} : \E i \in 1..(n + 1) : x \in Members(next[i])
      BY <1>1, <3>1, <3>2
    <3>4. \A i \in 1..(n + 1) : Members(next[i]) \subseteq T \cup {row}
      BY <2>5, <2>6, <3>1, <3>2
    <3>. QED BY <3>3, <3>4
  <2>10. Cuts(next, T \cup {row})
    BY <2>4, <2>7, <2>8, <2>9 DEF Cuts
  <2>. QED BY <1>n, <2>10
<1>3. CASE next # Append(runs, <<row>>)
  <2>1. runs # <<>> /\ next = [runs EXCEPT ![n] = Append(@, row)]
    BY <1>3, <1>n DEF CutNext
  <2>2. n \in 1..n
    BY <1>1, <1>n, <2>1
  <2>3. PICK so, more : so = runs[n] /\ more = Append(runs[n], row)
    OBVIOUS
  <2>4. so \in Seq(TagRows) /\ Distinct(so) /\ more = Append(so, row)
    BY <1>1, <2>2, <2>3
  <2>5. row \notin Members(so)
    BY <1>1, <2>2, <2>3
  <2>6. more \in Seq(TagRows) /\ Distinct(more) /\ Members(more) = Members(so) \cup {row}
    BY <2>4, <2>5, MembersOfMore
  <2>7. next \in Seq(Seq(TagRows)) /\ Len(next) = n
    <3>1. next = [runs EXCEPT ![n] = more]
      BY <2>1, <2>3
    <3>. QED BY <1>1, <1>n, <2>2, <2>6, <3>1
  <2>8. next[n] = more /\ \A i \in 1..n : i # n => next[i] = runs[i]
    BY <1>1, <1>n, <2>1, <2>2, <2>3
  <2>9. \A i \in 1..n : Distinct(next[i])
    BY <1>1, <2>6, <2>8
  <2>10. \A i \in 1..n : Members(next[i]) \subseteq Members(runs[i]) \cup {row}
    BY <2>3, <2>6, <2>8
  <2>11. \A i \in 1..n : i # n => row \notin Members(next[i])
    BY <1>1, <2>8
  <2>12. \A i, j \in 1..n : i # j => Members(next[i]) \cap Members(next[j]) = {}
    BY <1>1, <2>10, <2>11
  <2>13. T \cup {row} = UNION {Members(next[i]) : i \in 1..n}
    <3>1. \A i \in 1..n : Members(runs[i]) \subseteq Members(next[i])
      BY <2>3, <2>6, <2>8
    <3>2. row \in Members(next[n])
      BY <2>6, <2>8
    <3>3. \A x \in T \cup {row} : \E i \in 1..n : x \in Members(next[i])
      BY <1>1, <2>2, <3>1, <3>2
    <3>4. \A i \in 1..n : Members(next[i]) \subseteq T \cup {row}
      BY <1>1, <2>10
    <3>. QED BY <3>3, <3>4
  <2>14. Cuts(next, T \cup {row})
    BY <2>7, <2>9, <2>12, <2>13 DEF Cuts
  <2>. QED BY <1>n, <2>14
<1>. QED BY <1>2, <1>3

CutLoop(g, rows) ==
    g = [n \in 0..Len(rows) |-> IF n = 0 THEN <<>> ELSE CutNext(g[n - 1], rows[n])]

IsCut(g, rows, k) ==
    /\ DOMAIN g = 0..k
    /\ g[0] = <<>>
    /\ \A n \in 1..k : g[n] = CutNext(g[n - 1], rows[n])

\* Cutting leaves sequences of tag rows.
LEMMA CutNextType ==
    ASSUME NEW runs \in Seq(Seq(TagRows)), NEW row \in TagRows
    PROVE  CutNext(runs, row) \in Seq(Seq(TagRows))
<1>1. PICK n : n = Len(runs)
  OBVIOUS
<1>2. CASE CutNext(runs, row) = Append(runs, <<row>>)
  <2>1. <<row>> \in Seq(TagRows)
    OBVIOUS
  <2>. QED BY <1>2, <2>1
<1>3. CASE CutNext(runs, row) # Append(runs, <<row>>)
  <2>1. runs # <<>> /\ CutNext(runs, row) = [runs EXCEPT ![n] = Append(@, row)]
    BY <1>1, <1>3 DEF CutNext
  <2>2. n \in 1..n /\ n \in Nat
    BY <1>1, <2>1
  <2>3. PICK more : more = Append(runs[n], row)
    OBVIOUS
  <2>4. runs[n] \in Seq(TagRows)
    BY <1>1, <2>2
  <2>5. more \in Seq(TagRows)
    BY <2>3, <2>4
  <2>6. CutNext(runs, row) = [runs EXCEPT ![n] = more]
    BY <2>1, <2>3
  <2>. QED BY <1>1, <2>2, <2>5, <2>6
<1>. QED BY <1>2, <1>3

\* The cutting of a scope has a table of its runs after each row.
LEMMA CutExists ==
    ASSUME NEW rows, NEW k \in Nat, \A n \in 1..k : rows[n] \in TagRows
    PROVE  \E g : IsCut(g, rows, k)
<1> DEFINE F == [n \in 1..k |-> [so \in Seq(Seq(TagRows)) |-> CutNext(so, rows[n])]]
<1>1. F \in [1..k -> [Seq(Seq(TagRows)) -> Seq(Seq(TagRows))]]
  BY CutNextType
<1>2. PICK N, z, G : N = Seq(Seq(TagRows)) /\ z = <<>> /\ G = F
  OBVIOUS
<1>3. G \in [1..k -> [N -> N]] /\ z \in N
  BY <1>1, <1>2
<1>g. PICK g : IsLoop(g, N, z, k, G)
  BY <1>3, LoopExists
<1>4. g \in [0..k -> N] /\ g[0] = z /\ \A i \in 1..k : g[i] = G[i][g[i - 1]]
  BY <1>g DEF IsLoop
<1>5. ASSUME NEW n \in 1..k PROVE g[n] = CutNext(g[n - 1], rows[n])
  <2>1. G[n] = [so \in Seq(Seq(TagRows)) |-> CutNext(so, rows[n])]
    BY <1>2
  <2>2. n - 1 \in 0..k
    OBVIOUS
  <2>3. g[n - 1] \in Seq(Seq(TagRows))
    BY <1>2, <1>4, <2>2
  <2> HIDE DEF F
  <2>. QED BY <1>4, <2>1, <2>3
<1>6. IsCut(g, rows, k)
  BY <1>2, <1>4, <1>5 DEF IsCut
<1>. QED BY <1>6

\* The runs split the rows between them, whatever the budget.
LEMMA RunsCut ==
    ASSUME NEW rows \in Seq(TagRows), Distinct(rows)
    PROVE  Cuts(Runs(rows), Members(rows))
<1> DEFINE k == Len(rows)
           cut == CHOOSE g : CutLoop(g, rows)
<1>1. k \in Nat /\ \A n \in 1..k : rows[n] \in TagRows
  OBVIOUS
<1>2. Runs(rows) = cut[k]
  BY DEF Runs, CutLoop, CutNext
<1>3. \E g : CutLoop(g, rows)
  <2>1. PICK g : IsCut(g, rows, k)
    <3> HIDE DEF k, cut
    <3>. QED BY <1>1, CutExists
  <2>2. DOMAIN g = 0..k /\ g[0] = <<>> /\ \A n \in 1..k : g[n] = CutNext(g[n - 1], rows[n])
    BY <2>1 DEF IsCut
  <2> DEFINE Step(n) == IF n = 0 THEN <<>> ELSE CutNext(g[n - 1], rows[n])
             h == [n \in 0..k |-> Step(n)]
  <2>3. \A n \in 0..k : g[n] = Step(n)
    BY <1>1, <2>2
  <2>4. \A n \in 0..k : h[n] = Step(n)
    OBVIOUS
  <2>5. \A n \in 0..k : h[n] = g[n]
    <3> HIDE DEF h, Step
    <3>. QED BY <2>3, <2>4
  <2>6. \A n \in 1..k : n - 1 \in 0..k
    BY <1>1
  <2> HIDE DEF h
  <2>7. h = [n \in 0..k |-> IF n = 0 THEN <<>> ELSE CutNext(h[n - 1], rows[n])]
    <3> DEFINE Next2(n) == IF n = 0 THEN <<>> ELSE CutNext(h[n - 1], rows[n])
    <3>1. \A n \in 0..k : Step(n) = Next2(n)
      <4>1. \A n \in 0..k : n # 0 => n \in 1..k
        BY <1>1
      <4>2. \A n \in 0..k : n # 0 => h[n - 1] = g[n - 1]
        BY <2>5, <2>6, <4>1
      <4>. QED BY <4>2
    <3>2. h = [n \in 0..k |-> Step(n)]
      BY DEF h
    <3>3. h = [n \in 0..k |-> Next2(n)]
      <4> HIDE DEF Step, Next2
      <4>. QED BY <3>1, <3>2
    <3>. QED BY <3>3
  <2>8. CutLoop(h, rows)
    BY <2>7 DEF CutLoop
  <2>. QED BY <2>8
<1>4. CutLoop(cut, rows)
  BY <1>3
<1> HIDE DEF cut
<1>5. cut[0] = <<>> /\ \A n \in 1..k : cut[n] = CutNext(cut[n - 1], rows[n])
  BY <1>1, <1>4 DEF CutLoop
<1> DEFINE Seen(n) == {rows[m] : m \in 1..n}
           T == {n \in 0..k : Cuts(cut[n], Seen(n))}
<1>6. 0 \in T
  <2>1. Seen(0) = {}
    OBVIOUS
  <2>2. <<>> \in Seq(Seq(TagRows)) /\ Len(<<>>) = 0
    OBVIOUS
  <2>3. 1..0 = {}
    OBVIOUS
  <2>4. Cuts(<<>>, {})
    BY <2>2, <2>3 DEF Cuts
  <2>5. Cuts(cut[0], Seen(0))
    <3> HIDE DEF Seen
    <3>. QED BY <1>5, <2>1, <2>4
  <2>. QED BY <1>1, <2>5
<1>7. ASSUME NEW n \in 1..k, n - 1 \in T PROVE n \in T
  <2>1. PICK so, M, row : so = cut[n - 1] /\ M = Seen(n - 1) /\ row = rows[n]
    OBVIOUS
  <2>2. Cuts(so, M) /\ row \in TagRows
    <3> HIDE DEF Seen
    <3>. QED BY <1>1, <1>7, <2>1
  <2>3. row \notin M
    <3>1. \A m \in 1..(n - 1) : m \in 1..k /\ m # n
      BY <1>1
    <3>2. \A m \in 1..(n - 1) : rows[m] # rows[n]
      BY <3>1 DEF Distinct
    <3>. QED BY <2>1, <3>2
  <2>4. Cuts(CutNext(so, row), M \cup {row})
    BY <2>2, <2>3, CutStep
  <2>5. Seen(n) = M \cup {row}
    <3>1. \A m \in 1..n : m \in 1..(n - 1) \/ m = n
      OBVIOUS
    <3>2. n \in 1..n /\ \A m \in 1..(n - 1) : m \in 1..n
      OBVIOUS
    <3>. QED BY <2>1, <3>1, <3>2
  <2>6. cut[n] = CutNext(so, row) /\ n \in 0..k
    BY <1>1, <1>5, <2>1
  <2> HIDE DEF Seen
  <2>. QED BY <2>4, <2>5, <2>6
<1>8. \A n \in 0..k : n \in T
  <2> HIDE DEF T, k
  <2>. QED BY <1>1, <1>6, <1>7, UpToInduction
<1>9. Cuts(cut[k], Seen(k)) /\ Seen(k) = Members(rows)
  <2>1. k \in 0..k
    BY <1>1
  <2>. QED BY <1>8, <2>1 DEF Members
<1>. QED BY <1>2, <1>9

-----------------------------------------------------------------------------
(* The sorted runs, one after the other *)

\* Runs in ascending order that split a set of tags between them.
SortedCuts(runs, T) ==
    /\ runs \in Seq(Seq(TagRows))
    /\ \A i \in 1..Len(runs) : Ascending(runs[i])
    /\ \A i, j \in 1..Len(runs) : i # j => Members(runs[i]) \cap Members(runs[j]) = {}
    /\ T = UNION {Members(runs[i]) : i \in 1..Len(runs)}

\* Sorting each run leaves runs in order that split the same rows.
LEMMA SortedRunsCut ==
    ASSUME NEW runs, NEW T, Cuts(runs, T)
    PROVE  SortedCuts(SortedRuns(runs), T)
<1>n. PICK n, next : n = Len(runs) /\ next = SortedRuns(runs)
  OBVIOUS
<1>0. runs \in Seq(Seq(TagRows)) /\ n \in Nat /\ \A i \in 1..n : runs[i] \in Seq(TagRows)
  <2>1. PICK S : S = Seq(TagRows)
    OBVIOUS
  <2>2. runs \in Seq(S)
    BY <2>1 DEF Cuts
  <2>. QED BY <1>n, <2>1, <2>2
<1>1. /\ \A i \in 1..n : Distinct(runs[i])
      /\ \A i, j \in 1..n : i # j => Members(runs[i]) \cap Members(runs[j]) = {}
      /\ T = UNION {Members(runs[i]) : i \in 1..n}
  BY <1>n DEF Cuts
<1>2. DOMAIN runs = 1..n
  BY <1>0, <1>n
<1>3. \A i \in 1..n : /\ Sorted(runs[i]) \in Seq(TagRows)
                      /\ Members(Sorted(runs[i])) = Members(runs[i])
                      /\ Ascending(Sorted(runs[i]))
  BY <1>0, <1>1, SortedAscends
<1>4. next = [i \in 1..n |-> Sorted(runs[i])]
  BY <1>2, <1>n DEF SortedRuns
<1>5. \A i \in 1..n : next[i] = Sorted(runs[i])
  BY <1>4
<1>6. next \in Seq(Seq(TagRows)) /\ Len(next) = n
  <2>1. PICK S : S = Seq(TagRows)
    OBVIOUS
  <2>2. next \in [1..n -> S]
    BY <1>3, <1>4, <2>1
  <2>3. next \in Seq(S) /\ Len(next) = n
    BY <1>0, <2>2
  <2>. QED BY <2>1, <2>3
<1>7. /\ \A i \in 1..n : Ascending(next[i])
      /\ \A i \in 1..n : Members(next[i]) = Members(runs[i])
  BY <1>3, <1>5
<1>8. \A i, j \in 1..n : i # j => Members(next[i]) \cap Members(next[j]) = {}
  BY <1>1, <1>7
<1>9. T = UNION {Members(next[i]) : i \in 1..n}
  BY <1>1, <1>7
<1>10. SortedCuts(next, T)
  BY <1>6, <1>7, <1>8, <1>9 DEF SortedCuts
<1>. QED BY <1>n, <1>10

\* f[i] are the rows of the first i runs.
IsFlat(f, runs) ==
    /\ DOMAIN f = 0..Len(runs)
    /\ f[0] = <<>>
    /\ \A i \in 1..Len(runs) : f[i] = f[i - 1] \o runs[i]

FlatLoop(f, runs) == f = [i \in 0..Len(runs) |-> IF i = 0 THEN <<>> ELSE f[i - 1] \o runs[i]]

WrittenRuns(w, id, runs, f) ==
    [CloseScope(WriteRows(w, w.owner, id, 0, f[Len(runs)]), w.owner, id) EXCEPT
       !.work = @ \cup {id},
       !.runs = [i \in DOMAIN runs |-> <<id, Len(f[i - 1]), Len(f[i]) - 1>>]]

IsFlatUpTo(f, runs, n) ==
    /\ DOMAIN f = 0..n
    /\ f[0] = <<>>
    /\ \A i \in 1..n : f[i] = f[i - 1] \o runs[i]

\* Runs written one after the other have a table of what is written before each.
LEMMA FlatExists ==
    ASSUME NEW runs, NEW n \in Nat, NEW S, NEW R \in [1..n -> Seq(S)],
           \A i \in 1..n : R[i] = runs[i]
    PROVE  \E f : IsFlatUpTo(f, runs, n)
<1> DEFINE F == [i \in 1..n |-> [s \in Seq(S) |-> s \o R[i]]]
<1>1. F \in [1..n -> [Seq(S) -> Seq(S)]]
  <2>1. \A i \in 1..n : R[i] \in Seq(S)
    OBVIOUS
  <2>2. \A i \in 1..n : \A s \in Seq(S) : s \o R[i] \in Seq(S)
    BY <2>1, ConcatProperties
  <2>. QED BY <2>2
<1>2. PICK N, z, G : N = Seq(S) /\ z = <<>> /\ G = F
  OBVIOUS
<1>3. G \in [1..n -> [N -> N]] /\ z \in N
  BY <1>1, <1>2
<1>g. PICK g : IsLoop(g, N, z, n, G)
  BY <1>3, LoopExists
<1>4. g \in [0..n -> N] /\ g[0] = z /\ \A i \in 1..n : g[i] = G[i][g[i - 1]]
  BY <1>g DEF IsLoop
<1>5. ASSUME NEW i \in 1..n PROVE g[i] = g[i - 1] \o runs[i]
  <2>1. G[i] = [s \in Seq(S) |-> s \o R[i]]
    BY <1>2
  <2>2. i - 1 \in 0..n
    OBVIOUS
  <2>3. g[i - 1] \in Seq(S)
    BY <1>2, <1>4, <2>2
  <2>4. PICK x, y, h : x = g[i - 1] /\ y = R[i] /\ h = G[i]
    OBVIOUS
  <2>5. h = [s \in Seq(S) |-> s \o y]
    BY <2>1, <2>4
  <2>6. h[x] = x \o y
    BY <2>3, <2>4, <2>5
  <2>7. g[i] = h[x] /\ y = runs[i]
    BY <1>4, <2>4
  <2>. QED BY <2>4, <2>6, <2>7
<1>6. IsFlatUpTo(g, runs, n)
  BY <1>2, <1>4, <1>5 DEF IsFlatUpTo
<1>. QED BY <1>6

\* Each run of a sequence of runs is a sequence of tag rows.
LEMMA RunsInside ==
    ASSUME NEW runs \in Seq(Seq(TagRows)), NEW n, n = Len(runs)
    PROVE  n \in Nat /\ DOMAIN runs = 1..n /\ \A i \in 1..n : runs[i] \in Seq(TagRows)
<1>1. PICK S : S = Seq(TagRows)
  OBVIOUS
<1>2. runs \in Seq(S)
  BY <1>1
<1>. QED BY <1>1, <1>2

\* What writing the runs one after the other does.
LEMMA RunsAreWritten ==
    ASSUME NEW w, NEW id, NEW runs \in Seq(Seq(TagRows))
    PROVE  \E f : IsFlat(f, runs) /\ WriteRuns(w, id, runs) = WrittenRuns(w, id, runs, f)
<1> DEFINE n == Len(runs)
           flat == CHOOSE f : FlatLoop(f, runs)
<1>1. n \in Nat /\ \A i \in 1..n : runs[i] \in Seq(TagRows)
  BY RunsInside
<1>2. WriteRuns(w, id, runs) = WrittenRuns(w, id, runs, flat)
  BY DEF WriteRuns, WrittenRuns, FlatLoop
<1>3. \E f : FlatLoop(f, runs)
  <2>1. PICK g : IsFlatUpTo(g, runs, n)
    <3>1. PICK R : R = [i \in 1..n |-> runs[i]]
      OBVIOUS
    <3>2. R \in [1..n -> Seq(TagRows)] /\ \A i \in 1..n : R[i] = runs[i]
      BY <1>1, <3>1
    <3> HIDE DEF n, flat
    <3>. QED BY <1>1, <3>2, FlatExists
  <2>2. DOMAIN g = 0..n /\ g[0] = <<>> /\ \A i \in 1..n : g[i] = g[i - 1] \o runs[i]
    BY <2>1 DEF IsFlatUpTo
  <2> DEFINE h == [i \in 0..n |-> g[i]]
             Step(f, i) == IF i = 0 THEN <<>> ELSE f[i - 1] \o runs[i]
  <2>3. \A i \in 0..n : h[i] = g[i]
    OBVIOUS
  <2>4. \A i \in 0..n : g[i] = Step(g, i)
    BY <1>1, <2>2
  <2>5. h = [i \in 0..n |-> h[i]]
    OBVIOUS
  <2> HIDE DEF h
  <2>6. \A i \in 0..n : i # 0 => i - 1 \in 0..n
    BY <1>1
  <2>7. \A i \in 0..n : Step(g, i) = Step(h, i)
    BY <2>3, <2>6
  <2>8. h = [i \in 0..n |-> Step(h, i)]
    <3> HIDE DEF Step
    <3>. QED BY <2>3, <2>4, <2>5, <2>7
  <2>9. FlatLoop(h, runs)
    BY <2>8 DEF FlatLoop
  <2>. QED BY <2>9
<1>4. FlatLoop(flat, runs)
  BY <1>3
<1> HIDE DEF flat
<1>5. IsFlat(flat, runs)
  <2> DEFINE Step(i) == IF i = 0 THEN <<>> ELSE flat[i - 1] \o runs[i]
  <2>1. flat = [i \in 0..n |-> Step(i)]
    BY <1>4 DEF FlatLoop
  <2>2. DOMAIN flat = 0..n /\ \A i \in 0..n : flat[i] = Step(i)
    <3> HIDE DEF Step
    <3>. QED BY <2>1
  <2>3. 0 \in 0..n /\ \A i \in 1..n : i \in 0..n /\ i # 0
    BY <1>1
  <2>4. flat[0] = <<>>
    BY <2>2, <2>3
  <2>5. \A i \in 1..n : flat[i] = flat[i - 1] \o runs[i]
    BY <2>2, <2>3
  <2>. QED BY <2>2, <2>4, <2>5 DEF IsFlat
<1>. QED BY <1>2, <1>5

Begins(s, t) == Len(s) <= Len(t) /\ \A m \in 1..Len(s) : t[m] = s[m]

\* Every run is a stretch of what is written.
LEMMA RunsAreStretches ==
    ASSUME NEW runs \in Seq(Seq(TagRows)), NEW f, IsFlat(f, runs), NEW n, n = Len(runs)
    PROVE  /\ \A i \in 0..n : f[i] \in Seq(TagRows)
           /\ \A i \in 1..n : /\ Len(f[i - 1]) \in Nat /\ Len(f[i]) \in Nat
                              /\ SubSeq(f[n], Len(f[i - 1]) + 1, Len(f[i]) - 1 + 1) = runs[i]
<1>1. n \in Nat /\ \A i \in 1..n : runs[i] \in Seq(TagRows)
  BY RunsInside
<1>2. f[0] = <<>> /\ \A i \in 1..n : f[i] = f[i - 1] \o runs[i]
  BY DEF IsFlat
<1> DEFINE T == {i \in 0..n : f[i] \in Seq(TagRows)}
<1>3. \A i \in 0..n : f[i] \in Seq(TagRows)
  <2>1. 0 \in T
    <3>1. f[0] = <<>>
      BY <1>2
    <3>2. f[0] \in Seq(TagRows)
      BY <3>1
    <3>. QED BY <1>1, <3>2
  <2>2. ASSUME NEW i \in 1..n, i - 1 \in T PROVE i \in T
    <3>1. f[i - 1] \in Seq(TagRows) /\ runs[i] \in Seq(TagRows) /\ i \in 0..n
      BY <1>1, <2>2
    <3>2. f[i - 1] \o runs[i] \in Seq(TagRows)
      BY <3>1, ConcatProperties
    <3>. QED BY <1>2, <3>1, <3>2
  <2>3. \A i \in 0..n : i \in T
    <3> HIDE DEF T
    <3>. QED BY <1>1, <2>1, <2>2, UpToInduction
  <2>. QED BY <2>3
<1>4. \A i \in 1..n : i \in 0..n /\ i - 1 \in 0..n
  BY <1>1
<1>5. ASSUME NEW i \in 1..n
      PROVE  /\ Len(f[i]) = Len(f[i - 1]) + Len(runs[i])
             /\ Begins(f[i - 1], f[i])
             /\ \A m \in 1..Len(runs[i]) : f[i][Len(f[i - 1]) + m] = runs[i][m]
  <2>1. PICK a, b, c : a = f[i - 1] /\ b = runs[i] /\ c = f[i]
    OBVIOUS
  <2>2. a \in Seq(TagRows) /\ b \in Seq(TagRows) /\ c = a \o b
    BY <1>1, <1>2, <1>3, <1>4, <2>1
  <2>3. /\ Len(c) = Len(a) + Len(b) /\ Len(a) \in Nat /\ Len(b) \in Nat
        /\ \A m \in 1..(Len(a) + Len(b)) :
             c[m] = IF m <= Len(a) THEN a[m] ELSE b[m - Len(a)]
    BY <2>2, ConcatProperties
  <2>4. Begins(a, c)
    <3>1. \A m \in 1..Len(a) : m \in 1..(Len(a) + Len(b)) /\ m <= Len(a)
      BY <2>3
    <3>2. Len(a) <= Len(c)
      BY <2>3
    <3>. QED BY <2>3, <3>1, <3>2 DEF Begins
  <2>5. ASSUME NEW m \in 1..Len(b) PROVE c[Len(a) + m] = b[m]
    <3>1. PICK q : q = Len(a) + m
      OBVIOUS
    <3>2. q \in 1..(Len(a) + Len(b)) /\ ~(q <= Len(a)) /\ q - Len(a) = m
      BY <2>3, <3>1
    <3>. QED BY <2>3, <3>1, <3>2
  <2>. QED BY <2>1, <2>3, <2>4, <2>5
<1>6. ASSUME NEW i \in 1..n PROVE Begins(f[i], f[n])
  <2> DEFINE U == {q \in 0..n : i <= q => Begins(f[i], f[q])}
  <2>0. i \in Int /\ \A q \in 0..n : q \in Int /\ Len(f[q]) \in Nat
    BY <1>3
  <2>1. 0 \in U
    BY <1>1
  <2>2. ASSUME NEW q \in 1..n, q - 1 \in U PROVE q \in U
    <3>1. q \in 0..n /\ q - 1 \in 0..n
      BY <1>4
    <3>2. CASE i <= q - 1
      <4>1. PICK a, b, c : a = f[i] /\ b = f[q - 1] /\ c = f[q]
        OBVIOUS
      <4>2. Begins(a, b) /\ Begins(b, c) /\ Len(a) \in Nat /\ Len(b) \in Nat /\ Len(c) \in Nat
        BY <1>4, <1>5, <2>0, <2>2, <3>1, <3>2, <4>1
      <4>3. \A m \in 1..Len(a) : m \in 1..Len(b)
        BY <4>2 DEF Begins
      <4>4. Begins(a, c)
        BY <4>2, <4>3 DEF Begins
      <4>. QED BY <3>1, <4>1, <4>4
    <3>3. CASE i = q
      <4>1. Begins(f[i], f[i])
        BY <1>4, <2>0 DEF Begins
      <4>. QED BY <3>1, <3>3, <4>1
    <3>4. CASE ~(i <= q)
      BY <3>1, <3>4
    <3>5. i <= q - 1 \/ i = q \/ ~(i <= q)
      BY <2>0, <3>1
    <3>. QED BY <3>2, <3>3, <3>4, <3>5
  <2>3. \A q \in 0..n : q \in U
    <3> HIDE DEF U
    <3>. QED BY <1>1, <2>1, <2>2, UpToInduction
  <2>4. n \in 0..n /\ i <= n
    BY <1>1
  <2>. QED BY <2>3, <2>4
<1>7. ASSUME NEW i \in 1..n
      PROVE  SubSeq(f[n], Len(f[i - 1]) + 1, Len(f[i]) - 1 + 1) = runs[i]
  <2>1. PICK a, b, c, d : a = Len(f[i - 1]) /\ b = runs[i] /\ c = f[i] /\ d = f[n]
    OBVIOUS
  <2>2. /\ a \in Nat /\ b \in Seq(TagRows) /\ c \in Seq(TagRows) /\ d \in Seq(TagRows)
        /\ Len(b) \in Nat /\ Len(c) \in Nat /\ Len(d) \in Nat
        /\ Len(c) = a + Len(b) /\ Begins(c, d)
        /\ \A m \in 1..Len(b) : c[a + m] = b[m]
    <3>1. n \in 0..n
      BY <1>1
    <3>2. a \in Nat /\ b \in Seq(TagRows) /\ c \in Seq(TagRows) /\ d \in Seq(TagRows)
      BY <1>1, <1>3, <1>4, <2>1, <3>1
    <3>3. /\ Len(c) = a + Len(b) /\ Begins(c, d)
          /\ \A m \in 1..Len(b) : c[a + m] = b[m]
      BY <1>5, <1>6, <2>1
    <3>. QED BY <3>2, <3>3
  <2>3. PICK from, to, s : from = a + 1 /\ to = Len(c) - 1 + 1 /\ s = SubSeq(d, from, to)
    OBVIOUS
  <2>4. /\ from \in Int /\ to \in Int /\ to - from + 1 = Len(b)
        /\ \A m \in from..to : m \in 1..Len(d)
    BY <2>2, <2>3 DEF Begins
  <2>5. \A m \in from..to : d[m] \in TagRows
    BY <2>2, <2>4
  <2>6. /\ s \in Seq(TagRows)
        /\ Len(s) = IF from <= to THEN to - from + 1 ELSE 0
        /\ \A m \in 1..(to - from + 1) : s[m] = d[from + m - 1]
    <3>1. s = SubSeq(d, from, to)
      BY <2>3
    <3>2. from \in Int /\ to \in Int
      BY <2>4
    <3>. QED BY <2>5, <3>1, <3>2, SubSeqProperties
  <2>7. Len(s) = Len(b)
    BY <2>2, <2>4, <2>6
  <2>8. ASSUME NEW m \in 1..Len(s) PROVE s[m] = b[m]
    <3>1. m \in 1..Len(b) /\ from + m - 1 = a + m /\ a + m \in 1..Len(c)
      <4>1. PICK p, q : p = Len(b) /\ q = Len(c)
        OBVIOUS
      <4>2. a \in Nat /\ p \in Nat /\ q = a + p /\ from = a + 1
        BY <2>2, <2>3, <4>1
      <4>3. m \in 1..p
        BY <2>7, <4>1
      <4>4. m \in 1..p /\ from + m - 1 = a + m /\ a + m \in 1..q
        BY <4>2, <4>3
      <4>. QED BY <4>1, <4>4
    <3>2. s[m] = d[a + m] /\ d[a + m] = c[a + m]
      BY <2>2, <2>4, <2>6, <3>1 DEF Begins
    <3>. QED BY <2>2, <3>1, <3>2
  <2>9. s = b
    BY <2>2, <2>6, <2>7, <2>8, SeqEqual
  <2>. QED BY <2>1, <2>3, <2>9
<1>8. \A i \in 1..n : Len(f[i - 1]) \in Nat /\ Len(f[i]) \in Nat
  BY <1>3, <1>4
<1>. QED BY <1>3, <1>7, <1>8

-----------------------------------------------------------------------------
(* The scratch store *)

\* The scopes of a store, one by one.
LEMMA DiskParts ==
    ASSUME NEW d \in Disks
    PROVE  /\ DOMAIN d \in SUBSET Ids
           /\ d = [x \in DOMAIN d |-> d[x]]
           /\ \A x \in DOMAIN d : d[x] \in Scope
<1>1. PICK D \in SUBSET Ids : d \in [D -> Scope]
  BY DEF Disks
<1>2. DOMAIN d = D /\ d = [x \in D |-> d[x]] /\ \A x \in D : d[x] \in Scope
  BY <1>1
<1>. QED BY <1>2

\* A function from ids to scopes is a store.
LEMMA DiskFrom ==
    ASSUME NEW D \in SUBSET Ids, NEW d \in [D -> Scope]
    PROVE  d \in Disks
BY DEF Disks

\* The rows of a scope have sizes.
LEMMA RowsAreSized ==
    ASSUME NEW rows \in Seq(Rows)
    PROVE  IsSized(rows) /\ Size(rows) \in Nat
<1>1. \A row \in TagRows : row.size \in Nat
  BY TagRowFields
<1>2. \A row \in UnitRows : row.size \in Nat
  BY ValidationParameters DEF UnitRows
<1>3. \A i \in 1..Len(rows) : rows[i] \in Rows
  OBVIOUS
<1>4. IsSized(rows)
  BY <1>1, <1>2, <1>3 DEF IsSized, Rows
<1>. QED BY <1>4, SizeType

\* Tag rows, and unit rows, are rows of a scope.
LEMMA RowsOf ==
    ASSUME NEW rows, rows \in Seq(TagRows) \/ rows \in Seq(UnitRows)
    PROVE  rows \in Seq(Rows) /\ IsSized(rows) /\ Size(rows) \in Nat
<1>1. TagRows \subseteq Rows /\ UnitRows \subseteq Rows
  BY DEF Rows
<1>2. rows \in Seq(Rows)
  BY <1>1, SeqMonotonic
<1>. QED BY <1>2, RowsAreSized

\* What a call of the store leaves alone.
SameMemory(w, r) ==
    r = [w EXCEPT !.scopes = r.scopes, !.created = r.created, !.error = r.error]

\* A step of the store leaves what the validation holds in memory.
LEMMA SameFields ==
    ASSUME NEW w \in Views, NEW r, SameMemory(w, r),
           r.scopes \in Disks, r.created \in Nat, r.error \in Codes
    PROVE  /\ r \in Views
           /\ r.owner = w.owner /\ r.frame = w.frame /\ r.meter = w.meter /\ r.peak = w.peak
           /\ r.tags = w.tags /\ r.units = w.units /\ r.spill = w.spill /\ r.unit = w.unit
           /\ r.work = w.work /\ r.runs = w.runs /\ r.merged = w.merged
           /\ r.duplicates = w.duplicates /\ r.found = w.found
<1>1. PICK s, c, e : s = r.scopes /\ c = r.created /\ e = r.error
  OBVIOUS
<1>2. r = [w EXCEPT !.scopes = s, !.created = c, !.error = e]
  BY <1>1 DEF SameMemory
<1>3. s \in Disks /\ c \in Nat /\ e \in Codes
  BY <1>1
<1>. QED BY <1>2, <1>3 DEF Views

WellStored(d) == \A x \in DOMAIN d : Size(d[x].rows) <= CapacityBytes

\* Only the scope id changed, and within its capacity.
Extends(w, r, id) ==
    /\ r \in Views
    /\ SameMemory(w, r)
    /\ r.created = w.created
    /\ DOMAIN r.scopes = DOMAIN w.scopes
    /\ \A x \in DOMAIN w.scopes : x # id => r.scopes[x] = w.scopes[x]
    /\ WellStored(w.scopes) => WellStored(r.scopes)

\* Writing nothing extends a scope.
LEMMA ExtendsNothing ==
    ASSUME NEW w \in Views, NEW id
    PROVE  Extends(w, w, id)
<1>1. w = [w EXCEPT !.scopes = w.scopes, !.created = w.created, !.error = w.error]
  BY DEF Views
<1>. QED BY <1>1 DEF Extends, SameMemory

\* Extending a scope twice extends it.
LEMMA ExtendsTwice ==
    ASSUME NEW w \in Views, NEW id, NEW r, NEW q, Extends(w, r, id), Extends(r, q, id)
    PROVE  Extends(w, q, id)
<1>1. SameMemory(w, q)
  <2>1. r = [w EXCEPT !.scopes = r.scopes, !.created = r.created, !.error = r.error]
    BY DEF Extends, SameMemory
  <2>2. q = [r EXCEPT !.scopes = q.scopes, !.created = q.created, !.error = q.error]
    BY DEF Extends, SameMemory
  <2>3. PICK a, b, c, d, e, f : /\ a = r.scopes /\ b = r.created /\ c = r.error
                                /\ d = q.scopes /\ e = q.created /\ f = q.error
    OBVIOUS
  <2>4. r = [w EXCEPT !.scopes = a, !.created = b, !.error = c]
    BY <2>1, <2>3
  <2>5. q = [r EXCEPT !.scopes = d, !.created = e, !.error = f]
    BY <2>2, <2>3
  <2>6. q = [w EXCEPT !.scopes = d, !.created = e, !.error = f]
    BY <2>4, <2>5 DEF Views
  <2>. QED BY <2>3, <2>6 DEF SameMemory
<1>2. q \in Views /\ q.created = w.created /\ DOMAIN q.scopes = DOMAIN w.scopes
  BY DEF Extends
<1>3. \A x \in DOMAIN w.scopes : x # id => q.scopes[x] = w.scopes[x]
  BY DEF Extends
<1>4. WellStored(w.scopes) => WellStored(q.scopes)
  BY DEF Extends
<1>. QED BY <1>1, <1>2, <1>3, <1>4 DEF Extends

\* Raising an exception leaves the scopes as they are.
LEMMA RaiseExtends ==
    ASSUME NEW w \in Views, NEW id, NEW code \in Codes
    PROVE  /\ Extends(w, Raise(w, code), id)
           /\ Raise(w, code).error = code
<1>1. PICK r : r = Raise(w, code)
  OBVIOUS
<1>2. /\ r = [w EXCEPT !.error = code]
      /\ r \in Views /\ r.scopes = w.scopes /\ r.created = w.created /\ r.error = code
  BY <1>1 DEF Raise, Views
<1>3. r = [w EXCEPT !.scopes = w.scopes, !.created = w.created, !.error = code]
  BY <1>2 DEF Views
<1>4. SameMemory(w, r)
  BY <1>2, <1>3 DEF SameMemory
<1>. QED BY <1>1, <1>2, <1>4 DEF Extends

\* write_sequential appends its row to the scope, or raises.
LEMMA WriteOne ==
    ASSUME NEW w \in Views, NEW attempt, NEW id, NEW sequence, NEW row \in Rows,
           NEW r, r = WriteSequential(w, attempt, id, sequence, row)
    PROVE  /\ Extends(w, r, id)
           /\ r.error = Ok => /\ w.error = Ok
                              /\ id \in DOMAIN w.scopes
                              /\ r.scopes[id].rows = Append(w.scopes[id].rows, row)
<1> DEFINE code == WriteOutcome(w, attempt, id, sequence, row)
<1>1. code \in Codes
  BY ZenonT(30) DEF WriteOutcome, Codes
<1>2. CASE w.error # Ok
  <2>1. r = w
    BY <1>2 DEF WriteSequential
  <2>. QED BY <1>2, <2>1, ExtendsNothing
<1>3. CASE w.error = Ok /\ code # Ok
  <2>1. r = Raise(w, code)
    BY <1>3 DEF WriteSequential
  <2> HIDE DEF code
  <2>. QED BY <1>1, <1>3, <2>1, RaiseExtends
<1>4. CASE w.error = Ok /\ code = Ok
  <2>1. /\ r = [w EXCEPT !.scopes[id].rows = Append(@, row)]
    BY <1>4 DEF WriteSequential
  <2>2. /\ id \in DOMAIN w.scopes
        /\ ~(Size(w.scopes[id].rows) + row.size > CapacityBytes)
    BY <1>4 DEF WriteOutcome, Ok
  <2>3. PICK d, old, rows, more : /\ d = w.scopes /\ old = d[id] /\ rows = old.rows
                                  /\ more = Append(old.rows, row)
    OBVIOUS
  <2>4. d \in Disks /\ w.scopes = d
    BY <2>3 DEF Views
  <2>5. /\ DOMAIN d \in SUBSET Ids /\ d = [x \in DOMAIN d |-> d[x]]
        /\ \A x \in DOMAIN d : d[x] \in Scope
    BY <2>4, DiskParts
  <2>6. old \in Scope /\ rows \in Seq(Rows)
    BY <2>2, <2>3, <2>5 DEF Scope
  <2>7. more \in Seq(Rows) /\ more = Append(rows, row)
    BY <2>3, <2>6
  <2>8. PICK new, e : new = [old EXCEPT !.rows = more] /\ e = [d EXCEPT ![id] = new]
    OBVIOUS
  <2>9. new \in Scope /\ new.rows = more
    BY <2>6, <2>7, <2>8 DEF Scope
  <2>10. /\ DOMAIN e = DOMAIN d /\ e[id] = new /\ e \in [DOMAIN d -> Scope]
         /\ \A x \in DOMAIN d : x # id => e[x] = d[x]
    BY <2>2, <2>4, <2>5, <2>8, <2>9
  <2>11. e \in Disks
    BY <2>5, <2>10, DiskFrom
  <2>12. r = [w EXCEPT !.scopes = e]
    BY <2>1, <2>3, <2>4, <2>7, <2>8 DEF Views
  <2>13. /\ r \in Views /\ r.scopes = e /\ r.created = w.created /\ r.error = w.error
         /\ SameMemory(w, r)
    <3>1. r \in Views /\ r.scopes = e /\ r.created = w.created /\ r.error = w.error
      BY <2>11, <2>12 DEF Views
    <3>2. r = [w EXCEPT !.scopes = e, !.created = w.created, !.error = w.error]
      BY <2>12 DEF Views
    <3>. QED BY <3>1, <3>2 DEF SameMemory
  <2>14. Size(more) <= CapacityBytes
    <3>1. IsSized(rows) /\ Size(rows) \in Nat /\ row.size \in Nat
      <4>1. <<row>> \in Seq(Rows) /\ Len(<<row>>) = 1 /\ <<row>>[1] = row /\ 1 \in 1..1
        OBVIOUS
      <4>2. IsSized(<<row>>)
        BY <4>1, RowsAreSized
      <4>3. row.size \in Nat
        BY <4>1, <4>2 DEF IsSized
      <4>. QED BY <2>6, <4>3, RowsAreSized
    <3>2. Size(more) = Size(rows) + row.size
      BY <2>6, <2>7, <3>1, SizeOfMore
    <3>3. ~(Size(rows) + row.size > CapacityBytes) /\ CapacityBytes \in Nat
      BY <2>2, <2>3, ScratchParameters
    <3>. QED BY <3>1, <3>2, <3>3
  <2>15. WellStored(d) => WellStored(e)
    BY <2>9, <2>10, <2>14 DEF WellStored
  <2>16. Extends(w, r, id)
    BY <2>4, <2>10, <2>13, <2>15 DEF Extends
  <2>. QED BY <1>4, <2>2, <2>3, <2>7, <2>9, <2>10, <2>13, <2>16
<1>. QED BY <1>2, <1>3, <1>4

IsWrite(g, w, attempt, id, sequence, rows, n) ==
    /\ DOMAIN g = 0..n
    /\ g[0] = w
    /\ \A i \in 1..n :
         g[i] = WriteSequential(g[i - 1], attempt, id, sequence + i - 1, rows[i])

WriteLoop(g, w, attempt, id, sequence, rows) ==
    g = [n \in 0..Len(rows) |->
           IF n = 0 THEN w
           ELSE WriteSequential(g[n - 1], attempt, id, sequence + n - 1, rows[n])]

\* Writing rows one after the other has a table of the store after each.
LEMMA WriteExists ==
    ASSUME NEW w \in Views, NEW attempt, NEW id, NEW sequence, NEW n \in Nat,
           NEW rows \in [1..n -> Rows]
    PROVE  \E g : IsWrite(g, w, attempt, id, sequence, rows, n)
<1> DEFINE F == [i \in 1..n |->
                   [u \in Views |-> WriteSequential(u, attempt, id, sequence + i - 1, rows[i])]]
<1>1. F \in [1..n -> [Views -> Views]]
  <2>1. \A i \in 1..n : \A u \in Views :
           WriteSequential(u, attempt, id, sequence + i - 1, rows[i]) \in Views
    <3> SUFFICES ASSUME NEW i \in 1..n, NEW u \in Views
                 PROVE  WriteSequential(u, attempt, id, sequence + i - 1, rows[i]) \in Views
      OBVIOUS
    <3>1. PICK q, row, s : /\ row = rows[i] /\ s = sequence + i - 1
                           /\ q = WriteSequential(u, attempt, id, sequence + i - 1, rows[i])
      OBVIOUS
    <3>2. row \in Rows /\ q = WriteSequential(u, attempt, id, s, row)
      BY <3>1
    <3>3. Extends(u, q, id)
      BY <3>2, WriteOne
    <3>. QED BY <3>1, <3>3 DEF Extends
  <2>. QED BY <2>1
<1>2. PICK N, z, G : N = Views /\ z = w /\ G = F
  OBVIOUS
<1>3. G \in [1..n -> [N -> N]] /\ z \in N
  BY <1>1, <1>2
<1>g. PICK g : IsLoop(g, N, z, n, G)
  BY <1>3, LoopExists
<1>4. g \in [0..n -> N] /\ g[0] = z /\ \A i \in 1..n : g[i] = G[i][g[i - 1]]
  BY <1>g DEF IsLoop
<1>5. ASSUME NEW i \in 1..n
      PROVE  g[i] = WriteSequential(g[i - 1], attempt, id, sequence + i - 1, rows[i])
  <2>1. G[i] = [u \in Views |-> WriteSequential(u, attempt, id, sequence + i - 1, rows[i])]
    BY <1>2
  <2>2. i - 1 \in 0..n
    OBVIOUS
  <2>3. g[i - 1] \in Views
    BY <1>2, <1>4, <2>2
  <2> HIDE DEF F
  <2>. QED BY <1>4, <2>1, <2>3
<1>6. IsWrite(g, w, attempt, id, sequence, rows, n)
  BY <1>2, <1>4, <1>5 DEF IsWrite
<1>. QED BY <1>6

\* The chunks s are the chunks a and the first n of rows.
Listing(s, a, rows, n) ==
    /\ s \in Seq(Rows)
    /\ Len(s) = Len(a) + n
    /\ \A i \in 1..Len(a) : s[i] = a[i]
    /\ \A i \in 1..n : s[Len(a) + i] = rows[i]

\* One more row written is one more row listed.
LEMMA ListingMore ==
    ASSUME NEW a \in Seq(Rows), NEW rows \in Seq(Rows), NEW n \in 1..Len(rows),
           NEW s, Listing(s, a, rows, n - 1)
    PROVE  Listing(Append(s, rows[n]), a, rows, n)
<1>1. PICK t, row, k : t = Append(s, rows[n]) /\ row = rows[n] /\ k = Len(a)
  OBVIOUS
<1>2. s \in Seq(Rows) /\ row \in Rows /\ k \in Nat /\ Len(s) = k + (n - 1)
  BY <1>1 DEF Listing
<1>3. /\ t \in Seq(Rows) /\ Len(t) = Len(s) + 1 /\ t[Len(s) + 1] = row
      /\ \A i \in 1..Len(s) : t[i] = s[i]
  BY <1>1, <1>2
<1>4. Len(t) = k + n /\ Len(s) + 1 = k + n
  BY <1>2, <1>3
<1>5. \A i \in 1..k : t[i] = a[i]
  <2>1. \A i \in 1..k : i \in 1..Len(s)
    BY <1>2
  <2>. QED BY <1>1, <1>3, <2>1 DEF Listing
<1>6. \A i \in 1..n : t[k + i] = rows[i]
  <2> SUFFICES ASSUME NEW i \in 1..n PROVE t[k + i] = rows[i]
    OBVIOUS
  <2>1. CASE i = n
    BY <1>1, <1>3, <1>4, <2>1
  <2>2. CASE i # n
    <3>1. i \in 1..(n - 1)
      BY <2>2
    <3>2. PICK j : j = k + i
      OBVIOUS
    <3>3. j \in 1..Len(s)
      BY <1>2, <3>1, <3>2
    <3>4. t[j] = s[j]
      BY <1>3, <3>3
    <3>5. s[j] = rows[i]
      BY <1>1, <3>1, <3>2 DEF Listing
    <3>. QED BY <3>2, <3>4, <3>5
  <2>. QED BY <2>1, <2>2
<1>7. Listing(t, a, rows, n)
  BY <1>1, <1>3, <1>4, <1>5, <1>6 DEF Listing
<1>. QED BY <1>1, <1>7

\* When the last row is written, the scope lists what it held and then the rows.
LEMMA ListingAll ==
    ASSUME NEW a \in Seq(Rows), NEW rows \in Seq(Rows), NEW s, NEW n, n = Len(rows),
           Listing(s, a, rows, n)
    PROVE  s = a \o rows
<1>1. PICK t, k : t = a \o rows /\ k = Len(a)
  OBVIOUS
<1>2. s \in Seq(Rows) /\ k \in Nat /\ n \in Nat /\ Len(s) = k + n
  BY <1>1 DEF Listing
<1>3. /\ t \in Seq(Rows) /\ Len(t) = k + n
      /\ \A i \in 1..(k + n) : t[i] = IF i <= k THEN a[i] ELSE rows[i - k]
  BY <1>1, ConcatProperties
<1>4. ASSUME NEW i \in 1..Len(s) PROVE s[i] = t[i]
  <2>1. i \in 1..(k + n)
    BY <1>2
  <2>2. CASE i <= k
    <3>1. i \in 1..k
      BY <2>1, <2>2
    <3>2. s[i] = a[i]
      BY <1>1, <3>1 DEF Listing
    <3>. QED BY <1>3, <2>1, <2>2, <3>2
  <2>3. CASE ~(i <= k)
    <3>1. PICK j : j = i - k
      OBVIOUS
    <3>2. j \in 1..n /\ k + j = i
      BY <1>2, <2>1, <2>3, <3>1
    <3>3. s[k + j] = rows[j]
      BY <1>1, <3>2 DEF Listing
    <3>. QED BY <1>3, <2>1, <2>3, <3>1, <3>2, <3>3
  <2>. QED BY <2>2, <2>3
<1>5. Len(s) = Len(t)
  BY <1>2, <1>3
<1>6. s = t
  BY <1>2, <1>3, <1>4, <1>5, SeqEqual
<1>. QED BY <1>1, <1>6

ChunksOf(w, id) == w.scopes[id].rows

\* The chunks of a scope are rows.
LEMMA ChunksType ==
    ASSUME NEW w \in Views, NEW id \in DOMAIN w.scopes
    PROVE  ChunksOf(w, id) \in Seq(Rows)
<1>1. w.scopes \in Disks
  BY DEF Views
<1>2. w.scopes[id] \in Scope
  BY <1>1, DiskParts
<1>. QED BY <1>2 DEF ChunksOf, Scope

\* Written says it of the first n rows.
Written(w, r, id, rows, n) ==
    /\ Extends(w, r, id)
    /\ r.error = Ok =>
         /\ w.error = Ok
         /\ id \in DOMAIN w.scopes => Listing(ChunksOf(r, id), ChunksOf(w, id), rows, n)

Wrote(w, r, id, rows) ==
    /\ Extends(w, r, id)
    /\ r.error = Ok =>
         /\ w.error = Ok
         /\ id \in DOMAIN w.scopes => ChunksOf(r, id) = ChunksOf(w, id) \o rows

\* Writing rows appends them to the scope, or fails, and touches no other scope.
LEMMA WriteAll ==
    ASSUME NEW w \in Views, NEW attempt, NEW id, NEW sequence, NEW rows \in Seq(Rows),
           NEW r, r = WriteRows(w, attempt, id, sequence, rows)
    PROVE  Wrote(w, r, id, rows)
<1> DEFINE n == Len(rows)
           after == CHOOSE g : WriteLoop(g, w, attempt, id, sequence, rows)
           Step(g, i) == IF i = 0 THEN w
                         ELSE WriteSequential(g[i - 1], attempt, id, sequence + i - 1, rows[i])
<1>1. n \in Nat /\ rows \in [1..n -> Rows] /\ \A i \in 1..n : rows[i] \in Rows
  OBVIOUS
<1>2. r = after[n]
  BY DEF WriteRows, WriteLoop
<1>3. \E g : WriteLoop(g, w, attempt, id, sequence, rows)
  <2>1. PICK g : IsWrite(g, w, attempt, id, sequence, rows, n)
    <3> HIDE DEF n, after, Step
    <3>. QED BY <1>1, WriteExists
  <2>2. \A i \in 0..n : g[i] = Step(g, i)
    BY <1>1, <2>1 DEF IsWrite
  <2> DEFINE h == [i \in 0..n |-> g[i]]
  <2>3. h = [i \in 0..n |-> h[i]] /\ \A i \in 0..n : h[i] = g[i]
    OBVIOUS
  <2> HIDE DEF h
  <2>4. \A i \in 0..n : i # 0 => i - 1 \in 0..n
    BY <1>1
  <2>5. \A i \in 0..n : Step(g, i) = Step(h, i)
    BY <2>3, <2>4
  <2>6. h = [i \in 0..n |-> Step(h, i)]
    <3> HIDE DEF Step, after
    <3>. QED BY <2>2, <2>3, <2>5
  <2>7. WriteLoop(h, w, attempt, id, sequence, rows)
    BY <2>6 DEF WriteLoop
  <2>. QED BY <2>7
<1>4. WriteLoop(after, w, attempt, id, sequence, rows)
  BY <1>3
<1> HIDE DEF after
<1>5. \A i \in 0..n : after[i] = Step(after, i)
  <2>1. after = [i \in 0..n |-> Step(after, i)]
    BY <1>4 DEF WriteLoop
  <2> HIDE DEF Step
  <2>. QED BY <2>1
<1> DEFINE T == {i \in 0..n : Written(w, after[i], id, rows, i)}
<1>6. 0 \in T
  <2>1. after[0] = w
    BY <1>1, <1>5
  <2>2. ASSUME id \in DOMAIN w.scopes PROVE Listing(ChunksOf(w, id), ChunksOf(w, id), rows, 0)
    <3>1. PICK s : s = ChunksOf(w, id)
      OBVIOUS
    <3>2. s \in Seq(Rows)
      BY <2>2, <3>1, ChunksType
    <3>3. Listing(s, s, rows, 0)
      BY <3>2 DEF Listing
    <3>. QED BY <3>1, <3>3
  <2>3. Written(w, w, id, rows, 0)
    BY <2>2, ExtendsNothing DEF Written
  <2>. QED BY <1>1, <2>1, <2>3
<1>7. ASSUME NEW i \in 1..n, i - 1 \in T PROVE i \in T
  <2>1. PICK u, q, row, s : /\ u = after[i - 1] /\ q = after[i] /\ row = rows[i]
                            /\ s = sequence + i - 1
    OBVIOUS
  <2>2. Written(w, u, id, rows, i - 1) /\ row \in Rows /\ i \in 0..n /\ i # 0
    BY <1>1, <1>7, <2>1
  <2>3. q = WriteSequential(u, attempt, id, s, row)
    BY <1>5, <2>1, <2>2
  <2>4. u \in Views /\ Extends(w, u, id)
    BY <2>2 DEF Written, Extends
  <2>5. /\ Extends(u, q, id)
        /\ q.error = Ok => /\ u.error = Ok
                           /\ id \in DOMAIN u.scopes
                           /\ q.scopes[id].rows = Append(u.scopes[id].rows, row)
    BY <2>2, <2>3, <2>4, WriteOne
  <2>6. Extends(w, q, id)
    BY <2>4, <2>5, ExtendsTwice
  <2>7. ASSUME q.error = Ok, id \in DOMAIN w.scopes
        PROVE  Listing(ChunksOf(q, id), ChunksOf(w, id), rows, i)
    <3>1. Listing(ChunksOf(u, id), ChunksOf(w, id), rows, i - 1)
      BY <2>2, <2>5, <2>7 DEF Written
    <3>2. PICK s1, a : s1 = ChunksOf(u, id) /\ a = ChunksOf(w, id)
      OBVIOUS
    <3>3. a \in Seq(Rows)
      BY <2>7, <3>2, ChunksType
    <3>4. Listing(s1, a, rows, i - 1)
      BY <3>1, <3>2
    <3>5. Listing(Append(s1, rows[i]), a, rows, i)
      <4> HIDE DEF T
      <4>. QED BY <3>3, <3>4, ListingMore
    <3>6. ChunksOf(q, id) = Append(s1, rows[i])
      BY <2>1, <2>5, <2>7, <3>2 DEF ChunksOf
    <3>. QED BY <3>2, <3>5, <3>6
  <2>8. q.error = Ok => w.error = Ok
    BY <2>2, <2>5 DEF Written
  <2>9. Written(w, q, id, rows, i)
    BY <2>6, <2>7, <2>8 DEF Written
  <2>. QED BY <2>1, <2>2, <2>9
<1>8. \A i \in 0..n : i \in T
  <2> HIDE DEF T, n, Step
  <2>. QED BY <1>1, <1>6, <1>7, UpToInduction
<1>9. Written(w, r, id, rows, n)
  <2>1. n \in 0..n
    BY <1>1
  <2>. QED BY <1>2, <1>8, <2>1
<1>10. Extends(w, r, id) /\ (r.error = Ok => w.error = Ok)
  BY <1>9 DEF Written
<1>11. ASSUME r.error = Ok, id \in DOMAIN w.scopes
       PROVE  ChunksOf(r, id) = ChunksOf(w, id) \o rows
  <2>1. PICK s, a, m : s = ChunksOf(r, id) /\ a = ChunksOf(w, id) /\ m = Len(rows)
    OBVIOUS
  <2>2. Listing(s, a, rows, m)
    BY <1>9, <1>11, <2>1 DEF Written
  <2>3. a \in Seq(Rows)
    BY <1>11, <2>1, ChunksType
  <2>4. s = a \o rows
    BY <2>1, <2>2, <2>3, ListingAll
  <2>. QED BY <2>1, <2>4
<1>. QED BY <1>10, <1>11 DEF Wrote

\* create_scope makes an empty scope under an id of its own that no scope has, or raises.
LEMMA CreateScopeMakes ==
    ASSUME NEW w \in Views, NEW made, made = CreateScope(w, w.owner),
           NEW id, id = <<w.owner, made.created>>
    PROVE  /\ made \in Views
           /\ SameMemory(w, made)
           /\ WellStored(w.scopes) => WellStored(made.scopes)
           /\ made.error # Ok => made.scopes = w.scopes
           /\ made.error = Ok =>
                /\ w.error = Ok
                /\ id \in Ids /\ id[1] = w.owner /\ id \notin DOMAIN w.scopes
                /\ DOMAIN made.scopes = DOMAIN w.scopes \cup {id}
                /\ \A x \in DOMAIN w.scopes : made.scopes[x] = w.scopes[x]
                /\ ChunksOf(made, id) = <<>>
<1> DEFINE n == w.created + 1
           at == <<w.owner, n>>
<1>0. /\ n \in Nat /\ w.owner \in Evaluations /\ at \in Ids /\ at[1] = w.owner
      /\ w.scopes \in Disks /\ w.error \in Codes
  BY DEF Views, Ids
<1>1. CASE w.error # Ok
  <2>1. made = w
    BY <1>1 DEF CreateScope
  <2>2. w = [w EXCEPT !.scopes = w.scopes, !.created = w.created, !.error = w.error]
    BY DEF Views
  <2>. QED BY <1>1, <2>1, <2>2 DEF SameMemory
<1>2. CASE /\ w.error = Ok
           /\ \/ CapacityBytes < 1
              \/ ReservedAggregate(w.scopes) + CapacityBytes > MaxScratchBytes
  <2>1. made = Raise(w, "capacity_exceeded")
    BY <1>2 DEF CreateScope
  <2>2. "capacity_exceeded" \in Codes /\ "capacity_exceeded" # Ok
    BY DEF Codes, Ok
  <2>3. Extends(w, made, at) /\ made.error # Ok /\ made.scopes = w.scopes
    <3>1. made.scopes = w.scopes
      BY <2>1 DEF Raise, Views
    <3>. QED BY <2>1, <2>2, <3>1, RaiseExtends
  <2>. QED BY <2>3 DEF Extends
<1>3. CASE /\ w.error = Ok
           /\ ~\/ CapacityBytes < 1
               \/ ReservedAggregate(w.scopes) + CapacityBytes > MaxScratchBytes
           /\ at \in DOMAIN w.scopes
  <2>1. made = Raise([w EXCEPT !.created = n], "scope_conflict")
    BY <1>3 DEF CreateScope
  <2>2. made = [w EXCEPT !.created = n, !.error = "scope_conflict"]
    BY <2>1 DEF Raise, Views
  <2>3. "scope_conflict" \in Codes /\ "scope_conflict" # Ok
    BY DEF Codes, Ok
  <2>4. made \in Views /\ made.scopes = w.scopes /\ made.created = n /\ made.error = "scope_conflict"
    <3>1. PICK c : c = n
      OBVIOUS
    <3>2. made = [w EXCEPT !.created = c, !.error = "scope_conflict"]
      BY <2>2, <3>1
    <3>3. made.scopes = w.scopes /\ made.created = c /\ made.error = "scope_conflict"
      BY <3>2 DEF Views
    <3>4. c \in Nat /\ "scope_conflict" \in Codes
      BY <1>0, <2>3, <3>1
    <3>5. made \in Views
      BY <3>2, <3>4 DEF Views
    <3>. QED BY <3>1, <3>3, <3>5
  <2>5. made = [w EXCEPT !.scopes = w.scopes, !.created = n, !.error = "scope_conflict"]
    <3> HIDE DEF n
    <3>. QED BY <2>2 DEF Views
  <2>6. SameMemory(w, made)
    <3> HIDE DEF n
    <3>. QED BY <2>4, <2>5 DEF SameMemory
  <2>. QED BY <2>3, <2>4, <2>6
<1>4. CASE /\ w.error = Ok
           /\ ~\/ CapacityBytes < 1
               \/ ReservedAggregate(w.scopes) + CapacityBytes > MaxScratchBytes
           /\ at \notin DOMAIN w.scopes
  <2>1. PICK d, D, e, c, i : /\ d = w.scopes /\ D = DOMAIN w.scopes /\ c = n /\ i = at
                             /\ e = [x \in DOMAIN w.scopes \cup {at} |->
                                       IF x = at THEN [rows |-> <<>>, closed |-> FALSE]
                                       ELSE w.scopes[x]]
    OBVIOUS
  <2>2. made = [w EXCEPT !.created = c, !.scopes = e]
    BY <1>4, <2>1 DEF CreateScope
  <2>3. /\ D \in SUBSET Ids /\ DOMAIN d = D /\ \A x \in D : d[x] \in Scope
        /\ i \in Ids /\ i \notin D /\ c \in Nat
    BY <1>0, <1>4, <2>1, DiskParts
  <2>4. e = [x \in D \cup {i} |-> IF x = i THEN [rows |-> <<>>, closed |-> FALSE] ELSE d[x]]
    BY <2>1
  <2>5. PICK empty : empty = [rows |-> <<>>, closed |-> FALSE]
    OBVIOUS
  <2>6. empty \in Scope /\ empty.rows = <<>>
    BY <2>5 DEF Scope
  <2>7. /\ DOMAIN e = D \cup {i} /\ e[i] = empty /\ \A x \in D : e[x] = d[x]
        /\ e \in [D \cup {i} -> Scope]
    BY <2>3, <2>4, <2>5, <2>6
  <2>8. e \in Disks
    BY <2>3, <2>7, DiskFrom
  <2>9. made \in Views /\ made.scopes = e /\ made.created = c /\ made.error = w.error
    BY <2>2, <2>3, <2>8 DEF Views
  <2>10. made = [w EXCEPT !.scopes = e, !.created = c, !.error = w.error]
    BY <2>2 DEF Views
  <2>11. SameMemory(w, made)
    BY <2>9, <2>10 DEF SameMemory
  <2>12. id = i
    BY <2>1, <2>9
  <2>13. ASSUME WellStored(d) PROVE WellStored(e)
    <3>1. Size(e[i].rows) <= CapacityBytes
      BY <2>6, <2>7, SizeOfNone, ScratchParameters
    <3>. QED BY <2>3, <2>7, <2>13, <3>1 DEF WellStored
  <2>14. ChunksOf(made, i) = <<>>
    BY <2>6, <2>7, <2>9 DEF ChunksOf
  <2>. QED BY <1>0, <1>4, <2>1, <2>3, <2>7, <2>9, <2>11, <2>12, <2>13, <2>14
<1>. QED BY <1>1, <1>2, <1>3, <1>4

\* A scope is closed, and its rows stay.
Closes(w, r, attempt, id) ==
    /\ Extends(w, r, id)
    /\ \A x \in DOMAIN w.scopes : ChunksOf(r, x) = ChunksOf(w, x)
    /\ r.error = Ok => w.error = Ok /\ id \in DOMAIN w.scopes /\ id[1] = attempt
                       /\ r.scopes[id].closed = TRUE

\* close_scope marks an open scope of its owner as closed, or raises.
LEMMA CloseScopeCloses ==
    ASSUME NEW w \in Views, NEW attempt, NEW id, NEW r, r = CloseScope(w, attempt, id)
    PROVE  Closes(w, r, attempt, id)
<1>1. CASE w.error # Ok
  <2>1. r = w
    BY <1>1 DEF CloseScope
  <2>. QED BY <1>1, <2>1, ExtendsNothing DEF Closes
<1>2. CASE w.error = Ok /\ (id \notin DOMAIN w.scopes \/ id[1] # attempt)
  <2>1. r = Raise(w, "not_found")
    BY <1>2 DEF CloseScope
  <2>2. "not_found" \in Codes /\ "not_found" # Ok
    BY DEF Codes, Ok
  <2>3. Extends(w, r, id) /\ r.error # Ok /\ r.scopes = w.scopes
    <3>1. r.scopes = w.scopes
      BY <2>1 DEF Raise, Views
    <3>. QED BY <2>1, <2>2, <3>1, RaiseExtends
  <2>. QED BY <2>3 DEF ChunksOf, Closes
<1>3. CASE w.error = Ok /\ ~(id \notin DOMAIN w.scopes \/ id[1] # attempt)
  <2>1. r = [w EXCEPT !.scopes[id].closed = TRUE]
    BY <1>3 DEF CloseScope
  <2>2. PICK d, old : d = w.scopes /\ old = d[id]
    OBVIOUS
  <2>3. d \in Disks
    BY <2>2 DEF Views
  <2>4. /\ DOMAIN d \in SUBSET Ids /\ d = [x \in DOMAIN d |-> d[x]]
        /\ \A x \in DOMAIN d : d[x] \in Scope
    BY <2>3, DiskParts
  <2>5. old \in Scope /\ id \in DOMAIN d
    BY <1>3, <2>2, <2>4
  <2>6. PICK new, e : new = [old EXCEPT !.closed = TRUE] /\ e = [d EXCEPT ![id] = new]
    OBVIOUS
  <2>7. new \in Scope /\ new.rows = old.rows /\ new.closed = TRUE
    BY <2>5, <2>6 DEF Scope
  <2>8. /\ DOMAIN e = DOMAIN d /\ e[id] = new /\ e \in [DOMAIN d -> Scope]
        /\ \A x \in DOMAIN d : x # id => e[x] = d[x]
    BY <2>4, <2>5, <2>6, <2>7
  <2>9. e \in Disks
    BY <2>4, <2>8, DiskFrom
  <2>10. r = [w EXCEPT !.scopes = e]
    BY <2>1, <2>2, <2>6 DEF Views
  <2>11. r \in Views /\ r.scopes = e /\ r.created = w.created /\ r.error = w.error
    BY <2>9, <2>10 DEF Views
  <2>12. SameMemory(w, r)
    <3>1. r = [w EXCEPT !.scopes = e, !.created = w.created, !.error = w.error]
      BY <2>10 DEF Views
    <3>. QED BY <2>11, <3>1 DEF SameMemory
  <2>13. \A x \in DOMAIN d : e[x].rows = d[x].rows
    BY <2>2, <2>7, <2>8
  <2>14. WellStored(d) => WellStored(e)
    BY <2>8, <2>13 DEF WellStored
  <2>15. Extends(w, r, id)
    BY <2>2, <2>8, <2>11, <2>12, <2>14 DEF Extends
  <2>16. \A x \in DOMAIN w.scopes : ChunksOf(r, x) = ChunksOf(w, x)
    BY <2>2, <2>11, <2>13 DEF ChunksOf
  <2>. QED BY <1>3, <2>5, <2>7, <2>8, <2>11, <2>15, <2>16 DEF Closes
<1>. QED BY <1>1, <1>2, <1>3

-----------------------------------------------------------------------------
(* Spilling *)

\* No scope has the id that stands for none.
LEMMA NoScopeIsNoId ==
    NoScope \notin Ids
<1>1. ASSUME NEW e \in Evaluations, NEW n \in Nat PROVE <<e, n>> # NoScope
  BY DEF NoScope
<1>. QED BY <1>1 DEF Ids

Spilled(w, made, r, id, old, other, rows) ==
    /\ made.error # Ok => /\ made \in Views /\ SameMemory(w, made)
                          /\ made.scopes = w.scopes
    /\ made.error = Ok =>
         /\ r \in Views /\ SameMemory(w, r) /\ WellStored(r.scopes)
         /\ id \in Ids /\ id[1] = w.owner /\ id # other
         /\ DOMAIN r.scopes = DOMAIN w.scopes \cup {id}
         /\ other # NoScope => r.scopes[other] = w.scopes[other]
         /\ r.error = Ok => ChunksOf(r, id) = Stored(w, old) \o rows

\* Rows written to the scope old, or to a new one, beside the scope other.
LEMMA Spilling ==
    ASSUME NEW w \in Views, WellStored(w.scopes), w.error = Ok,
           NEW old \in Ids \cup {NoScope}, NEW other \in Ids \cup {NoScope},
           IsOwn(w, old), IsOwn(w, other), old # NoScope => old # other,
           NEW made, made = EnsureScope(w, old),
           NEW id, id = IF old = NoScope THEN <<w.owner, made.created>> ELSE old,
           NEW sequence, NEW rows \in Seq(Rows),
           NEW r, r = WriteRows(made, w.owner, id, sequence, rows)
    PROVE  Spilled(w, made, r, id, old, other, rows)
<1>1. /\ made \in Views /\ SameMemory(w, made) /\ WellStored(made.scopes)
      /\ made.error # Ok => made.scopes = w.scopes
      /\ made.error = Ok =>
           /\ id \in Ids /\ id[1] = w.owner /\ id # other
           /\ DOMAIN made.scopes = DOMAIN w.scopes \cup {id}
           /\ other # NoScope => made.scopes[other] = w.scopes[other]
           /\ ChunksOf(made, id) = Stored(w, old)
  <2>1. CASE old = NoScope
    <3>1. made = CreateScope(w, w.owner) /\ id = <<w.owner, made.created>>
      BY <2>1 DEF EnsureScope
    <3>2. /\ made \in Views
          /\ SameMemory(w, made)
          /\ WellStored(w.scopes) => WellStored(made.scopes)
          /\ made.error # Ok => made.scopes = w.scopes
          /\ made.error = Ok =>
               /\ w.error = Ok
               /\ id \in Ids /\ id[1] = w.owner /\ id \notin DOMAIN w.scopes
               /\ DOMAIN made.scopes = DOMAIN w.scopes \cup {id}
               /\ \A x \in DOMAIN w.scopes : made.scopes[x] = w.scopes[x]
               /\ ChunksOf(made, id) = <<>>
      BY <3>1, CreateScopeMakes
    <3>3. Stored(w, old) = <<>>
      BY <2>1 DEF Stored
    <3>. QED BY <3>2, <3>3, NoScopeIsNoId DEF IsOwn
  <2>2. CASE old # NoScope
    <3>1. made = w /\ id = old
      BY <2>2 DEF EnsureScope
    <3>2. /\ SameMemory(w, w) /\ id \in DOMAIN w.scopes /\ id[1] = w.owner /\ id # other
          /\ id \in Ids
      BY <2>2, <3>1, ExtendsNothing DEF Extends, IsOwn
    <3>3. DOMAIN w.scopes = DOMAIN w.scopes \cup {id}
      BY <3>2
    <3>4. ChunksOf(w, id) = Stored(w, old)
      BY <2>2, <3>1 DEF ChunksOf, Stored
    <3>. QED BY <3>1, <3>2, <3>3, <3>4
  <2>. QED BY <2>1, <2>2
<1>2. PICK owner : owner = w.owner
  OBVIOUS
<1>3. r = WriteRows(made, owner, id, sequence, rows)
  BY <1>2
<1>a. Wrote(made, r, id, rows)
  BY <1>1, <1>3, WriteAll
<1>4. /\ Extends(made, r, id)
      /\ r.error = Ok => (id \in DOMAIN made.scopes => ChunksOf(r, id) = ChunksOf(made, id) \o rows)
  BY <1>a DEF Wrote
<1>5. SameMemory(w, r)
  <2>1. PICK a, b, c, d, e, f : /\ a = made.scopes /\ b = made.created /\ c = made.error
                                /\ d = r.scopes /\ e = r.created /\ f = r.error
    OBVIOUS
  <2>2. made = [w EXCEPT !.scopes = a, !.created = b, !.error = c]
    BY <1>1, <2>1 DEF SameMemory
  <2>3. r = [made EXCEPT !.scopes = d, !.created = e, !.error = f]
    BY <1>4, <2>1 DEF SameMemory, Extends
  <2>4. r = [w EXCEPT !.scopes = d, !.created = e, !.error = f]
    BY <2>2, <2>3 DEF Views
  <2>. QED BY <2>1, <2>4 DEF SameMemory
<1>6. /\ r \in Views /\ DOMAIN r.scopes = DOMAIN made.scopes
      /\ \A x \in DOMAIN made.scopes : x # id => r.scopes[x] = made.scopes[x]
      /\ WellStored(r.scopes)
  BY <1>1, <1>4 DEF Extends
<1>7. ASSUME made.error = Ok, other # NoScope PROVE r.scopes[other] = w.scopes[other]
  <2>1. other \in DOMAIN made.scopes
    BY <1>1, <1>7 DEF IsOwn
  <2>. QED BY <1>1, <1>6, <1>7, <2>1
<1>8. ASSUME made.error = Ok, r.error = Ok PROVE ChunksOf(r, id) = Stored(w, old) \o rows
  <2>1. id \in DOMAIN made.scopes
    BY <1>1, <1>8
  <2>. QED BY <1>1, <1>4, <1>8, <2>1
<1>. QED BY <1>1, <1>5, <1>6, <1>7, <1>8 DEF Spilled

\* What is still the same after frames were observed.
Kept(w, r) ==
    /\ r.owner = w.owner /\ r.frame = w.frame /\ r.found = w.found
    /\ r.work = w.work /\ r.runs = w.runs /\ r.merged = w.merged

Released(w, n, r) ==
    /\ r \in Views /\ Kept(w, r)
    /\ r.meter = IF w.meter > n THEN w.meter - n ELSE 0
    /\ r.peak = w.peak /\ r.tags = w.tags /\ r.units = w.units
    /\ r.spill = w.spill /\ r.unit = w.unit /\ r.scopes = w.scopes
    /\ r.error = w.error /\ r.duplicates = w.duplicates

\* Releasing bytes lowers the meter and nothing else.
LEMMA ReleaseLowers ==
    ASSUME NEW w \in Views, NEW n \in Nat, NEW r, r = Release(w, n)
    PROVE  Released(w, n, r)
<1>1. PICK m : m = IF w.meter > n THEN w.meter - n ELSE 0
  OBVIOUS
<1>2. w.meter \in Nat
  BY DEF Views
<1>3. m \in Nat
  BY <1>1, <1>2
<1>4. r = [w EXCEPT !.meter = m]
  BY <1>1 DEF Release, Views
<1>5. r \in Views
  BY <1>3, <1>4 DEF Views
<1>. QED BY <1>1, <1>4, <1>5 DEF Views, Kept, Released

\* No scope is forgotten when a spill scope is added.
LEMMA OwnsMore ==
    ASSUME NEW w, NEW r, NEW id \in Ids,
           DOMAIN w.scopes \subseteq w.found \cup OwnScopes(w),
           DOMAIN r.scopes = DOMAIN w.scopes \cup {id},
           r.found = w.found, r.work = w.work,
           \/ r.spill = id /\ r.unit = w.unit /\ w.spill \in {NoScope, id}
           \/ r.unit = id /\ r.spill = w.spill /\ w.unit \in {NoScope, id}
    PROVE  DOMAIN r.scopes \subseteq r.found \cup OwnScopes(r)
BY NoScopeIsNoId DEF OwnScopes

\* Spilling the tags moves them from memory to scratch and loses none of them.
LEMMA SpillTagsHolds ==
    ASSUME NEW w, NEW T, NEW us, NEW h \in Nat, Holding(w, T, us, h), NEW r, r = SpillTags(w)
    PROVE  /\ Holding(r, T, us, h)
           /\ Kept(w, r)
           /\ r.error = Ok => w.error = Ok /\ r.tags = <<>>
           /\ w.spill # NoScope => r.spill = w.spill
<1>1. /\ Well(w) /\ w \in Views /\ WellStored(w.scopes) /\ IsOwn(w, w.spill) /\ IsOwn(w, w.unit)
      /\ w.spill # NoScope => w.spill # w.unit
      /\ w.peak <= budget
      /\ DOMAIN w.scopes \subseteq w.found \cup OwnScopes(w)
  BY DEF Holding, Well, WellStored
<1>2. CASE w.error # Ok \/ w.tags = <<>>
  <2>1. r = w
    BY <1>2 DEF SpillTags
  <2>. QED BY <1>2, <2>1 DEF Kept
<1>3. CASE w.error = Ok /\ w.tags # <<>>
  <2> DEFINE made == EnsureScope(w, w.spill)
             id == IF w.spill = NoScope THEN <<w.owner, made.created>> ELSE w.spill
  <2>0. w.spill \in Ids \cup {NoScope} /\ w.unit \in Ids \cup {NoScope} /\ w.tags \in Seq(TagRows)
        /\ w.meter \in Nat /\ w.units \in Seq(UnitRows)
    BY <1>1 DEF Views
  <2>1. PICK old, other, rows, m, i, q, wr, n :
          /\ old = w.spill /\ other = w.unit /\ rows = w.tags /\ m = made /\ i = id
          /\ q = NextRow(made, id) /\ wr = WriteRows(m, w.owner, i, q, rows)
          /\ n = Size(w.tags)
    OBVIOUS
  <2>2. /\ m = EnsureScope(w, old)
        /\ i = IF old = NoScope THEN <<w.owner, m.created>> ELSE old
    BY <2>1
  <2>3. rows \in Seq(Rows) /\ Size(rows) \in Nat
    BY <2>0, <2>1, RowsOf
  <2>s. Spilled(w, m, wr, i, old, other, rows)
    BY <1>1, <1>3, <2>0, <2>1, <2>2, <2>3, Spilling
  <2>4. /\ m.error # Ok => m \in Views /\ SameMemory(w, m) /\ m.scopes = w.scopes
        /\ m.error = Ok =>
             /\ wr \in Views /\ SameMemory(w, wr) /\ WellStored(wr.scopes)
             /\ i \in Ids /\ i[1] = w.owner /\ i # other
             /\ DOMAIN wr.scopes = DOMAIN w.scopes \cup {i}
             /\ other # NoScope => wr.scopes[other] = w.scopes[other]
             /\ wr.error = Ok => ChunksOf(wr, i) = Stored(w, old) \o rows
    BY <2>s DEF Spilled
  <2>5. CASE m.error # Ok
    <3>1. r = m
      BY <1>3, <2>1, <2>5 DEF SpillTags
    <3>2. m.scopes \in Disks /\ m.created \in Nat /\ m.error \in Codes
      BY <2>4, <2>5 DEF Views
    <3>3. /\ r \in Views /\ r.scopes = w.scopes
          /\ r.owner = w.owner /\ r.frame = w.frame /\ r.meter = w.meter /\ r.peak = w.peak
          /\ r.tags = w.tags /\ r.units = w.units /\ r.spill = w.spill /\ r.unit = w.unit
          /\ r.work = w.work /\ r.runs = w.runs /\ r.merged = w.merged
          /\ r.duplicates = w.duplicates /\ r.found = w.found
      BY <1>1, <2>4, <2>5, <3>1, <3>2, SameFields
    <3>4. Well(r)
      BY <1>1, <3>3 DEF Well, IsOwn, OwnScopes
    <3>. QED BY <2>5, <3>1, <3>3, <3>4 DEF Holding, Kept
  <2>6. CASE m.error = Ok
    <3> DEFINE x == [wr EXCEPT !.spill = i, !.tags = <<>>]
    <3>1. r = Release(x, n)
      BY <1>3, <2>1, <2>6 DEF SpillTags
    <3>2. /\ wr \in Views
          /\ wr.owner = w.owner /\ wr.frame = w.frame /\ wr.meter = w.meter /\ wr.peak = w.peak
          /\ wr.tags = w.tags /\ wr.units = w.units /\ wr.spill = w.spill /\ wr.unit = w.unit
          /\ wr.work = w.work /\ wr.runs = w.runs /\ wr.merged = w.merged
          /\ wr.duplicates = w.duplicates /\ wr.found = w.found
      <4>1. wr.scopes \in Disks /\ wr.created \in Nat /\ wr.error \in Codes
        BY <2>4, <2>6 DEF Views
      <4>. QED BY <1>1, <2>4, <2>6, <4>1, SameFields
    <3>3. /\ x \in Views /\ x.spill = i /\ x.tags = <<>>
          /\ x.owner = wr.owner /\ x.frame = wr.frame /\ x.meter = wr.meter /\ x.peak = wr.peak
          /\ x.units = wr.units /\ x.unit = wr.unit /\ x.work = wr.work /\ x.runs = wr.runs
          /\ x.merged = wr.merged /\ x.found = wr.found /\ x.scopes = wr.scopes
          /\ x.error = wr.error
      <4>1. <<>> \in Seq(TagRows)
        OBVIOUS
      <4>. QED BY <2>4, <2>6, <3>2, <4>1 DEF Views
    <3> HIDE DEF x
    <3>4. /\ r \in Views /\ Kept(x, r)
          /\ r.meter = IF x.meter > n THEN x.meter - n ELSE 0
          /\ r.peak = x.peak /\ r.tags = x.tags /\ r.units = x.units
          /\ r.spill = x.spill /\ r.unit = x.unit /\ r.scopes = x.scopes
          /\ r.error = x.error
      <4>1. PICK y : y = x
        OBVIOUS
      <4>2. n \in Nat /\ y \in Views /\ r = Release(y, n)
        BY <2>1, <2>3, <3>1, <3>3, <4>1
      <4>3. Released(y, n, r)
        BY <4>2, ReleaseLowers
      <4>. QED BY <4>1, <4>3 DEF Released
    <3>5. Kept(w, r)
      BY <3>2, <3>3, <3>4 DEF Kept
    <3>6. /\ r.spill = i /\ r.unit = other /\ r.tags = <<>> /\ r.units = w.units
          /\ r.scopes = wr.scopes /\ r.peak = w.peak /\ r.error = wr.error
          /\ r.found = w.found /\ r.work = w.work /\ r.owner = w.owner
          /\ r.meter = IF w.meter > n THEN w.meter - n ELSE 0
      BY <2>1, <3>2, <3>3, <3>4, <3>5 DEF Kept
    <3>7. Well(r)
      <4>1. IsOwn(r, r.spill) /\ IsOwn(r, r.unit)
        BY <1>1, <2>1, <2>4, <2>6, <3>6 DEF IsOwn
      <4>2. old \in {NoScope, i}
        BY <2>2
      <4>3. DOMAIN r.scopes \subseteq r.found \cup OwnScopes(r)
        <5>1. i \in Ids /\ DOMAIN r.scopes = DOMAIN w.scopes \cup {i}
          BY <2>4, <2>6, <3>6
        <5>2. DOMAIN w.scopes \subseteq w.found \cup OwnScopes(w)
          BY <1>1
        <5>3. r.found = w.found /\ r.work = w.work
          BY <3>6
        <5>4. r.spill = i /\ r.unit = w.unit /\ w.spill \in {NoScope, i}
          BY <2>1, <3>6, <4>2
        <5>. QED BY <5>1, <5>2, <5>3, <5>4, OwnsMore
      <4>4. \A d \in DOMAIN r.scopes : Size(r.scopes[d].rows) <= CapacityBytes
        BY <2>4, <2>6, <3>6 DEF WellStored
      <4>. QED BY <1>1, <2>4, <2>6, <3>4, <3>6, <4>1, <4>3, <4>4 DEF Well
    <3>8. ASSUME r.error = Ok
          PROVE  /\ ListsTags(r, T) /\ ListsUnits(r, us)
                 /\ r.meter = Size(r.tags) + Size(r.units) + h
      <4>1. /\ ListsTags(w, T) /\ ListsUnits(w, us)
            /\ w.meter = n + Size(w.units) + h
        BY <1>3, <2>1 DEF Holding
      <4>2. AllTags(r) = AllTags(w)
        <5>1. PICK a : a = AllTags(w)
          OBVIOUS
        <5>2. a \in Seq(TagRows) /\ a = Stored(w, old) \o rows
          BY <2>1, <4>1, <5>1 DEF ListsTags, AllTags
        <5>3. Stored(r, r.spill) = a
          BY <2>4, <2>6, <3>6, <3>8, <5>2, NoScopeIsNoId DEF Stored, ChunksOf
        <5>4. a \o <<>> = a
          BY <5>2, ConcatEmptySeq
        <5>. QED BY <3>6, <5>1, <5>3, <5>4 DEF AllTags
      <4>3. AllUnits(r) = AllUnits(w)
        BY <2>1, <2>4, <2>6, <3>6 DEF AllUnits, Stored
      <4>4. Size(w.units) \in Nat /\ n \in Nat
        BY <2>0, <2>1, <2>3, RowsOf
      <4>5. r.meter = 0 + Size(w.units) + h
        BY <3>6, <4>1, <4>4
      <4>. QED BY <3>6, <4>1, <4>2, <4>3, <4>5, SizeOfNone DEF ListsTags, ListsUnits
    <3>9. old # NoScope => i = old
      BY <2>2
    <3>. QED BY <1>3, <2>1, <3>5, <3>6, <3>7, <3>8, <3>9 DEF Holding
  <2>. QED BY <2>5, <2>6
<1>. QED BY <1>2, <1>3

\* Spilling the units moves them from memory to scratch, in order.
LEMMA SpillUnitsHolds ==
    ASSUME NEW w, NEW T, NEW us, NEW h \in Nat, Holding(w, T, us, h), NEW r, r = SpillUnits(w)
    PROVE  /\ Holding(r, T, us, h)
           /\ Kept(w, r)
           /\ r.error = Ok => w.error = Ok /\ r.units = <<>>
           /\ w.unit # NoScope => r.unit = w.unit
<1>1. /\ Well(w) /\ w \in Views /\ WellStored(w.scopes) /\ IsOwn(w, w.unit) /\ IsOwn(w, w.spill)
      /\ w.unit # NoScope => w.unit # w.spill
      /\ w.peak <= budget
      /\ DOMAIN w.scopes \subseteq w.found \cup OwnScopes(w)
  BY DEF Holding, Well, WellStored
<1>2. CASE w.error # Ok \/ w.units = <<>>
  <2>1. r = w
    BY <1>2 DEF SpillUnits
  <2>. QED BY <1>2, <2>1 DEF Kept
<1>3. CASE w.error = Ok /\ w.units # <<>>
  <2> DEFINE made == EnsureScope(w, w.unit)
             id == IF w.unit = NoScope THEN <<w.owner, made.created>> ELSE w.unit
  <2>0. w.unit \in Ids \cup {NoScope} /\ w.spill \in Ids \cup {NoScope} /\ w.units \in Seq(UnitRows)
        /\ w.meter \in Nat /\ w.tags \in Seq(TagRows)
    BY <1>1 DEF Views
  <2>1. PICK old, other, rows, m, i, q, wr, n :
          /\ old = w.unit /\ other = w.spill /\ rows = w.units /\ m = made /\ i = id
          /\ q = NextRow(made, id) /\ wr = WriteRows(m, w.owner, i, q, rows)
          /\ n = Size(w.units)
    OBVIOUS
  <2>2. /\ m = EnsureScope(w, old)
        /\ i = IF old = NoScope THEN <<w.owner, m.created>> ELSE old
    BY <2>1
  <2>3. rows \in Seq(Rows) /\ Size(rows) \in Nat
    BY <2>0, <2>1, RowsOf
  <2>s. Spilled(w, m, wr, i, old, other, rows)
    BY <1>1, <1>3, <2>0, <2>1, <2>2, <2>3, Spilling
  <2>4. /\ m.error # Ok => m \in Views /\ SameMemory(w, m) /\ m.scopes = w.scopes
        /\ m.error = Ok =>
             /\ wr \in Views /\ SameMemory(w, wr) /\ WellStored(wr.scopes)
             /\ i \in Ids /\ i[1] = w.owner /\ i # other
             /\ DOMAIN wr.scopes = DOMAIN w.scopes \cup {i}
             /\ other # NoScope => wr.scopes[other] = w.scopes[other]
             /\ wr.error = Ok => ChunksOf(wr, i) = Stored(w, old) \o rows
    BY <2>s DEF Spilled
  <2>5. CASE m.error # Ok
    <3>1. r = m
      BY <1>3, <2>1, <2>5 DEF SpillUnits
    <3>2. m.scopes \in Disks /\ m.created \in Nat /\ m.error \in Codes
      BY <2>4, <2>5 DEF Views
    <3>3. /\ r \in Views /\ r.scopes = w.scopes
          /\ r.owner = w.owner /\ r.frame = w.frame /\ r.meter = w.meter /\ r.peak = w.peak
          /\ r.units = w.units /\ r.tags = w.tags /\ r.unit = w.unit /\ r.spill = w.spill
          /\ r.work = w.work /\ r.runs = w.runs /\ r.merged = w.merged
          /\ r.duplicates = w.duplicates /\ r.found = w.found
      BY <1>1, <2>4, <2>5, <3>1, <3>2, SameFields
    <3>4. Well(r)
      BY <1>1, <3>3 DEF Well, IsOwn, OwnScopes
    <3>. QED BY <2>5, <3>1, <3>3, <3>4 DEF Holding, Kept
  <2>6. CASE m.error = Ok
    <3> DEFINE x == [wr EXCEPT !.unit = i, !.units = <<>>]
    <3>1. r = Release(x, n)
      BY <1>3, <2>1, <2>6 DEF SpillUnits
    <3>2. /\ wr \in Views
          /\ wr.owner = w.owner /\ wr.frame = w.frame /\ wr.meter = w.meter /\ wr.peak = w.peak
          /\ wr.units = w.units /\ wr.tags = w.tags /\ wr.unit = w.unit /\ wr.spill = w.spill
          /\ wr.work = w.work /\ wr.runs = w.runs /\ wr.merged = w.merged
          /\ wr.duplicates = w.duplicates /\ wr.found = w.found
      <4>1. wr.scopes \in Disks /\ wr.created \in Nat /\ wr.error \in Codes
        BY <2>4, <2>6 DEF Views
      <4>. QED BY <1>1, <2>4, <2>6, <4>1, SameFields
    <3>3. /\ x \in Views /\ x.unit = i /\ x.units = <<>>
          /\ x.owner = wr.owner /\ x.frame = wr.frame /\ x.meter = wr.meter /\ x.peak = wr.peak
          /\ x.tags = wr.tags /\ x.spill = wr.spill /\ x.work = wr.work /\ x.runs = wr.runs
          /\ x.merged = wr.merged /\ x.found = wr.found /\ x.scopes = wr.scopes
          /\ x.error = wr.error
      <4>1. <<>> \in Seq(UnitRows)
        OBVIOUS
      <4>. QED BY <2>4, <2>6, <3>2, <4>1 DEF Views
    <3> HIDE DEF x
    <3>4. /\ r \in Views /\ Kept(x, r)
          /\ r.meter = IF x.meter > n THEN x.meter - n ELSE 0
          /\ r.peak = x.peak /\ r.units = x.units /\ r.tags = x.tags
          /\ r.unit = x.unit /\ r.spill = x.spill /\ r.scopes = x.scopes
          /\ r.error = x.error
      <4>1. PICK y : y = x
        OBVIOUS
      <4>2. n \in Nat /\ y \in Views /\ r = Release(y, n)
        BY <2>1, <2>3, <3>1, <3>3, <4>1
      <4>3. Released(y, n, r)
        BY <4>2, ReleaseLowers
      <4>. QED BY <4>1, <4>3 DEF Released
    <3>5. Kept(w, r)
      BY <3>2, <3>3, <3>4 DEF Kept
    <3>6. /\ r.unit = i /\ r.spill = other /\ r.units = <<>> /\ r.tags = w.tags
          /\ r.scopes = wr.scopes /\ r.peak = w.peak /\ r.error = wr.error
          /\ r.found = w.found /\ r.work = w.work /\ r.owner = w.owner
          /\ r.meter = IF w.meter > n THEN w.meter - n ELSE 0
      BY <2>1, <3>2, <3>3, <3>4, <3>5 DEF Kept
    <3>7. Well(r)
      <4>1. IsOwn(r, r.unit) /\ IsOwn(r, r.spill)
        BY <1>1, <2>1, <2>4, <2>6, <3>6 DEF IsOwn
      <4>2. old \in {NoScope, i}
        BY <2>2
      <4>3. DOMAIN r.scopes \subseteq r.found \cup OwnScopes(r)
        <5>1. i \in Ids /\ DOMAIN r.scopes = DOMAIN w.scopes \cup {i}
          BY <2>4, <2>6, <3>6
        <5>2. DOMAIN w.scopes \subseteq w.found \cup OwnScopes(w)
          BY <1>1
        <5>3. r.found = w.found /\ r.work = w.work
          BY <3>6
        <5>4. r.unit = i /\ r.spill = w.spill /\ w.unit \in {NoScope, i}
          BY <2>1, <3>6, <4>2
        <5>. QED BY <5>1, <5>2, <5>3, <5>4, OwnsMore
      <4>4. \A d \in DOMAIN r.scopes : Size(r.scopes[d].rows) <= CapacityBytes
        BY <2>4, <2>6, <3>6 DEF WellStored
      <4>. QED BY <1>1, <2>4, <2>6, <3>4, <3>6, <4>1, <4>3, <4>4 DEF Well
    <3>8. ASSUME r.error = Ok
          PROVE  /\ ListsUnits(r, us) /\ ListsTags(r, T)
                 /\ r.meter = Size(r.tags) + Size(r.units) + h
      <4>1. /\ ListsUnits(w, us) /\ ListsTags(w, T)
            /\ w.meter = Size(w.tags) + n + h
        BY <1>3, <2>1 DEF Holding
      <4>2. AllUnits(r) = AllUnits(w)
        <5>1. PICK a : a = AllUnits(w)
          OBVIOUS
        <5>2. a \in Seq(UnitRows) /\ a = Stored(w, old) \o rows
          BY <2>1, <4>1, <5>1 DEF ListsUnits, AllUnits
        <5>3. Stored(r, r.unit) = a
          BY <2>4, <2>6, <3>6, <3>8, <5>2, NoScopeIsNoId DEF Stored, ChunksOf
        <5>4. a \o <<>> = a
          BY <5>2, ConcatEmptySeq
        <5>. QED BY <3>6, <5>1, <5>3, <5>4 DEF AllUnits
      <4>3. AllTags(r) = AllTags(w)
        BY <2>1, <2>4, <2>6, <3>6 DEF AllTags, Stored
      <4>4. Size(w.tags) \in Nat /\ n \in Nat
        BY <2>0, <2>1, <2>3, RowsOf
      <4>5. r.meter = Size(w.tags) + 0 + h
        BY <3>6, <4>1, <4>4
      <4>. QED BY <3>6, <4>1, <4>2, <4>3, <4>5, SizeOfNone DEF ListsUnits, ListsTags
    <3>9. old # NoScope => i = old
      BY <2>2
    <3>. QED BY <1>3, <2>1, <3>5, <3>6, <3>7, <3>8, <3>9 DEF Holding
  <2>. QED BY <2>5, <2>6
<1>. QED BY <1>2, <1>3

-----------------------------------------------------------------------------
(* Making room *)

\* An exception leaves a validation whose scopes can all be found.
LEMMA RaiseIsWell ==
    ASSUME NEW w, Well(w), NEW code \in Codes, NEW r, r = Raise(w, code)
    PROVE  Well(r) /\ Kept(w, r) /\ r.error = code
<1>1. w \in Views
  BY DEF Well
<1>2. r = [w EXCEPT !.error = code]
  BY DEF Raise
<1>3. /\ r \in Views /\ r.error = code /\ r.scopes = w.scopes /\ r.peak = w.peak
      /\ r.spill = w.spill /\ r.unit = w.unit /\ r.owner = w.owner /\ r.frame = w.frame
      /\ r.found = w.found /\ r.work = w.work /\ r.runs = w.runs /\ r.merged = w.merged
  BY <1>1, <1>2 DEF Views
<1>. QED BY <1>3 DEF Well, IsOwn, OwnScopes, Kept

\* What is kept by two steps is kept by both.
LEMMA KeptTwice ==
    ASSUME NEW w, NEW r, NEW q, Kept(w, r), Kept(r, q)
    PROVE  Kept(w, q)
BY DEF Kept

\* Room is charged, or the bound refuses it.
LEMMA ReserveHolds ==
    ASSUME budget \in Nat, NEW T, NEW us, NEW h \in Nat, NEW n \in Nat,
           NEW w, Holding(w, T, us, h),
           NEW spilled, Holding(spilled, T, us, h), Kept(w, spilled),
           NEW r, r = Reserve(w, spilled, n)
    PROVE  /\ Holding(r, T, us, h + n)
           /\ Kept(w, r)
           /\ r.error = Ok => n <= budget
<1>1. PICK room : room = IF WouldExceed(w, n) THEN spilled ELSE w
  OBVIOUS
<1>2. Holding(room, T, us, h) /\ Kept(w, room) /\ Well(room)
  BY <1>1 DEF Kept, Holding
<1>3. CASE w.error # Ok
  <2>1. r = w
    BY <1>3 DEF Reserve
  <2>. QED BY <1>3, <2>1 DEF Holding, Kept
<1>4. CASE w.error = Ok /\ room.error # Ok
  <2>1. r = room
    BY <1>1, <1>4 DEF Reserve
  <2>. QED BY <1>2, <1>4, <2>1 DEF Holding
<1>5. CASE w.error = Ok /\ room.error = Ok /\ WouldExceed(room, n)
  <2>1. r = Raise(room, "capacity_exceeded")
    BY <1>1, <1>5 DEF Reserve
  <2>2. "capacity_exceeded" \in Codes /\ "capacity_exceeded" # Ok
    BY DEF Codes, Ok
  <2>3. Well(r) /\ Kept(room, r) /\ r.error # Ok
    BY <1>2, <2>1, <2>2, RaiseIsWell
  <2>. QED BY <1>2, <2>3, KeptTwice DEF Holding
<1>6. CASE w.error = Ok /\ room.error = Ok /\ ~WouldExceed(room, n)
  <2>1. r = Charge(room, n)
    BY <1>1, <1>6 DEF Reserve
  <2>2. /\ room \in Views /\ room.meter \in Nat /\ room.peak \in Nat /\ room.peak <= budget
        /\ room.tags \in Seq(TagRows) /\ room.units \in Seq(UnitRows)
    BY <1>2 DEF Well, Views
  <2>3. PICK m, p : /\ m = room.meter + n
                    /\ p = IF room.meter + n > room.peak THEN room.meter + n ELSE room.peak
    OBVIOUS
  <2>4. m \in Nat /\ p \in Nat /\ m <= budget /\ p <= budget /\ n <= budget
    BY <1>6, <2>2, <2>3 DEF WouldExceed
  <2>5. r = [room EXCEPT !.meter = m, !.peak = p]
    BY <2>1, <2>3 DEF Charge
  <2>6. /\ r \in Views /\ r.error = Ok /\ r.scopes = room.scopes /\ r.peak = p /\ r.meter = m
        /\ r.spill = room.spill /\ r.unit = room.unit /\ r.owner = room.owner
        /\ r.frame = room.frame /\ r.found = room.found /\ r.work = room.work
        /\ r.runs = room.runs /\ r.merged = room.merged
        /\ r.tags = room.tags /\ r.units = room.units
    BY <1>6, <2>2, <2>4, <2>5 DEF Views
  <2>7. Well(r)
    BY <1>2, <2>4, <2>6 DEF Well, IsOwn, OwnScopes
  <2>8. Kept(w, r)
    BY <1>2, <2>6 DEF Kept
  <2>9. ListsTags(r, T) /\ ListsUnits(r, us)
    BY <1>2, <1>6, <2>6 DEF Holding, ListsTags, ListsUnits, AllTags, AllUnits, Stored
  <2>10. r.meter = Size(r.tags) + Size(r.units) + (h + n)
    <3>1. room.meter = Size(room.tags) + Size(room.units) + h
      BY <1>2, <1>6 DEF Holding
    <3>2. Size(room.tags) \in Nat /\ Size(room.units) \in Nat
      BY <2>2, RowsOf
    <3>. QED BY <2>3, <2>6, <3>1, <3>2
  <2>. QED BY <2>4, <2>7, <2>8, <2>9, <2>10 DEF Holding
<1>. QED BY <1>3, <1>4, <1>5, <1>6

\* Appending to the second of two sequences appends to both.
LEMMA ConcatMore ==
    ASSUME NEW S, NEW a \in Seq(S), NEW b \in Seq(S), NEW x \in S
    PROVE  a \o Append(b, x) = Append(a \o b, x)
<1>1. PICK c, one : c = a \o b /\ one = <<x>>
  OBVIOUS
<1>2. c \in Seq(S) /\ one \in Seq(S)
  BY <1>1, ConcatProperties
<1>3. Append(b, x) = b \o one /\ Append(c, x) = c \o one
  <2>1. Append(b, x) = b \o <<x>>
    BY AppendIsConcat
  <2>2. Append(c, x) = c \o <<x>>
    BY <1>2, AppendIsConcat
  <2>3. one = <<x>>
    BY <1>1
  <2>. QED BY <2>1, <2>2, <2>3
<1>4. a \o (b \o one) = (a \o b) \o one
  <2>1. one \in Seq(S)
    BY <1>2
  <2>. QED BY <2>1, ConcatAssociative
<1>5. a \o Append(b, x) = a \o (b \o one)
  BY <1>3
<1>6. (a \o b) \o one = c \o one
  BY <1>1
<1>7. Append(a \o b, x) = Append(c, x)
  BY <1>1
<1>. QED BY <1>3, <1>4, <1>5, <1>6, <1>7

\* A list of tags keeps listing each once when one is added that is not there.
LEMMA ListsOneMore ==
    ASSUME NEW room, NEW r, NEW T, NEW row \in TagRows, row \notin T, TagSize <= budget,
           room \in Views, IsOwn(room, room.spill), ListsTags(room, T),
           r.tags = Append(room.tags, row), r.spill = room.spill, r.scopes = room.scopes
    PROVE  ListsTags(r, T \cup {row})
<1>1. PICK a, b, all : a = Stored(room, room.spill) /\ b = room.tags /\ all = AllTags(room)
  OBVIOUS
<1>2. /\ b \in Seq(TagRows) /\ all = a \o b /\ all \in Seq(TagRows)
      /\ Distinct(all) /\ Members(all) = T
  BY <1>1 DEF Views, ListsTags, AllTags
<1>3. a \in Seq(Rows)
  <2>1. CASE room.spill = NoScope
    BY <1>1, <2>1 DEF Stored
  <2>2. CASE room.spill # NoScope
    <3>1. a = ChunksOf(room, room.spill) /\ room.spill \in DOMAIN room.scopes
      BY <1>1, <2>2 DEF Stored, ChunksOf, IsOwn
    <3>. QED BY <3>1, ChunksType
  <2>. QED BY <2>1, <2>2
<1>4. b \in Seq(Rows) /\ row \in Rows
  BY <1>2, RowsOf DEF Rows
<1>5. a \o Append(b, row) = Append(all, row)
  BY <1>2, <1>3, <1>4, ConcatMore
<1>6. AllTags(r) = Append(all, row)
  BY <1>1, <1>5 DEF AllTags, Stored
<1>7. /\ Append(all, row) \in Seq(TagRows)
      /\ Members(Append(all, row)) = Members(all) \cup {row}
      /\ Distinct(Append(all, row))
  <2>1. all \in Seq(TagRows) /\ Distinct(all) /\ row \notin Members(all)
    BY <1>2
  <2>2. /\ Append(all, row) \in Seq(TagRows)
        /\ Members(Append(all, row)) = Members(all) \cup {row}
        /\ Distinct(all) /\ row \notin Members(all) => Distinct(Append(all, row))
    BY <2>1, MembersOfMore
  <2>. QED BY <2>1, <2>2
<1>. QED BY <1>2, <1>6, <1>7 DEF ListsTags

\* The tag of a row is held in memory once there is room for it, wherever the others are.
LEMMA ObserveHolds ==
    ASSUME budget \in Nat, NEW T, NEW us, NEW h \in Nat, NEW w, Holding(w, T, us, h),
           NEW rule, NEW tag, NEW sequence, NEW row,
           row = [rule |-> rule, tag |-> tag, sequence |-> sequence, size |-> TagSize],
           row \in TagRows, row \notin T,
           NEW r, r = Observe(w, rule, tag, sequence)
    PROVE  Holding(r, T \cup {row}, us, h) /\ Kept(w, r)
<1>1. PICK spilled, n, room : /\ spilled = SpillTags(w) /\ n = TagSize
                              /\ room = Reserve(w, spilled, n)
  OBVIOUS
<1>2. Holding(spilled, T, us, h) /\ Kept(w, spilled)
  BY <1>1, SpillTagsHolds
<1>3. n \in Nat
  BY <1>1, ValidationParameters
<1>4. Holding(room, T, us, h + n) /\ Kept(w, room) /\ (room.error = Ok => n <= budget)
  BY <1>1, <1>2, <1>3, ReserveHolds
<1>5. CASE room.error # Ok
  <2>1. r = room
    BY <1>1, <1>5 DEF Observe
  <2>. QED BY <1>4, <1>5, <2>1 DEF Holding
<1>6. CASE room.error = Ok
  <2>1. r = [room EXCEPT !.tags = Append(@, row)]
    BY <1>1, <1>6 DEF Observe
  <2>2. /\ Well(room) /\ room \in Views /\ ListsTags(room, T) /\ ListsUnits(room, us)
        /\ room.meter = Size(room.tags) + Size(room.units) + (h + n)
        /\ IsOwn(room, room.spill)
    BY <1>4, <1>6 DEF Holding, Well
  <2>3. PICK more : more = Append(room.tags, row)
    OBVIOUS
  <2>4. room.tags \in Seq(TagRows) /\ room.units \in Seq(UnitRows)
    BY <2>2 DEF Views
  <2>5. more \in Seq(TagRows)
    BY <2>3, <2>4
  <2>6. r = [room EXCEPT !.tags = more]
    BY <2>1, <2>3
  <2>7. /\ r \in Views /\ r.tags = more /\ r.error = Ok /\ r.scopes = room.scopes
        /\ r.peak = room.peak /\ r.meter = room.meter /\ r.units = room.units
        /\ r.spill = room.spill /\ r.unit = room.unit /\ r.owner = room.owner
        /\ r.frame = room.frame /\ r.found = room.found /\ r.work = room.work
        /\ r.runs = room.runs /\ r.merged = room.merged
    BY <1>6, <2>2, <2>5, <2>6 DEF Views
  <2>8. Well(r)
    BY <2>2, <2>7 DEF Well, IsOwn, OwnScopes
  <2>9. Kept(w, r)
    BY <1>4, <2>7 DEF Kept
  <2>10. ListsTags(r, T \cup {row})
    BY <1>1, <1>4, <1>6, <2>2, <2>3, <2>7, ListsOneMore
  <2>11. ListsUnits(r, us)
    BY <2>2, <2>7 DEF ListsUnits, AllUnits, Stored
  <2>12. r.meter = Size(r.tags) + Size(r.units) + h
    <3>1. IsSized(room.tags) /\ Size(room.tags) \in Nat /\ Size(room.units) \in Nat
      BY <2>4, RowsOf
    <3>2. row.size = n
      BY <1>1
    <3>3. Size(more) = Size(room.tags) + n
      BY <1>3, <2>3, <2>4, <3>1, <3>2, SizeOfMore
    <3>. QED BY <1>3, <2>2, <2>7, <3>1, <3>3
  <2>. QED BY <2>8, <2>9, <2>10, <2>11, <2>12 DEF Holding
<1>. QED BY <1>5, <1>6

-----------------------------------------------------------------------------
(* Observing a frame *)

\* One unique rule of a frame.
ObserveRule(u, rule, frame, sequence) ==
    IF rule \notin UniqueRules \/ UniqueKeyTag(rule, frame.values) = Null
    THEN u
    ELSE Observe(u, rule, UniqueKeyTag(rule, frame.values), sequence)

RulesCount == Len(Rules)

\* The rules are numbered from 1.
LEMMA RulesAreNumbered ==
    /\ DOMAIN Rules = 1..RulesCount /\ RulesCount \in Nat
    /\ UniqueRules \subseteq 1..RulesCount
BY ValidationInputs DEF RulesCount, UniqueRules

\* The tag of a frame under a unique rule.
LEMMA TagOfFrame ==
    ASSUME NEW frame \in FrameKinds, frame.parsed = TRUE, NEW rule \in UniqueRules,
           UniqueKeyTag(rule, frame.values) # Null
    PROVE  UniqueKeyTag(rule, frame.values) \in TagValues(rule)
<1>1. rule \in DOMAIN Rules /\ Rules[rule].kind = "unique_key"
  BY DEF UniqueRules
<1>2. PICK fields : fields = Rules[rule].fields
  OBVIOUS
<1>3. \A i \in DOMAIN fields : frame.values[fields[i]] \in {Null} \cup Int
  BY <1>1, <1>2, ValidationInputs
<1>4. ~\E i \in DOMAIN fields : frame.values[fields[i]] = Null
  BY <1>2 DEF UniqueKeyTag
<1>5. UniqueKeyTag(rule, frame.values) = [i \in DOMAIN fields |-> frame.values[fields[i]]]
  BY <1>2, <1>4 DEF UniqueKeyTag
<1>6. \A i \in DOMAIN fields : frame.values[fields[i]] \in Int
  BY <1>3, <1>4
<1>. QED BY <1>2, <1>5, <1>6 DEF TagValues

\* Observing a rule adds the tag of the row under it, if it has one.
LEMMA ObserveRuleHolds ==
    ASSUME budget \in Nat, delivery \in Seq(FrameKinds),
           NEW n \in Nat, NEW frame, n + 1 \in 1..Len(delivery), frame = delivery[n + 1],
           frame.parsed = TRUE, NEW k \in 1..RulesCount,
           NEW us, NEW h \in Nat, NEW w, Holding(w, TagsUnder(n, k - 1), us, h),
           NEW r, r = ObserveRule(w, k, frame, n)
    PROVE  Holding(r, TagsUnder(n, k), us, h) /\ Kept(w, r)
<1> DEFINE New == {row \in TagRows : row.rule = k /\ IsTagOf(row, n + 1)}
<1>0. frame \in FrameKinds /\ k \in Nat
  BY RulesAreNumbered
<1>1. TagsUnder(n, k) = TagsUnder(n, k - 1) \cup New
  <2>1. \A row \in TagRows : row.rule <= k <=> (row.rule <= k - 1 \/ row.rule = k)
    <3> SUFFICES ASSUME NEW row \in TagRows
                 PROVE  row.rule <= k <=> (row.rule <= k - 1 \/ row.rule = k)
      OBVIOUS
    <3>1. row.rule \in Nat
      BY TagRowFields
    <3>. QED BY <1>0, <3>1
  <2>2. {row \in TagRows : row.rule <= k /\ IsTagOf(row, n + 1)}
          = {row \in TagRows : row.rule <= k - 1 /\ IsTagOf(row, n + 1)} \cup New
    <3> HIDE DEF IsTagOf
    <3>. QED BY <2>1
  <2> HIDE DEF New
  <2>. QED BY <2>2 DEF TagsUnder
<1>2. CASE k \notin UniqueRules \/ UniqueKeyTag(k, frame.values) = Null
  <2>1. r = w
    BY <1>2 DEF ObserveRule
  <2>2. New = {}
    <3> SUFFICES ASSUME NEW row \in TagRows, row.rule = k, IsTagOf(row, n + 1) PROVE FALSE
      OBVIOUS
    <3>1. row.rule \in UniqueRules
      BY TagRowFields
    <3>. QED BY <1>2, <3>1 DEF IsTagOf
  <2>3. TagsUnder(n, k) = TagsUnder(n, k - 1)
    <3> HIDE DEF New
    <3>. QED BY <1>1, <2>2
  <2>. QED BY <2>1, <2>3 DEF Kept
<1>3. CASE k \in UniqueRules /\ UniqueKeyTag(k, frame.values) # Null
  <2>1. PICK tag, row, T : /\ tag = UniqueKeyTag(k, frame.values)
                           /\ row = [rule |-> k, tag |-> tag, sequence |-> n, size |-> TagSize]
                           /\ T = TagsUnder(n, k - 1)
    OBVIOUS
  <2>2. tag \in TagValues(k) /\ tag # Null
    BY <1>0, <1>3, <2>1, TagOfFrame
  <2>3. row \in TagRows
    BY <1>3, <2>1, <2>2 DEF TagRows
  <2>4. /\ row.rule = k /\ row.tag = tag /\ row.sequence = n
    BY <2>1
  <2>5. IsTagOf(row, n + 1)
    BY <2>1, <2>2, <2>4 DEF IsTagOf
  <2>6. New = {row}
    <3> SUFFICES ASSUME NEW x \in TagRows, x.rule = k, IsTagOf(x, n + 1) PROVE x = row
      BY <2>3, <2>4, <2>5
    <3>1. x.sequence = n /\ x.tag = tag
      BY <2>1 DEF IsTagOf
    <3>2. x.size = TagSize
           /\ x = [rule |-> x.rule, tag |-> x.tag, sequence |-> x.sequence, size |-> x.size]
      BY TagRowFields
    <3>. QED BY <2>1, <3>1, <3>2
  <2>7. row \notin T
    <3>1. ASSUME NEW i \in 1..n PROVE ~IsTagOf(row, i)
      <4>1. n # i - 1
        OBVIOUS
      <4>. QED BY <2>4, <4>1 DEF IsTagOf
    <3>2. ~(k <= k - 1)
      BY <1>0
    <3>. QED BY <2>1, <2>4, <3>1, <3>2 DEF TagsUnder, TagsOf
  <2>8. r = Observe(w, k, tag, n)
    BY <1>3, <2>1 DEF ObserveRule
  <2>9. Holding(w, T, us, h)
    BY <2>1
  <2>10. Holding(r, T \cup {row}, us, h) /\ Kept(w, r)
    BY <2>1, <2>3, <2>7, <2>8, <2>9, ObserveHolds
  <2>11. TagsUnder(n, k) = T \cup {row}
    <3> HIDE DEF New
    <3>. QED BY <1>1, <2>1, <2>6
  <2>. QED BY <2>10, <2>11
<1>. QED BY <1>2, <1>3

ObserveLoop(g, w, frame, sequence) ==
    g = [r \in 0..RulesCount |->
           IF r = 0 THEN w ELSE ObserveRule(g[r - 1], r, frame, sequence)]

IsObserved(g, w, frame, sequence, n) ==
    /\ g \in [0..n -> Views] /\ g[0] = w
    /\ \A r \in 1..n : ObserveRule(g[r - 1], r, frame, sequence) \in Views
                         => g[r] = ObserveRule(g[r - 1], r, frame, sequence)

\* The rules are observed one by one, as long as each leaves a validation.
LEMMA ObserveExists ==
    ASSUME NEW w \in Views, NEW frame, NEW sequence, NEW n \in Nat
    PROVE  \E g : IsObserved(g, w, frame, sequence, n)
<1> DEFINE Do(u, r) == ObserveRule(u, r, frame, sequence)
           F == [r \in 1..n |-> [u \in Views |-> IF Do(u, r) \in Views THEN Do(u, r) ELSE u]]
<1>1. F \in [1..n -> [Views -> Views]]
  <2> HIDE DEF Do
  <2>. QED OBVIOUS
<1>2. PICK N, z, G : N = Views /\ z = w /\ G = F
  OBVIOUS
<1>3. G \in [1..n -> [N -> N]] /\ z \in N
  BY <1>1, <1>2
<1>g. PICK g : IsLoop(g, N, z, n, G)
  BY <1>3, LoopExists
<1>4. g \in [0..n -> N] /\ g[0] = z /\ \A i \in 1..n : g[i] = G[i][g[i - 1]]
  BY <1>g DEF IsLoop
<1>5. ASSUME NEW r \in 1..n, Do(g[r - 1], r) \in Views PROVE g[r] = Do(g[r - 1], r)
  <2>1. G[r] = [u \in Views |-> IF Do(u, r) \in Views THEN Do(u, r) ELSE u]
    BY <1>2
  <2>2. r - 1 \in 0..n
    OBVIOUS
  <2>3. g[r - 1] \in Views
    BY <1>2, <1>4, <2>2
  <2> HIDE DEF F, Do
  <2>. QED BY <1>4, <1>5, <2>1, <2>3
<1>. QED BY <1>2, <1>4, <1>5 DEF IsObserved

\* What observing all the unique rules of a parsed frame does.
LEMMA ObserveKeysHolds ==
    ASSUME budget \in Nat, delivery \in Seq(FrameKinds),
           NEW n \in Nat, NEW frame, n + 1 \in 1..Len(delivery), frame = delivery[n + 1],
           NEW us, NEW h \in Nat, NEW w, Holding(w, TagsOf(n), us, h),
           NEW r, r = ObserveKeys(w, frame, n)
    PROVE  Holding(r, TagsOf(n + 1), us, h) /\ Kept(w, r)
<1>0. RulesCount \in Nat /\ w \in Views /\ frame \in FrameKinds
  BY RulesAreNumbered DEF Holding, Well
<1>1. /\ TagsUnder(n, 0) = TagsOf(n)
      /\ TagsUnder(n, RulesCount) = TagsOf(n + 1)
  <2>1. ASSUME NEW row \in TagRows PROVE row.rule <= RulesCount /\ ~(row.rule <= 0)
    <3>1. row.rule \in 1..RulesCount
      BY TagRowFields, RulesAreNumbered
    <3>. QED BY <1>0, <3>1
  <2>2. {row \in TagRows : row.rule <= 0 /\ IsTagOf(row, n + 1)} = {}
    <3> HIDE DEF IsTagOf
    <3>. QED BY <2>1
  <2>3. \A i \in 1..(n + 1) : i \in 1..n \/ i = n + 1
    OBVIOUS
  <2>4. (\A i \in 1..n : i \in 1..(n + 1)) /\ n + 1 \in 1..(n + 1)
    OBVIOUS
  <2>5. \A row \in TagRows : (\E i \in 1..(n + 1) : IsTagOf(row, i))
                               <=> (\E i \in 1..n : IsTagOf(row, i)) \/ IsTagOf(row, n + 1)
    <3> HIDE DEF IsTagOf
    <3>. QED BY <2>3, <2>4
  <2>6. TagsOf(n + 1) = TagsOf(n) \cup {row \in TagRows : IsTagOf(row, n + 1)}
    <3> HIDE DEF IsTagOf
    <3>. QED BY <2>5 DEF TagsOf
  <2>7. {row \in TagRows : row.rule <= RulesCount /\ IsTagOf(row, n + 1)}
          = {row \in TagRows : IsTagOf(row, n + 1)}
    <3> HIDE DEF IsTagOf
    <3>. QED BY <2>1
  <2>. QED BY <2>2, <2>6, <2>7 DEF TagsUnder
<1>2. CASE ~frame.parsed
  <2>1. r = w
    BY <1>2 DEF ObserveKeys
  <2>2. TagsOf(n + 1) = TagsOf(n)
    <3>1. \A row : ~IsTagOf(row, n + 1)
      BY <1>2 DEF IsTagOf
    <3>2. {row \in TagRows : row.rule <= RulesCount /\ IsTagOf(row, n + 1)} = {}
      BY <3>1
    <3>. QED BY <1>1, <3>2 DEF TagsUnder
  <2>. QED BY <2>1, <2>2 DEF Kept
<1>3. CASE frame.parsed
  <2>0. frame.parsed = TRUE
    BY <1>0, <1>3, ValidationInputs
  <2> DEFINE after == CHOOSE g : ObserveLoop(g, w, frame, n)
             Do(u, k) == ObserveRule(u, k, frame, n)
             Good(u, k) == Holding(u, TagsUnder(n, k), us, h) /\ Kept(w, u)
  <2>1. r = after[RulesCount]
    BY <1>3 DEF ObserveKeys, ObserveLoop, ObserveRule, RulesCount
  <2>2. ASSUME NEW u, NEW k \in 1..RulesCount, Good(u, k - 1)
        PROVE  Good(Do(u, k), k) /\ Do(u, k) \in Views
    <3>1. PICK q : q = Do(u, k)
      OBVIOUS
    <3>2. Holding(q, TagsUnder(n, k), us, h) /\ Kept(u, q)
      BY <2>0, <2>2, <3>1, ObserveRuleHolds
    <3>3. Kept(w, q) /\ q \in Views
      BY <2>2, <3>2, KeptTwice DEF Holding, Well
    <3>. QED BY <3>1, <3>2, <3>3
  <2>3. Good(w, 0)
    BY <1>1 DEF Kept
  <2> HIDE DEF Good, Do, after
  <2>4. \E g : ObserveLoop(g, w, frame, n)
    <3>g. PICK g : IsObserved(g, w, frame, n, RulesCount)
      BY <1>0, ObserveExists
    <3>1. /\ g \in [0..RulesCount -> Views] /\ g[0] = w
          /\ \A k \in 1..RulesCount : ObserveRule(g[k - 1], k, frame, n) \in Views
                                       => g[k] = ObserveRule(g[k - 1], k, frame, n)
      BY <3>g DEF IsObserved
    <3>2. \A k \in 1..RulesCount : Do(g[k - 1], k) \in Views => g[k] = Do(g[k - 1], k)
      BY <3>1 DEF Do
    <3> DEFINE T == {k \in 0..RulesCount : Good(g[k], k) /\ (k > 0 => g[k] = Do(g[k - 1], k))}
    <3>3. 0 \in T
      BY <1>0, <2>3, <3>1
    <3>4. ASSUME NEW k \in 1..RulesCount, k - 1 \in T PROVE k \in T
      <4>1. Good(g[k - 1], k - 1) /\ k \in 0..RulesCount
        BY <1>0, <3>4
      <4>2. Good(Do(g[k - 1], k), k) /\ Do(g[k - 1], k) \in Views
        BY <2>2, <4>1
      <4>. QED BY <3>2, <4>1, <4>2
    <3>5. \A k \in 0..RulesCount : k \in T
      <4> HIDE DEF T
      <4>. QED BY <1>0, <3>3, <3>4, UpToInduction
    <3> DEFINE Step(k) == IF k = 0 THEN w ELSE Do(g[k - 1], k)
    <3>6. \A k \in 0..RulesCount : g[k] = Step(k)
      <4>1. \A k \in 0..RulesCount : k = 0 \/ k > 0
        BY <1>0
      <4>. QED BY <3>1, <3>5, <4>1
    <3>7. g = [k \in 0..RulesCount |-> g[k]]
      BY <3>1
    <3>8. g = [k \in 0..RulesCount |-> Step(k)]
      <4> HIDE DEF Step
      <4>. QED BY <3>6, <3>7
    <3>9. ObserveLoop(g, w, frame, n)
      BY <3>8 DEF ObserveLoop, Do
    <3>. QED BY <3>9
  <2>5. ObserveLoop(after, w, frame, n)
    BY <2>4 DEF after
  <2>6. after[0] = w /\ \A k \in 1..RulesCount : after[k] = Do(after[k - 1], k)
    BY <1>0, <2>5 DEF ObserveLoop, Do
  <2> DEFINE T == {k \in 0..RulesCount : Good(after[k], k)}
  <2>7. 0 \in T
    BY <1>0, <2>3, <2>6
  <2>8. ASSUME NEW k \in 1..RulesCount, k - 1 \in T PROVE k \in T
    <3>1. Good(after[k - 1], k - 1) /\ k \in 0..RulesCount
      BY <1>0, <2>8
    <3>. QED BY <2>2, <2>6, <3>1
  <2>9. \A k \in 0..RulesCount : k \in T
    <3> HIDE DEF T
    <3>. QED BY <1>0, <2>7, <2>8, UpToInduction
  <2>10. Good(r, RulesCount)
    <3>1. RulesCount \in 0..RulesCount
      BY <1>0
    <3>. QED BY <2>1, <2>9, <3>1
  <2>. QED BY <1>1, <2>10 DEF Good
<1>. QED BY <1>2, <1>3

-----------------------------------------------------------------------------
(* The unit of a frame *)

\* The findings of a field are numbered rules with a violation.
LEMMA FieldFindingType ==
    ASSUME NEW r \in DOMAIN Rules, NEW values
    PROVE  FieldFinding(r, values) \subseteq Nat \X Violations
<1>1. r \in Nat
  BY ValidationInputs
<1>2. \A code \in Violations : {<<r, code>>} \subseteq Nat \X Violations
  BY <1>1
<1>3. /\ {<<r, "null_not_allowed">>} \subseteq Nat \X Violations
      /\ {<<r, "accepted_value_violation">>} \subseteq Nat \X Violations
      /\ {<<r, "range_violation">>} \subseteq Nat \X Violations
  BY <1>2 DEF Violations
<1>4. FieldFinding(r, values) \in {{}, {<<r, "null_not_allowed">>},
                                   {<<r, "accepted_value_violation">>}, {<<r, "range_violation">>}}
  BY ZenonT(30) DEF FieldFinding
<1>. QED BY <1>3, <1>4

\* The findings of a frame are numbered rules with a violation.
LEMMA RuleFindingsType ==
    ASSUME NEW frame
    PROVE  RuleFindings(frame) \subseteq Nat \X Violations
<1>1. FieldFindings(frame.values) \subseteq Nat \X Violations
  BY FieldFindingType DEF FieldFindings
<1>2. ASSUME NEW r \in UniqueRules PROVE <<r, "null_not_allowed">> \in Nat \X Violations
  BY ValidationInputs DEF UniqueRules, Violations
<1>3. {<<r, "null_not_allowed">> :
         r \in {q \in UniqueRules : UniqueKeyTag(q, frame.values) = Null}} \subseteq Nat \X Violations
  BY <1>2
<1>. QED BY <1>1, <1>3 DEF RuleFindings

\* The unit of a frame is a unit row.
LEMMA UnitOfFrame ==
    ASSUME NEW frame \in FrameKinds, NEW sequence \in Nat
    PROVE  UnitOf(frame, sequence) \in UnitRows
<1>1. frame.parsed \in BOOLEAN
  BY ValidationInputs
<1>2. PICK f : f = RuleFindings(frame)
  OBVIOUS
<1>3. f \in SUBSET (Nat \X Violations)
  BY <1>2, RuleFindingsType
<1>. QED BY <1>1, <1>2, <1>3 DEF UnitOf, UnitRows

\* A list of units keeps its order when one is added at its end.
LEMMA ListsOneUnitMore ==
    ASSUME NEW room, NEW r, NEW us, NEW row \in UnitRows, UnitSize <= budget,
           room \in Views, IsOwn(room, room.unit), ListsUnits(room, us),
           r.units = Append(room.units, row), r.unit = room.unit, r.scopes = room.scopes
    PROVE  ListsUnits(r, Append(us, row))
<1>1. PICK a, b, all : a = Stored(room, room.unit) /\ b = room.units /\ all = AllUnits(room)
  OBVIOUS
<1>2. b \in Seq(UnitRows) /\ all = a \o b /\ all \in Seq(UnitRows)
  BY <1>1 DEF Views, ListsUnits, AllUnits
<1>u. all = us
  BY <1>1 DEF ListsUnits
<1>3. a \in Seq(Rows)
  <2>1. CASE room.unit = NoScope
    BY <1>1, <2>1 DEF Stored
  <2>2. CASE room.unit # NoScope
    <3>1. a = ChunksOf(room, room.unit) /\ room.unit \in DOMAIN room.scopes
      BY <1>1, <2>2 DEF Stored, ChunksOf, IsOwn
    <3>. QED BY <3>1, ChunksType
  <2>. QED BY <2>1, <2>2
<1>4. b \in Seq(Rows) /\ row \in Rows
  BY <1>2, RowsOf DEF Rows
<1>5. a \o Append(b, row) = Append(all, row)
  BY <1>2, <1>3, <1>4, ConcatMore
<1>6. AllUnits(r) = Append(all, row)
  BY <1>1, <1>5 DEF AllUnits, Stored
<1>7. Append(all, row) \in Seq(UnitRows)
  BY <1>2
<1>. QED BY <1>u, <1>6, <1>7 DEF ListsUnits

\* The unit of a frame comes after the units of the frames before it.
LEMMA AddUnitHolds ==
    ASSUME budget \in Nat, NEW T, NEW us, NEW h \in Nat, NEW w, Holding(w, T, us, h),
           NEW frame \in FrameKinds, NEW sequence \in Nat,
           NEW r, r = AddUnit(w, frame, sequence)
    PROVE  Holding(r, T, Append(us, UnitOf(frame, sequence)), h) /\ Kept(w, r)
<1>1. PICK spilled, n, room, row : /\ spilled = SpillUnits(w) /\ n = UnitSize
                                   /\ room = Reserve(w, spilled, n)
                                   /\ row = UnitOf(frame, sequence)
  OBVIOUS
<1>2. Holding(spilled, T, us, h) /\ Kept(w, spilled)
  BY <1>1, SpillUnitsHolds
<1>3. n \in Nat /\ row \in UnitRows /\ row.size = n
  BY <1>1, ValidationParameters, UnitOfFrame DEF UnitOf
<1>4. Holding(room, T, us, h + n) /\ Kept(w, room) /\ (room.error = Ok => n <= budget)
  <2>1. room = Reserve(w, spilled, n) /\ n \in Nat
    BY <1>1, <1>3
  <2>. QED BY <1>2, <2>1, ReserveHolds
<1>5. CASE room.error # Ok
  <2>1. r = room
    BY <1>1, <1>5 DEF AddUnit
  <2>. QED BY <1>4, <1>5, <2>1 DEF Holding
<1>6. CASE room.error = Ok
  <2>1. r = [room EXCEPT !.units = Append(@, row)]
    BY <1>1, <1>6 DEF AddUnit, UnitOf
  <2>2. /\ Well(room) /\ room \in Views /\ ListsTags(room, T) /\ ListsUnits(room, us)
        /\ room.meter = Size(room.tags) + Size(room.units) + (h + n)
        /\ IsOwn(room, room.unit)
    BY <1>4, <1>6 DEF Holding, Well
  <2>3. PICK more : more = Append(room.units, row)
    OBVIOUS
  <2>4. room.tags \in Seq(TagRows) /\ room.units \in Seq(UnitRows)
    BY <2>2 DEF Views
  <2>5. more \in Seq(UnitRows)
    BY <1>3, <2>3, <2>4
  <2>6. r = [room EXCEPT !.units = more]
    BY <2>1, <2>3
  <2>7. /\ r \in Views /\ r.units = more /\ r.error = Ok /\ r.scopes = room.scopes
        /\ r.peak = room.peak /\ r.meter = room.meter /\ r.tags = room.tags
        /\ r.spill = room.spill /\ r.unit = room.unit /\ r.owner = room.owner
        /\ r.frame = room.frame /\ r.found = room.found /\ r.work = room.work
        /\ r.runs = room.runs /\ r.merged = room.merged
    BY <1>6, <2>2, <2>5, <2>6 DEF Views
  <2>8. Well(r)
    BY <2>2, <2>7 DEF Well, IsOwn, OwnScopes
  <2>9. Kept(w, r)
    BY <1>4, <2>7 DEF Kept
  <2>10. ListsUnits(r, Append(us, row))
    BY <1>1, <1>3, <1>4, <1>6, <2>2, <2>3, <2>7, ListsOneUnitMore
  <2>11. ListsTags(r, T)
    BY <2>2, <2>7 DEF ListsTags, AllTags, Stored
  <2>12. r.meter = Size(r.tags) + Size(r.units) + h
    <3>1. IsSized(room.units) /\ Size(room.tags) \in Nat /\ Size(room.units) \in Nat
      BY <2>4, RowsOf
    <3>3. Size(more) = Size(room.units) + n
      BY <1>3, <2>3, <2>4, <3>1, SizeOfMore
    <3>. QED BY <1>3, <2>2, <2>7, <3>1, <3>3
  <2>. QED BY <1>1, <2>8, <2>9, <2>10, <2>11, <2>12 DEF Holding
<1>. QED BY <1>5, <1>6

\* What was reserved for the frame is let go of.
LEMMA ReleaseHolds ==
    ASSUME NEW T, NEW us, NEW n \in Nat, NEW w, Holding(w, T, us, 0 + n),
           NEW r, r = Release(w, n)
    PROVE  Holding(r, T, us, 0) /\ Kept(w, r)
<1>1. w \in Views /\ w.tags \in Seq(TagRows) /\ w.units \in Seq(UnitRows)
  BY DEF Holding, Well, Views
<1>2. Released(w, n, r)
  BY <1>1, ReleaseLowers
<1>3. /\ r \in Views /\ Kept(w, r)
      /\ r.meter = IF w.meter > n THEN w.meter - n ELSE 0
      /\ r.peak = w.peak /\ r.tags = w.tags /\ r.units = w.units
      /\ r.spill = w.spill /\ r.unit = w.unit /\ r.scopes = w.scopes
      /\ r.error = w.error
      /\ r.owner = w.owner /\ r.found = w.found /\ r.work = w.work
  BY <1>2 DEF Released, Kept
<1>4. Well(r)
  BY <1>3 DEF Holding, Well, IsOwn, OwnScopes
<1>5. ASSUME r.error = Ok
      PROVE  ListsTags(r, T) /\ ListsUnits(r, us) /\ r.meter = Size(r.tags) + Size(r.units) + 0
  <2>1. ListsTags(w, T) /\ ListsUnits(w, us) /\ w.meter = Size(w.tags) + Size(w.units) + (0 + n)
    BY <1>3, <1>5 DEF Holding
  <2>2. Size(w.tags) \in Nat /\ Size(w.units) \in Nat
    BY <1>1, RowsOf
  <2>3. ListsTags(r, T) /\ ListsUnits(r, us)
    BY <1>3, <2>1 DEF ListsTags, ListsUnits, AllTags, AllUnits, Stored
  <2>. QED BY <1>3, <2>1, <2>2, <2>3
<1>. QED BY <1>3, <1>4, <1>5 DEF Holding

\* The units of one more frame are those before and its own.
LEMMA UnitsOneMore ==
    ASSUME NEW n \in Nat
    PROVE  UnitsUpTo(n + 1) = Append(UnitsUpTo(n), UnitOf(delivery[n + 1], n))
<1>1. PICK a, x : a = UnitsUpTo(n) /\ x = UnitOf(delivery[n + 1], n)
  OBVIOUS
<1>2. PICK N : N = {UnitOf(delivery[i], i - 1) : i \in 1..n} \cup {x}
  OBVIOUS
<1>3. a \in Seq(N) /\ Len(a) = n /\ x \in N
  BY <1>1, <1>2 DEF UnitsUpTo
<1>4. PICK b : b = Append(a, x)
  OBVIOUS
<1>5. /\ b \in Seq(N) /\ Len(b) = n + 1 /\ b[n + 1] = x
      /\ \A i \in 1..n : b[i] = a[i]
  BY <1>3, <1>4
<1>6. b = [i \in 1..(n + 1) |-> b[i]]
  BY <1>5
<1>7. \A i \in 1..(n + 1) : b[i] = UnitOf(delivery[i], i - 1)
  <2> SUFFICES ASSUME NEW i \in 1..(n + 1) PROVE b[i] = UnitOf(delivery[i], i - 1)
    OBVIOUS
  <2>1. CASE i = n + 1
    <3>1. i - 1 = n
      BY <2>1
    <3>. QED BY <1>1, <1>5, <2>1, <3>1
  <2>2. CASE i # n + 1
    <3>1. i \in 1..n
      BY <2>2
    <3>2. a[i] = UnitOf(delivery[i], i - 1)
      BY <1>1, <3>1 DEF UnitsUpTo
    <3>. QED BY <1>5, <3>1, <3>2
  <2>. QED BY <2>1, <2>2
<1>8. UnitsUpTo(n + 1) = [i \in 1..(n + 1) |-> UnitOf(delivery[i], i - 1)]
  BY DEF UnitsUpTo
<1>9. b = UnitsUpTo(n + 1)
  <2> HIDE DEF UnitOf
  <2>. QED BY <1>6, <1>7, <1>8
<1>. QED BY <1>1, <1>4, <1>9

\* One frame of the loop.
LEMMA ValidateOneHolds ==
    ASSUME budget \in Nat, delivery \in Seq(FrameKinds),
           NEW n \in Nat, NEW frame, n + 1 \in 1..Len(delivery), frame = delivery[n + 1],
           NEW w, Holding(w, TagsOf(n), UnitsUpTo(n), 0),
           NEW r, r = ValidateOne(w, frame, n)
    PROVE  Holding(r, TagsOf(n + 1), UnitsUpTo(n + 1), 0) /\ Kept(w, r)
<1>1. PICK T, us, N, vs, size, a, b, held :
         /\ T = TagsOf(n) /\ us = UnitsUpTo(n) /\ N = TagsOf(n + 1) /\ vs = UnitsUpTo(n + 1)
         /\ size = frame.size /\ a = SpillTags(w) /\ b = SpillUnits(a)
         /\ held = Reserve(w, b, size)
  OBVIOUS
<1>2. frame \in FrameKinds /\ size \in Nat /\ vs = Append(us, UnitOf(frame, n))
  <2>1. frame \in FrameKinds
    OBVIOUS
  <2>. QED BY <1>1, <2>1, UnitsOneMore, ValidationInputs
<1>3. Holding(w, T, us, 0)
  BY <1>1
<1>4. Holding(a, T, us, 0) /\ Kept(w, a)
  BY <1>1, <1>3, SpillTagsHolds
<1>5. Holding(b, T, us, 0) /\ Kept(a, b)
  BY <1>1, <1>4, SpillUnitsHolds
<1>6. Kept(w, b)
  BY <1>4, <1>5, KeptTwice
<1>7. Holding(held, T, us, 0 + size) /\ Kept(w, held)
  BY <1>1, <1>2, <1>3, <1>5, <1>6, ReserveHolds
<1>8. r = ValidateHeld(held, frame, n)
  BY <1>1 DEF ValidateOne
<1>9. CASE held.error # Ok
  <2>1. r = held
    BY <1>8, <1>9 DEF ValidateHeld
  <2>. QED BY <1>7, <1>9, <2>1 DEF Holding
<1>10. CASE held.error = Ok
  <2>1. PICK observed, left, k : /\ observed = ObserveKeys(held, frame, n)
                                 /\ left = Release(observed, size) /\ k = 0 + size
    OBVIOUS
  <2>2. r = AddUnit(left, frame, n)
    BY <1>1, <1>8, <1>10, <2>1 DEF ValidateHeld
  <2>3. k \in Nat /\ Holding(held, TagsOf(n), us, k)
    BY <1>1, <1>2, <1>7, <2>1
  <2>4. Holding(observed, TagsOf(n + 1), us, k) /\ Kept(held, observed)
    BY <2>1, <2>3, ObserveKeysHolds
  <2>5. Holding(observed, N, us, 0 + size)
    BY <1>1, <2>1, <2>4
  <2>6. Holding(left, N, us, 0) /\ Kept(observed, left)
    BY <1>2, <2>1, <2>5, ReleaseHolds
  <2>7. Holding(r, N, Append(us, UnitOf(frame, n)), 0) /\ Kept(left, r)
    BY <1>2, <2>2, <2>6, AddUnitHolds
  <2>8. Kept(w, r)
    <3>1. Kept(w, observed)
      BY <1>7, <2>4, KeptTwice
    <3>2. Kept(w, left)
      BY <2>6, <3>1, KeptTwice
    <3>. QED BY <2>7, <3>2, KeptTwice
  <2>. QED BY <1>1, <1>2, <2>7, <2>8
<1>. QED BY <1>9, <1>10

-----------------------------------------------------------------------------
(* The scopes of the sort *)

\* Memory is held as before, and the scopes added are remembered.
Grown(w, r) ==
    /\ r \in Views
    /\ r.owner = w.owner /\ r.meter = w.meter /\ r.peak = w.peak /\ r.found = w.found
    /\ r.tags = w.tags /\ r.units = w.units /\ r.spill = w.spill /\ r.unit = w.unit
    /\ DOMAIN w.scopes \subseteq DOMAIN r.scopes
    /\ DOMAIN r.scopes \subseteq DOMAIN w.scopes \cup r.work
    /\ w.work \subseteq r.work
    /\ \A x \in DOMAIN w.scopes : ChunksOf(r, x) = ChunksOf(w, x)
    /\ WellStored(w.scopes) => WellStored(r.scopes)
    /\ r.error = Ok => w.error = Ok

\* Scopes made by the sort disturb nothing that scratch and memory list.
LEMMA GrownHolds ==
    ASSUME NEW T, NEW us, NEW h, NEW w, Holding(w, T, us, h), NEW r, Grown(w, r)
    PROVE  Holding(r, T, us, h)
<1>1. /\ w \in Views /\ IsOwn(w, w.spill) /\ IsOwn(w, w.unit)
      /\ w.peak <= budget /\ (w.spill # NoScope => w.spill # w.unit)
      /\ DOMAIN w.scopes \subseteq w.found \cup OwnScopes(w)
      /\ WellStored(w.scopes)
  BY DEF Holding, Well, WellStored
<1>2. /\ r \in Views /\ WellStored(r.scopes)
      /\ r.owner = w.owner /\ r.meter = w.meter /\ r.peak = w.peak /\ r.found = w.found
      /\ r.tags = w.tags /\ r.units = w.units /\ r.spill = w.spill /\ r.unit = w.unit
      /\ DOMAIN w.scopes \subseteq DOMAIN r.scopes
      /\ \A x \in DOMAIN w.scopes : ChunksOf(r, x) = ChunksOf(w, x)
  BY <1>1 DEF Grown
<1>3. IsOwn(r, r.spill) /\ IsOwn(r, r.unit)
  BY <1>1, <1>2 DEF IsOwn
<1>4. DOMAIN r.scopes \subseteq r.found \cup OwnScopes(r)
  <2>1. r.work \subseteq Ids
    BY <1>2 DEF Views
  <2>2. NoScope \notin r.work
    BY <2>1, NoScopeIsNoId
  <2>3. OwnScopes(w) \subseteq OwnScopes(r) /\ r.work \subseteq OwnScopes(r)
    BY <2>2, <1>2 DEF OwnScopes, Grown
  <2>. QED BY <1>1, <1>2, <2>3 DEF Grown
<1>5. Well(r)
  BY <1>1, <1>2, <1>3, <1>4 DEF Well, WellStored
<1>6. ASSUME r.error = Ok
      PROVE  ListsTags(r, T) /\ ListsUnits(r, us) /\ r.meter = Size(r.tags) + Size(r.units) + h
  <2>1. w.error = Ok
    BY <1>6 DEF Grown
  <2>2. ListsTags(w, T) /\ ListsUnits(w, us) /\ w.meter = Size(w.tags) + Size(w.units) + h
    BY <2>1 DEF Holding
  <2>3. Stored(r, r.spill) = Stored(w, w.spill) /\ Stored(r, r.unit) = Stored(w, w.unit)
    BY <1>1, <1>2 DEF Stored, ChunksOf, IsOwn
  <2>4. AllTags(r) = AllTags(w) /\ AllUnits(r) = AllUnits(w)
    BY <1>2, <2>3 DEF AllTags, AllUnits
  <2>. QED BY <1>2, <2>2, <2>4 DEF ListsTags, ListsUnits
<1>. QED BY <1>5, <1>6 DEF Holding

\* A stretch that was written stays what it is.
LEMMA GrownRuns ==
    ASSUME NEW w, NEW r, Grown(w, r), NEW run, run[1] \in DOMAIN w.scopes
    PROVE  RunRows(r, run) = RunRows(w, run) /\ run[1] \in DOMAIN r.scopes
<1>1. ChunksOf(r, run[1]) = ChunksOf(w, run[1]) /\ run[1] \in DOMAIN r.scopes
  BY DEF Grown
<1>. QED BY <1>1 DEF RunRows, ChunksOf

\* A scope that cannot be made leaves the others.
LEMMA CreateScopeGrows ==
    ASSUME NEW w \in Views, NEW made, made = CreateScope(w, w.owner), made.error # Ok
    PROVE  Grown(w, made)
<1>1. PICK id : id = <<w.owner, made.created>>
  OBVIOUS
<1>2. made \in Views /\ SameMemory(w, made) /\ made.scopes = w.scopes
  BY <1>1, CreateScopeMakes
<1>3. made.scopes \in Disks /\ made.created \in Nat /\ made.error \in Codes
  BY <1>2 DEF Views
<1>4. /\ made.owner = w.owner /\ made.meter = w.meter /\ made.peak = w.peak
      /\ made.tags = w.tags /\ made.units = w.units /\ made.spill = w.spill /\ made.unit = w.unit
      /\ made.work = w.work /\ made.found = w.found
  BY <1>2, <1>3, SameFields
<1>. QED BY <1>2, <1>4 DEF Grown, ChunksOf

\* The scope that rows were written to and that was closed after them.
SortScoped(w, closed, id, rows) ==
    /\ closed \in Views
    /\ id \in Ids /\ id \notin DOMAIN w.scopes /\ w.error = Ok
    /\ DOMAIN closed.scopes = DOMAIN w.scopes \cup {id}
    /\ \A x \in DOMAIN w.scopes : ChunksOf(closed, x) = ChunksOf(w, x)
    /\ closed.error = Ok => ChunksOf(closed, id) = rows
    /\ WellStored(w.scopes) => WellStored(closed.scopes)
    /\ closed.owner = w.owner /\ closed.meter = w.meter /\ closed.peak = w.peak
    /\ closed.tags = w.tags /\ closed.units = w.units /\ closed.spill = w.spill
    /\ closed.unit = w.unit /\ closed.work = w.work /\ closed.found = w.found
    /\ closed.runs = w.runs /\ closed.merged = w.merged

\* A scope of the sort is made, written and closed, and holds the rows written.
LEMMA SortScopes ==
    ASSUME NEW w \in Views, NEW made, made = CreateScope(w, w.owner), made.error = Ok,
           NEW id, id = <<w.owner, made.created>>, NEW rows \in Seq(Rows),
           NEW closed, closed = CloseScope(WriteRows(made, w.owner, id, 0, rows), w.owner, id)
    PROVE  SortScoped(w, closed, id, rows)
<1>1. /\ made \in Views /\ SameMemory(w, made)
      /\ WellStored(w.scopes) => WellStored(made.scopes)
      /\ w.error = Ok /\ id \in Ids /\ id \notin DOMAIN w.scopes
      /\ DOMAIN made.scopes = DOMAIN w.scopes \cup {id}
      /\ \A x \in DOMAIN w.scopes : made.scopes[x] = w.scopes[x]
      /\ ChunksOf(made, id) = <<>>
  BY CreateScopeMakes
<1>2. PICK owner, zero, written : /\ owner = w.owner /\ zero = 0
                                  /\ written = WriteRows(made, owner, id, zero, rows)
  OBVIOUS
<1>3. Wrote(made, written, id, rows)
  BY <1>1, <1>2, WriteAll
<1>4. /\ Extends(made, written, id)
      /\ written.error = Ok => ChunksOf(written, id) = rows
  <2>1. id \in DOMAIN made.scopes
    BY <1>1
  <2>2. <<>> \o rows = rows
    BY ConcatEmptySeq
  <2>. QED BY <1>1, <1>3, <2>1, <2>2 DEF Wrote
<1>5. closed = CloseScope(written, owner, id) /\ written \in Views
  BY <1>2, <1>4 DEF Extends
<1>6. /\ Extends(written, closed, id)
      /\ \A x \in DOMAIN written.scopes : ChunksOf(closed, x) = ChunksOf(written, x)
      /\ closed.error = Ok => written.error = Ok
  <2>1. Closes(written, closed, owner, id)
    BY <1>5, CloseScopeCloses
  <2>. QED BY <2>1 DEF Closes
<1>7. /\ closed \in Views
      /\ DOMAIN closed.scopes = DOMAIN w.scopes \cup {id}
      /\ \A x \in DOMAIN w.scopes : ChunksOf(closed, x) = ChunksOf(w, x)
      /\ closed.error = Ok => ChunksOf(closed, id) = rows
      /\ WellStored(w.scopes) => WellStored(closed.scopes)
  <2>1. DOMAIN written.scopes = DOMAIN made.scopes /\ DOMAIN closed.scopes = DOMAIN made.scopes
    BY <1>4, <1>6 DEF Extends
  <2>2. \A x \in DOMAIN w.scopes : x # id /\ x \in DOMAIN made.scopes
    BY <1>1
  <2>3. \A x \in DOMAIN w.scopes : written.scopes[x] = w.scopes[x]
    BY <1>1, <1>4, <2>2 DEF Extends
  <2>4. \A x \in DOMAIN w.scopes : ChunksOf(closed, x) = ChunksOf(w, x)
    BY <1>6, <2>1, <2>2, <2>3 DEF ChunksOf
  <2>5. id \in DOMAIN written.scopes
    BY <1>1, <2>1
  <2>. QED BY <1>1, <1>4, <1>6, <2>1, <2>4, <2>5 DEF Extends
<1>8. /\ closed.owner = w.owner /\ closed.meter = w.meter /\ closed.peak = w.peak
      /\ closed.tags = w.tags /\ closed.units = w.units /\ closed.spill = w.spill
      /\ closed.unit = w.unit /\ closed.work = w.work /\ closed.found = w.found
      /\ closed.runs = w.runs /\ closed.merged = w.merged
  <2>1. SameMemory(w, made) /\ SameMemory(made, written) /\ SameMemory(written, closed)
    BY <1>1, <1>4, <1>6 DEF Extends
  <2>2. /\ made.scopes \in Disks /\ made.created \in Nat /\ made.error \in Codes
        /\ written.scopes \in Disks /\ written.created \in Nat /\ written.error \in Codes
        /\ closed.scopes \in Disks /\ closed.created \in Nat /\ closed.error \in Codes
    BY <1>1, <1>5, <1>7 DEF Views
  <2>3. /\ made.owner = w.owner /\ made.meter = w.meter /\ made.peak = w.peak
        /\ made.tags = w.tags /\ made.units = w.units /\ made.spill = w.spill
        /\ made.unit = w.unit /\ made.work = w.work /\ made.found = w.found
        /\ made.runs = w.runs /\ made.merged = w.merged
    BY <2>1, <2>2, SameFields
  <2>4. /\ written.owner = made.owner /\ written.meter = made.meter /\ written.peak = made.peak
        /\ written.tags = made.tags /\ written.units = made.units /\ written.spill = made.spill
        /\ written.unit = made.unit /\ written.work = made.work /\ written.found = made.found
        /\ written.runs = made.runs /\ written.merged = made.merged
    BY <1>1, <2>1, <2>2, SameFields
  <2>5. /\ closed.owner = written.owner /\ closed.meter = written.meter
        /\ closed.peak = written.peak /\ closed.tags = written.tags
        /\ closed.units = written.units /\ closed.spill = written.spill
        /\ closed.unit = written.unit /\ closed.work = written.work
        /\ closed.found = written.found
        /\ closed.runs = written.runs /\ closed.merged = written.merged
    BY <1>5, <2>1, <2>2, SameFields
  <2>. QED BY <2>3, <2>4, <2>5
<1>. QED BY <1>1, <1>7, <1>8 DEF SortScoped

Resorted(c, r, work, runs, merged) ==
    /\ r \in Views /\ r.work = work /\ r.runs = runs /\ r.merged = merged
    /\ r.owner = c.owner /\ r.meter = c.meter /\ r.peak = c.peak
    /\ r.found = c.found /\ r.tags = c.tags /\ r.units = c.units
    /\ r.spill = c.spill /\ r.unit = c.unit /\ r.scopes = c.scopes
    /\ r.error = c.error

\* A pass changes its runs and its scopes, and nothing else of the validation.
LEMMA ResortedView ==
    ASSUME NEW c \in Views, NEW work \in SUBSET Ids, NEW runs \in Seq(RunIds),
           NEW merged \in Seq(RunIds),
           NEW r, r = [c EXCEPT !.work = work, !.runs = runs, !.merged = merged]
    PROVE  Resorted(c, r, work, runs, merged)
<1>1. r \in Views
  BY DEF Views
<1>2. /\ r.work = work /\ r.runs = runs /\ r.merged = merged
      /\ r.owner = c.owner /\ r.meter = c.meter /\ r.peak = c.peak
      /\ r.found = c.found /\ r.tags = c.tags /\ r.units = c.units
      /\ r.spill = c.spill /\ r.unit = c.unit /\ r.scopes = c.scopes
      /\ r.error = c.error
  BY DEF Views
<1>. QED BY <1>1, <1>2 DEF Resorted

SortWrote(w, r, id, rows, runs, merged) ==
    /\ Grown(w, r)
    /\ id \in Ids /\ id \notin DOMAIN w.scopes
    /\ r.runs = runs /\ r.merged = merged
    /\ r.error = Ok => id \in DOMAIN r.scopes /\ ChunksOf(r, id) = rows

\* The scope is remembered, and the stretches.
Remembered(c, id, runs, merged) ==
    [c EXCEPT !.work = c.work \cup {id}, !.runs = runs, !.merged = merged]

\* Rows written to a scope of their own, which is closed and remembered.
LEMMA SortWrites ==
    ASSUME NEW w \in Views, NEW made, made = CreateScope(w, w.owner), made.error = Ok,
           NEW id, id = <<w.owner, made.created>>, NEW rows \in Seq(Rows),
           NEW closed, closed = CloseScope(WriteRows(made, w.owner, id, 0, rows), w.owner, id),
           NEW runs \in Seq(RunIds), NEW merged \in Seq(RunIds),
           NEW r, r = Remembered(closed, id, runs, merged)
    PROVE  SortWrote(w, r, id, rows, runs, merged)
<1>a. SortScoped(w, closed, id, rows)
  BY SortScopes
<1>1. w.error = Ok /\ id \in Ids /\ id \notin DOMAIN w.scopes
  BY <1>a DEF SortScoped
<1>7. /\ closed \in Views
      /\ DOMAIN closed.scopes = DOMAIN w.scopes \cup {id}
      /\ \A x \in DOMAIN w.scopes : ChunksOf(closed, x) = ChunksOf(w, x)
      /\ closed.error = Ok => ChunksOf(closed, id) = rows
      /\ WellStored(w.scopes) => WellStored(closed.scopes)
  BY <1>a DEF SortScoped
<1>8. /\ closed.owner = w.owner /\ closed.meter = w.meter /\ closed.peak = w.peak
      /\ closed.tags = w.tags /\ closed.units = w.units /\ closed.spill = w.spill
      /\ closed.unit = w.unit /\ closed.work = w.work /\ closed.found = w.found
  BY <1>a DEF SortScoped
<1>9. PICK work : work = closed.work \cup {id}
  OBVIOUS
<1>10. work \in SUBSET Ids /\ r = [closed EXCEPT !.work = work, !.runs = runs, !.merged = merged]
  BY <1>1, <1>7, <1>9 DEF Views, Remembered
<1>e. closed \in Views
  BY <1>7
<1>f. Resorted(closed, r, work, runs, merged)
  BY <1>10, <1>e, ResortedView
<1>11. /\ r \in Views /\ r.work = work /\ r.runs = runs /\ r.merged = merged
       /\ r.owner = closed.owner /\ r.meter = closed.meter /\ r.peak = closed.peak
       /\ r.found = closed.found /\ r.tags = closed.tags /\ r.units = closed.units
       /\ r.spill = closed.spill /\ r.unit = closed.unit /\ r.scopes = closed.scopes
       /\ r.error = closed.error
  BY <1>f DEF Resorted
<1>12. DOMAIN r.scopes \subseteq DOMAIN w.scopes \cup r.work /\ w.work \subseteq r.work
  BY <1>7, <1>8, <1>9, <1>11
<1>13. Grown(w, r)
  <2>1. /\ r.owner = w.owner /\ r.meter = w.meter /\ r.peak = w.peak /\ r.found = w.found
        /\ r.tags = w.tags /\ r.units = w.units /\ r.spill = w.spill /\ r.unit = w.unit
    BY <1>8, <1>11
  <2>2. /\ DOMAIN w.scopes \subseteq DOMAIN r.scopes
        /\ WellStored(w.scopes) => WellStored(r.scopes)
        /\ \A x \in DOMAIN w.scopes : ChunksOf(r, x) = ChunksOf(w, x)
    <3>1. r.scopes = closed.scopes
      BY <1>11
    <3>2. \A x \in DOMAIN w.scopes : ChunksOf(r, x) = ChunksOf(w, x)
      BY <1>7, <3>1 DEF ChunksOf
    <3>. QED BY <1>7, <3>1, <3>2
  <2>3. r.error = Ok => w.error = Ok
    BY <1>1
  <2>4. r \in Views
    BY <1>11
  <2>. QED BY <1>12, <2>1, <2>2, <2>3, <2>4 DEF Grown
<1>. QED BY <1>1, <1>7, <1>11, <1>13 DEF SortWrote, ChunksOf

\* A stretch of a scope, by where it begins and ends.
LEMMA StretchRows ==
    ASSUME NEW r, NEW id, NEW a, NEW b, NEW run, run = <<id, a, b>>
    PROVE  RunRows(r, run) = SubSeq(ChunksOf(r, id), a + 1, b + 1) /\ run[1] = id
BY DEF RunRows, ChunksOf

\* The tags were all spilled, and the scope that holds them closed.
ClosedSpill(w, T, us) ==
    /\ Holding(w, T, us, 0)
    /\ w.error = Ok /\ w.tags = <<>> /\ w.merged = <<>>
    /\ w.spill # NoScope /\ w.scopes[w.spill].closed = TRUE

\* What the sort reads is every tag, once.
LEMMA SpillIsRead ==
    ASSUME budget \in Nat, NEW w, NEW T, NEW us, ClosedSpill(w, T, us),
           NEW rows, rows = ReadAll(w, w.spill)
    PROVE  rows \in Seq(TagRows) /\ Distinct(rows) /\ Members(rows) = T
<1>1. PICK id, stored : id = w.spill /\ stored = ChunksOf(w, id)
  OBVIOUS
<1>2. /\ w \in Views /\ id \in DOMAIN w.scopes /\ id[1] = w.owner /\ ListsTags(w, T)
      /\ w.scopes[id].closed = TRUE /\ w.scopes[id].rows = stored
  BY <1>1 DEF ClosedSpill, Holding, Well, IsOwn, ChunksOf
<1>3. stored \in Seq(Rows)
  BY <1>1, <1>2, ChunksType
<1>4. AllTags(w) = stored
  <2>1. stored \o <<>> = stored
    BY <1>3, ConcatEmptySeq
  <2>2. Stored(w, w.spill) = stored /\ w.tags = <<>>
    BY <1>1 DEF ClosedSpill, Stored, ChunksOf
  <2>. QED BY <2>1, <2>2 DEF AllTags
<1>5. /\ stored \in Seq(TagRows) /\ Distinct(stored) /\ Members(stored) = T
      /\ T # {} => TagSize <= budget
  BY <1>2, <1>4 DEF ListsTags
<1>6. IsSized(stored)
  BY <1>5, RowsOf
<1>7. \A i \in 1..Len(stored) : stored[i].size <= budget
  <2> SUFFICES ASSUME NEW i \in 1..Len(stored) PROVE stored[i].size <= budget
    OBVIOUS
  <2>1. stored[i] \in TagRows /\ stored[i] \in T
    BY <1>5 DEF Members
  <2>2. stored[i].size = TagSize
    BY <2>1, TagRowFields
  <2>. QED BY <1>5, <2>1, <2>2
<1>8. ReadAll(w, id) = stored
  BY <1>2, <1>5, <1>6, <1>7, ReadAllIsRows
<1>. QED BY <1>1, <1>5, <1>8

\* The stretches of the scope written are runs.
LEMMA StretchesAreRuns ==
    ASSUME NEW id \in Ids, NEW n \in Nat, NEW f, \A i \in 0..n : Len(f[i]) \in Nat
    PROVE  [i \in 1..n |-> <<id, Len(f[i - 1]), Len(f[i]) - 1>>] \in Seq(RunIds)
<1>1. ASSUME NEW i \in 1..n PROVE <<id, Len(f[i - 1]), Len(f[i]) - 1>> \in RunIds
  <2>1. i - 1 \in 0..n /\ i \in 0..n
    OBVIOUS
  <2>2. Len(f[i - 1]) \in Int /\ Len(f[i]) - 1 \in Int
    BY <2>1
  <2>. QED BY <2>2 DEF RunIds
<1>2. PICK g : g = [i \in 1..n |-> <<id, Len(f[i - 1]), Len(f[i]) - 1>>]
  OBVIOUS
<1>3. g \in [1..n -> RunIds]
  BY <1>1, <1>2
<1>. QED BY <1>2, <1>3

\* The sorted runs written split the tags of the delivery between them, in order each.
LEMMA BuildSortedRunsHolds ==
    ASSUME budget \in Nat, NEW w, NEW T, NEW us, ClosedSpill(w, T, us),
           NEW r, r = BuildSortedRuns(w)
    PROVE  /\ Holding(r, T, us, 0) /\ r.tags = <<>>
           /\ r.error = Ok => Split(r, T)
<1>1. PICK made, id, rows, sorted : /\ made = CreateScope(w, w.owner)
                                    /\ id = <<w.owner, made.created>>
                                    /\ rows = ReadAll(w, w.spill)
                                    /\ sorted = SortedRuns(Runs(rows))
  OBVIOUS
<1>2. w \in Views /\ Holding(w, T, us, 0) /\ w.tags = <<>> /\ w.merged = <<>>
  BY DEF ClosedSpill, Holding, Well
<1>3. rows \in Seq(TagRows) /\ Distinct(rows) /\ Members(rows) = T
  BY <1>1, SpillIsRead
<1>4. SortedCuts(sorted, T)
  <2>1. Cuts(Runs(rows), T)
    BY <1>3, RunsCut
  <2>2. PICK cut : cut = Runs(rows)
    OBVIOUS
  <2>3. Cuts(cut, T) /\ sorted = SortedRuns(cut)
    BY <1>1, <2>1, <2>2
  <2>. QED BY <2>3, SortedRunsCut
<1>5. CASE made.error # Ok
  <2>1. r = made
    BY <1>1, <1>5 DEF BuildSortedRuns
  <2>2. Grown(w, made)
    BY <1>1, <1>2, <1>5, CreateScopeGrows
  <2>3. Holding(r, T, us, 0)
    BY <1>2, <2>1, <2>2, GrownHolds
  <2>. QED BY <1>2, <1>5, <2>1, <2>2, <2>3 DEF Grown
<1>6. CASE made.error = Ok
  <2>1. r = WriteRuns(made, id, sorted)
    BY <1>1, <1>6 DEF BuildSortedRuns
  <2>2. sorted \in Seq(Seq(TagRows))
    BY <1>4 DEF SortedCuts
  <2>3. PICK f : IsFlat(f, sorted) /\ WriteRuns(made, id, sorted) = WrittenRuns(made, id, sorted, f)
    BY <2>2, RunsAreWritten
  <2>4. PICK n, all, runs, merged, closed, work :
           /\ n = Len(sorted) /\ all = f[n]
           /\ runs = [i \in 1..n |-> <<id, Len(f[i - 1]), Len(f[i]) - 1>>]
           /\ merged = w.merged
           /\ closed = CloseScope(WriteRows(made, w.owner, id, 0, all), w.owner, id)
           /\ work = closed.work \cup {id}
    OBVIOUS
  <2>5. n \in Nat /\ DOMAIN sorted = 1..n /\ \A i \in 1..n : sorted[i] \in Seq(TagRows)
    BY <2>2, <2>4, RunsInside
  <2>6. /\ \A i \in 0..n : f[i] \in Seq(TagRows)
        /\ \A i \in 1..n : SubSeq(f[n], Len(f[i - 1]) + 1, Len(f[i]) - 1 + 1) = sorted[i]
    BY <2>2, <2>3, <2>4, RunsAreStretches
  <2>7. all \in Seq(TagRows) /\ all \in Seq(Rows)
    <3>1. n \in 0..n
      BY <2>5
    <3>2. all \in Seq(TagRows)
      BY <2>4, <2>6, <3>1
    <3>. QED BY <3>2, RowsOf
  <2>8. SortScoped(w, closed, id, all)
    BY <1>1, <1>2, <1>6, <2>4, <2>7, SortScopes
  <2>9. id \in Ids /\ closed \in Views /\ closed.merged = merged
    BY <2>4, <2>8 DEF SortScoped
  <2>10. runs \in Seq(RunIds) /\ merged \in Seq(RunIds)
    <3>1. \A i \in 0..n : Len(f[i]) \in Nat
      BY <2>6
    <3>2. runs \in Seq(RunIds)
      BY <2>4, <2>5, <2>9, <3>1, StretchesAreRuns
    <3>. QED BY <2>9, <3>2 DEF Views
  <2>11. made.owner = w.owner
    <3>1. made \in Views /\ SameMemory(w, made)
      BY <1>1, <1>2, CreateScopeMakes
    <3>2. made.scopes \in Disks /\ made.created \in Nat /\ made.error \in Codes
      BY <3>1 DEF Views
    <3>. QED BY <1>2, <3>1, <3>2, SameFields
  <2>12. r = [closed EXCEPT !.work = work, !.runs = runs]
    BY <2>1, <2>3, <2>4, <2>5, <2>11 DEF WrittenRuns
  <2>13. r = Remembered(closed, id, runs, merged)
    <3>1. [closed EXCEPT !.work = work, !.runs = runs]
            = [closed EXCEPT !.work = work, !.runs = runs, !.merged = merged]
      BY <2>9 DEF Views
    <3>. QED BY <2>4, <2>12, <3>1 DEF Remembered
  <2>14. SortWrote(w, r, id, all, runs, merged)
    <3>1. /\ made = CreateScope(w, w.owner) /\ made.error = Ok /\ id = <<w.owner, made.created>>
          /\ closed = CloseScope(WriteRows(made, w.owner, id, 0, all), w.owner, id)
      BY <1>1, <1>6, <2>4
    <3>2. w \in Views /\ all \in Seq(Rows) /\ runs \in Seq(RunIds) /\ merged \in Seq(RunIds)
      BY <1>2, <2>7, <2>10
    <3>. QED BY <2>13, <3>1, <3>2, SortWrites
  <2>15. Grown(w, r) /\ r.runs = runs /\ r.merged = <<>>
    BY <1>2, <2>4, <2>14 DEF SortWrote
  <2>16. Holding(r, T, us, 0)
    BY <1>2, <2>15, GrownHolds
  <2>17. ASSUME r.error = Ok PROVE Split(r, T)
    <3>1. id \in DOMAIN r.scopes /\ ChunksOf(r, id) = all
      BY <2>14, <2>17 DEF SortWrote
    <3>2. ASSUME NEW i \in 1..n
          PROVE  RunRows(r, r.runs[i]) = sorted[i] /\ r.runs[i][1] = id
      <4>1. PICK a, b, run : a = Len(f[i - 1]) /\ b = Len(f[i]) - 1 /\ run = r.runs[i]
        OBVIOUS
      <4>2. run = <<id, a, b>>
        BY <2>4, <2>15, <4>1
      <4>3. RunRows(r, run) = SubSeq(ChunksOf(r, id), a + 1, b + 1) /\ run[1] = id
        BY <4>2, StretchRows
      <4>4. SubSeq(all, a + 1, b + 1) = sorted[i]
        BY <2>4, <2>6, <4>1
      <4>. QED BY <3>1, <4>1, <4>3, <4>4
    <3>3. Len(r.runs) = n /\ Len(r.merged) = 0
      BY <2>4, <2>5, <2>15
    <3>4. /\ \A i \in 1..n : Ascending(sorted[i])
          /\ \A i, j \in 1..n : i # j => Members(sorted[i]) \cap Members(sorted[j]) = {}
          /\ T = UNION {Members(sorted[i]) : i \in 1..n}
      BY <1>4, <2>4 DEF SortedCuts
    <3>5. AllRuns(r, r.runs)
      BY <2>5, <3>1, <3>2, <3>3, <3>4 DEF IsRun, AllRuns
    <3>6. AllRuns(r, r.merged)
      BY <3>3 DEF AllRuns
    <3>7. PICK A, B : A = RowSets(r, r.runs) /\ B = RowSets(r, r.merged)
      OBVIOUS
    <3>8. \A i \in 1..n : A[i] = Members(sorted[i])
      BY <3>2, <3>3, <3>7 DEF RowSets
    <3>9. Apart(A, n, B, 0, T)
      <4>1. \A i, j \in 1..n : i # j => A[i] \cap A[j] = {}
        BY <3>4, <3>8
      <4>2. /\ \A x \in T : \E i \in 1..n : x \in Members(sorted[i])
            /\ \A i \in 1..n : Members(sorted[i]) \subseteq T
        BY <3>4
      <4>3. (\A x \in T : \E i \in 1..n : x \in A[i]) /\ \A i \in 1..n : A[i] \subseteq T
        BY <3>8, <4>2
      <4>4. \A j \in 1..0 : FALSE
        OBVIOUS
      <4>. QED BY <4>1, <4>3, <4>4 DEF Apart
    <3>. QED BY <3>3, <3>5, <3>6, <3>7, <3>9 DEF Split
  <2>. QED BY <1>2, <2>15, <2>16, <2>17 DEF Grown
<1>. QED BY <1>5, <1>6

-----------------------------------------------------------------------------
(* The merge passes *)

\* The first two sets go to the other family as one.
LEMMA ApartMerged ==
    ASSUME NEW n \in Nat, n > 1, NEW m \in Nat, NEW A, NEW B, NEW T, Apart(A, n, B, m, T),
           NEW k, k = n - 2, NEW l, l = m + 1, NEW C, NEW D,
           \A i \in 1..k : C[i] = A[i + 2],
           \A j \in 1..m : D[j] = B[j],
           D[l] = A[1] \cup A[2]
    PROVE  Apart(C, k, D, l, T)
<1>1. /\ \A i, j \in 1..n : i # j => A[i] \cap A[j] = {}
      /\ \A i, j \in 1..m : i # j => B[i] \cap B[j] = {}
      /\ \A i \in 1..n : \A j \in 1..m : A[i] \cap B[j] = {}
      /\ \A x \in T : (\E i \in 1..n : x \in A[i]) \/ (\E j \in 1..m : x \in B[j])
      /\ \A i \in 1..n : A[i] \subseteq T
      /\ \A j \in 1..m : B[j] \subseteq T
  BY DEF Apart
<1>2. /\ 1 \in 1..n /\ 2 \in 1..n
      /\ \A i \in 1..k : i + 2 \in 1..n /\ i + 2 # 1 /\ i + 2 # 2
      /\ \A i, j \in 1..k : i # j => i + 2 # j + 2
      /\ \A i \in 1..n : i = 1 \/ i = 2 \/ (i - 2 \in 1..k /\ (i - 2) + 2 = i)
      /\ \A j \in 1..l : j \in 1..m \/ j = l
      /\ \A j \in 1..m : j \in 1..l
      /\ l \in 1..l
  OBVIOUS
<1>3. \A i, j \in 1..k : i # j => C[i] \cap C[j] = {}
  BY <1>1, <1>2
<1>4. \A i, j \in 1..l : i # j => D[i] \cap D[j] = {}
  <2>1. \A j \in 1..m : D[j] \cap D[l] = {}
    BY <1>1, <1>2
  <2>2. \A i, j \in 1..m : i # j => D[i] \cap D[j] = {}
    BY <1>1
  <2>. QED BY <1>2, <2>1, <2>2
<1>5. \A i \in 1..k : \A j \in 1..l : C[i] \cap D[j] = {}
  <2>1. \A i \in 1..k : C[i] \cap D[l] = {}
    BY <1>1, <1>2
  <2>2. \A i \in 1..k : \A j \in 1..m : C[i] \cap D[j] = {}
    BY <1>1, <1>2
  <2>. QED BY <1>2, <2>1, <2>2
<1>6. ASSUME NEW x \in T
      PROVE  (\E i \in 1..k : x \in C[i]) \/ (\E j \in 1..l : x \in D[j])
  <2>1. CASE \E i \in 1..n : x \in A[i]
    <3>1. PICK i \in 1..n : x \in A[i]
      BY <2>1
    <3>2. CASE i = 1 \/ i = 2
      <4>1. x \in D[l]
        BY <3>1, <3>2
      <4>. QED BY <1>2, <4>1
    <3>3. CASE i - 2 \in 1..k /\ (i - 2) + 2 = i
      <4>1. x \in C[i - 2]
        BY <3>1, <3>3
      <4>. QED BY <3>3, <4>1
    <3>. QED BY <1>2, <3>2, <3>3
  <2>2. CASE \E j \in 1..m : x \in B[j]
    BY <1>2, <2>2
  <2>. QED BY <1>1, <2>1, <2>2
<1>7. \A i \in 1..k : C[i] \subseteq T
  BY <1>1, <1>2
<1>8. \A j \in 1..l : D[j] \subseteq T
  <2>1. D[l] \subseteq T
    BY <1>1, <1>2
  <2>. QED BY <1>1, <1>2, <2>1
<1>. QED BY <1>3, <1>4, <1>5, <1>6, <1>7, <1>8 DEF Apart

\* At the end of a pass the other family comes first.
LEMMA ApartPassed ==
    ASSUME NEW n \in Nat, NEW m \in Nat, NEW A, NEW B, NEW T, Apart(A, n, B, m, T),
           NEW k, k = m + n, NEW C, NEW D,
           \A i \in 1..k : C[i] = IF i <= m THEN B[i] ELSE A[i - m]
    PROVE  Apart(C, k, D, 0, T)
<1>1. /\ \A i, j \in 1..n : i # j => A[i] \cap A[j] = {}
      /\ \A i, j \in 1..m : i # j => B[i] \cap B[j] = {}
      /\ \A i \in 1..n : \A j \in 1..m : A[i] \cap B[j] = {}
      /\ \A x \in T : (\E i \in 1..n : x \in A[i]) \/ (\E j \in 1..m : x \in B[j])
      /\ \A i \in 1..n : A[i] \subseteq T
      /\ \A j \in 1..m : B[j] \subseteq T
  BY DEF Apart
<1>2. /\ \A i \in 1..k : i <= m => i \in 1..m /\ C[i] = B[i]
      /\ \A i \in 1..k : ~(i <= m) => i - m \in 1..n /\ C[i] = A[i - m]
      /\ \A i, j \in 1..k : i # j => i - m # j - m
  OBVIOUS
<1>3. ASSUME NEW i \in 1..k, NEW j \in 1..k, i # j PROVE C[i] \cap C[j] = {}
  <2>1. CASE i <= m /\ j <= m
    BY <1>1, <1>2, <1>3, <2>1
  <2>2. CASE i <= m /\ ~(j <= m)
    BY <1>1, <1>2, <2>2
  <2>3. CASE ~(i <= m) /\ j <= m
    BY <1>1, <1>2, <2>3
  <2>4. CASE ~(i <= m) /\ ~(j <= m)
    <3>1. i - m \in 1..n /\ j - m \in 1..n /\ i - m # j - m /\ C[i] = A[i - m] /\ C[j] = A[j - m]
      BY <1>2, <1>3, <2>4
    <3>. QED BY <1>1, <3>1
  <2>. QED BY <2>1, <2>2, <2>3, <2>4
<1>4. ASSUME NEW x \in T PROVE \E i \in 1..k : x \in C[i]
  <2>1. CASE \E i \in 1..n : x \in A[i]
    <3>1. PICK i \in 1..n : x \in A[i]
      BY <2>1
    <3>2. i + m \in 1..k /\ ~(i + m <= m) /\ (i + m) - m = i
      OBVIOUS
    <3>3. C[i + m] = A[i]
      BY <1>2, <3>2
    <3>. QED BY <3>1, <3>2, <3>3
  <2>2. CASE \E j \in 1..m : x \in B[j]
    <3>1. PICK j \in 1..m : x \in B[j]
      BY <2>2
    <3>2. j \in 1..k /\ j <= m
      OBVIOUS
    <3>3. C[j] = B[j]
      BY <1>2, <3>2
    <3>. QED BY <3>1, <3>2, <3>3
  <2>. QED BY <1>1, <2>1, <2>2
<1>5. ASSUME NEW i \in 1..k PROVE C[i] \subseteq T
  BY <1>1, <1>2
<1>. QED BY <1>3, <1>4, <1>5 DEF Apart

\* What follows the first two runs.
LEMMA RunsLeft ==
    ASSUME NEW S, NEW runs \in Seq(S), NEW n, n = Len(runs), n > 1, NEW left,
           left = SubSeq(runs, 3, n)
    PROVE  left \in Seq(S) /\ Len(left) = n - 2 /\ \A i \in 1..(n - 2) : left[i] = runs[i + 2]
<1>1. n \in Nat /\ \A i \in 3..n : runs[i] \in S
  OBVIOUS
<1>2. /\ left \in Seq(S)
      /\ Len(left) = IF 3 <= n THEN n - 3 + 1 ELSE 0
      /\ \A i \in 1..(n - 3 + 1) : left[i] = runs[3 + i - 1]
  BY <1>1, SubSeqProperties
<1>3. n - 3 + 1 = n - 2
  BY <1>1
<1>4. ASSUME NEW i \in 1..(n - 2) PROVE left[i] = runs[i + 2]
  <2>1. 3 + i - 1 = i + 2
    OBVIOUS
  <2>2. i \in 1..(n - 3 + 1)
    BY <1>3
  <2>. QED BY <1>2, <2>1, <2>2
<1>5. Len(left) = n - 2
  BY <1>1, <1>2
<1>. QED BY <1>2, <1>4, <1>5

\* Runs that were there before the scopes grew.
LEMMA GrownRow ==
    ASSUME NEW w, NEW r, Grown(w, r), NEW run, IsRun(w, run)
    PROVE  IsRun(r, run) /\ RunRows(r, run) = RunRows(w, run)
BY GrownRuns DEF IsRun

Passing(w, T, us) ==
    /\ Holding(w, T, us, 0)
    /\ w.error = Ok /\ w.tags = <<>>
    /\ Split(w, T)

\* A merge of two runs leaves the runs splitting the tags of the delivery.
LEMMA MergeRunsHolds ==
    ASSUME NEW w, NEW T, NEW us, Passing(w, T, us), Len(w.runs) > 1,
           NEW r, r = MergeRuns(w, w.runs[1], w.runs[2])
    PROVE  /\ Holding(r, T, us, 0) /\ r.tags = <<>>
           /\ r.error = Ok => Split(r, T)
<1>1. PICK made, id, n, m, left, right, rows :
         /\ made = CreateScope(w, w.owner) /\ id = <<w.owner, made.created>>
         /\ n = Len(w.runs) /\ m = Len(w.merged)
         /\ left = w.runs[1] /\ right = w.runs[2]
         /\ rows = Merge(RunRows(w, left), RunRows(w, right))
  OBVIOUS
<1>2. /\ w \in Views /\ Holding(w, T, us, 0) /\ w.tags = <<>>
      /\ w.runs \in Seq(RunIds) /\ w.merged \in Seq(RunIds) /\ n > 1
      /\ AllRuns(w, w.runs) /\ AllRuns(w, w.merged)
      /\ Apart(RowSets(w, w.runs), n, RowSets(w, w.merged), m, T)
  BY <1>1 DEF Passing, Holding, Well, Views, Split
<1>3. n \in Nat /\ m \in Nat /\ 1 \in 1..n /\ 2 \in 1..n
  BY <1>1, <1>2
<1>4. IsRun(w, left) /\ IsRun(w, right)
  BY <1>1, <1>2, <1>3 DEF AllRuns
<1>5. PICK a, b : a = RunRows(w, left) /\ b = RunRows(w, right)
  OBVIOUS
<1>6. /\ a \in Seq(TagRows) /\ b \in Seq(TagRows) /\ Ascending(a) /\ Ascending(b)
      /\ rows = Merge(a, b)
  BY <1>1, <1>4, <1>5 DEF IsRun
<1>7. PICK A, B : A = RowSets(w, w.runs) /\ B = RowSets(w, w.merged)
  OBVIOUS
<1>8. A[1] = Members(a) /\ A[2] = Members(b)
  BY <1>1, <1>3, <1>5, <1>7 DEF RowSets
<1>9. Apart(A, n, B, m, T)
  BY <1>2, <1>7
<1>10. A[1] \cap A[2] = {}
  BY <1>3, <1>9 DEF Apart
<1>11. /\ rows \in Seq(TagRows) /\ Members(rows) = Members(a) \cup Members(b)
       /\ Ascending(rows)
  BY <1>6, <1>8, <1>10, MergeAscends
<1>12. CASE made.error # Ok
  <2>1. r = made
    BY <1>1, <1>12 DEF MergeRuns
  <2>2. Grown(w, made)
    BY <1>1, <1>2, <1>12, CreateScopeGrows
  <2>3. Holding(r, T, us, 0)
    BY <1>2, <2>1, <2>2, GrownHolds
  <2>. QED BY <1>2, <1>12, <2>1, <2>2, <2>3 DEF Grown
<1>13. CASE made.error = Ok
  <2>1. PICK closed, new, runs, merged, k, l :
           /\ closed = CloseScope(WriteRows(made, w.owner, id, 0, rows), w.owner, id)
           /\ new = <<id, 0, Len(rows) - 1>>
           /\ runs = SubSeq(w.runs, 3, n)
           /\ merged = Append(w.merged, new)
           /\ k = n - 2 /\ l = m + 1
    OBVIOUS
  <2>2. rows \in Seq(Rows) /\ Len(rows) \in Nat
    BY <1>11, RowsOf
  <2>3. SortScoped(w, closed, id, rows)
    <3>1. /\ made = CreateScope(w, w.owner) /\ made.error = Ok /\ id = <<w.owner, made.created>>
          /\ closed = CloseScope(WriteRows(made, w.owner, id, 0, rows), w.owner, id)
      BY <1>1, <1>13, <2>1
    <3>. QED BY <1>2, <2>2, <3>1, SortScopes
  <2>4. closed \in Views /\ id \in Ids /\ closed.runs = w.runs /\ closed.merged = w.merged
    BY <2>3 DEF SortScoped
  <2>5. /\ runs \in Seq(RunIds) /\ Len(runs) = k
        /\ \A i \in 1..k : runs[i] = w.runs[i + 2]
    <3>1. PICK ws : ws = w.runs
      OBVIOUS
    <3>2. ws \in Seq(RunIds) /\ n = Len(ws) /\ n > 1 /\ runs = SubSeq(ws, 3, n)
      BY <1>1, <1>2, <2>1, <3>1
    <3>3. runs \in Seq(RunIds) /\ Len(runs) = n - 2 /\ \A i \in 1..(n - 2) : runs[i] = ws[i + 2]
      BY <3>2, RunsLeft
    <3>. QED BY <2>1, <3>1, <3>3
  <2>6. new \in RunIds
    BY <2>1, <2>2, <2>4 DEF RunIds
  <2>7. /\ merged \in Seq(RunIds) /\ Len(merged) = l /\ merged[l] = new
        /\ \A j \in 1..m : merged[j] = w.merged[j]
    BY <1>1, <1>2, <2>1, <2>6
  <2>8. r = Remembered(closed, id, runs, merged)
    <3>1. r = [closed EXCEPT !.work = @ \cup {id}, !.runs = SubSeq(@, 3, Len(@)),
                             !.merged = Append(@, new)]
      BY <1>1, <1>13, <2>1 DEF MergeRuns
    <3>2. SubSeq(closed.runs, 3, Len(closed.runs)) = runs /\ Append(closed.merged, new) = merged
      BY <1>1, <2>1, <2>4
    <3>3. r = [closed EXCEPT !.work = closed.work \cup {id},
                             !.runs = SubSeq(closed.runs, 3, Len(closed.runs)),
                             !.merged = Append(closed.merged, new)]
      BY <2>4, <3>1 DEF Views
    <3>. QED BY <3>2, <3>3 DEF Remembered
  <2>9. SortWrote(w, r, id, rows, runs, merged)
    <3>1. /\ made = CreateScope(w, w.owner) /\ made.error = Ok /\ id = <<w.owner, made.created>>
          /\ closed = CloseScope(WriteRows(made, w.owner, id, 0, rows), w.owner, id)
      BY <1>1, <1>13, <2>1
    <3>2. runs \in Seq(RunIds) /\ merged \in Seq(RunIds)
      BY <2>5, <2>7
    <3>. QED BY <1>2, <2>2, <2>8, <3>1, <3>2, SortWrites
  <2>10. Grown(w, r) /\ r.runs = runs /\ r.merged = merged
    BY <2>9 DEF SortWrote
  <2>11. Holding(r, T, us, 0)
    BY <1>2, <2>10, GrownHolds
  <2>12. ASSUME r.error = Ok PROVE Split(r, T)
    <3>1. id \in DOMAIN r.scopes /\ ChunksOf(r, id) = rows
      BY <2>9, <2>12 DEF SortWrote
    <3>2. RunRows(r, new) = rows /\ new[1] = id
      <4>1. PICK z, last : z = 0 /\ last = Len(rows) - 1
        OBVIOUS
      <4>5. new = <<id, z, last>>
        BY <2>1, <4>1
      <4>6. RunRows(r, new) = SubSeq(ChunksOf(r, id), z + 1, last + 1) /\ new[1] = id
        BY <4>5, StretchRows
      <4>2. RunRows(r, new) = SubSeq(rows, z + 1, last + 1) /\ new[1] = id
        BY <3>1, <4>6
      <4>3. z + 1 = 1 /\ last + 1 = Len(rows)
        BY <2>2, <4>1
      <4>4. SubSeq(rows, 1, Len(rows)) = rows
        BY <2>2
      <4>. QED BY <4>2, <4>3, <4>4
    <3>3. IsRun(r, new)
      BY <1>11, <3>1, <3>2 DEF IsRun
    <3>4. ASSUME NEW i \in 1..k
          PROVE  IsRun(r, runs[i]) /\ RunRows(r, runs[i]) = RunRows(w, w.runs[i + 2])
      <4>1. i + 2 \in 1..n
        BY <1>3, <2>1
      <4>2. PICK run : run = w.runs[i + 2]
        OBVIOUS
      <4>3. IsRun(w, run) /\ runs[i] = run
        BY <1>1, <1>2, <2>5, <4>1, <4>2 DEF AllRuns
      <4>4. IsRun(r, run) /\ RunRows(r, run) = RunRows(w, run)
        BY <2>10, <4>3, GrownRow
      <4>. QED BY <4>2, <4>3, <4>4
    <3>5. ASSUME NEW j \in 1..m
          PROVE  IsRun(r, merged[j]) /\ RunRows(r, merged[j]) = RunRows(w, w.merged[j])
      <4>2. PICK run : run = w.merged[j]
        OBVIOUS
      <4>3. IsRun(w, run) /\ merged[j] = run
        BY <1>1, <1>2, <2>7, <4>2 DEF AllRuns
      <4>4. IsRun(r, run) /\ RunRows(r, run) = RunRows(w, run)
        BY <2>10, <4>3, GrownRow
      <4>. QED BY <4>2, <4>3, <4>4
    <3>6. /\ \A j \in 1..l : j \in 1..m \/ j = l
          /\ \A j \in 1..m : j \in 1..l
          /\ \A i \in 1..k : i + 2 \in 1..n
          /\ l \in 1..l
      BY <1>3, <2>1
    <3>7. AllRuns(r, r.runs)
      BY <2>5, <2>10, <3>4 DEF AllRuns
    <3>8. AllRuns(r, r.merged)
      BY <2>7, <2>10, <3>3, <3>5, <3>6 DEF AllRuns
    <3>9. PICK C, D : C = RowSets(r, r.runs) /\ D = RowSets(r, r.merged)
      OBVIOUS
    <3>10. \A i \in 1..k : C[i] = A[i + 2]
      <4> SUFFICES ASSUME NEW i \in 1..k PROVE C[i] = A[i + 2]
        OBVIOUS
      <4>1. C[i] = Members(RunRows(r, runs[i]))
        BY <2>5, <2>10, <3>9 DEF RowSets
      <4>2. A[i + 2] = Members(RunRows(w, w.runs[i + 2]))
        BY <1>1, <1>7, <3>6 DEF RowSets
      <4>. QED BY <3>4, <4>1, <4>2
    <3>11. \A j \in 1..m : D[j] = B[j]
      <4> SUFFICES ASSUME NEW j \in 1..m PROVE D[j] = B[j]
        OBVIOUS
      <4>1. D[j] = Members(RunRows(r, merged[j]))
        BY <2>7, <2>10, <3>6, <3>9 DEF RowSets
      <4>2. B[j] = Members(RunRows(w, w.merged[j]))
        BY <1>1, <1>7 DEF RowSets
      <4>. QED BY <3>5, <4>1, <4>2
    <3>12. D[l] = A[1] \cup A[2]
      <4>1. D[l] = Members(RunRows(r, new))
        BY <2>7, <2>10, <3>6, <3>9 DEF RowSets
      <4>. QED BY <1>8, <1>11, <3>2, <4>1
    <3>13. Apart(C, k, D, l, T)
      <4>1. k = n - 2 /\ l = m + 1
        BY <2>1
      <4>2. n \in Nat /\ n > 1 /\ m \in Nat
        BY <1>2, <1>3
      <4>. QED BY <1>9, <3>10, <3>11, <3>12, <4>1, <4>2, ApartMerged
    <3>. QED BY <2>5, <2>7, <2>10, <3>7, <3>8, <3>9, <3>13 DEF Split
  <2>. QED BY <1>2, <2>10, <2>11, <2>12 DEF Grown
<1>. QED BY <1>12, <1>13

\* The end of a pass: an odd run is carried over.
LEMMA EndPassHolds ==
    ASSUME NEW w, NEW T, NEW us, Passing(w, T, us),
           NEW r, r = [w EXCEPT !.runs = w.merged \o w.runs, !.merged = <<>>]
    PROVE  Passing(r, T, us)
<1>1. PICK n, m, k, runs, N : /\ n = Len(w.runs) /\ m = Len(w.merged) /\ k = m + n
                              /\ runs = w.merged \o w.runs /\ N = Seq(RunIds)
  OBVIOUS
<1>2. /\ w \in Views /\ Holding(w, T, us, 0) /\ w.tags = <<>>
      /\ w.runs \in Seq(RunIds) /\ w.merged \in Seq(RunIds)
      /\ AllRuns(w, w.runs) /\ AllRuns(w, w.merged)
      /\ Apart(RowSets(w, w.runs), n, RowSets(w, w.merged), m, T)
  BY <1>1 DEF Passing, Holding, Well, Views, Split
<1>3. n \in Nat /\ m \in Nat
  BY <1>1, <1>2
<1>4. /\ runs \in Seq(RunIds) /\ Len(runs) = k
      /\ \A i \in 1..k : runs[i] = IF i <= m THEN w.merged[i] ELSE w.runs[i - m]
  <2>1. PICK a, b : a = w.merged /\ b = w.runs
    OBVIOUS
  <2>2. a \in Seq(RunIds) /\ b \in Seq(RunIds)
    BY <1>2, <2>1
  <2>3. /\ a \o b \in Seq(RunIds) /\ Len(a \o b) = Len(a) + Len(b)
        /\ \A i \in 1..(Len(a) + Len(b)) :
             (a \o b)[i] = IF i <= Len(a) THEN a[i] ELSE b[i - Len(a)]
    BY <2>2, ConcatProperties
  <2>4. runs = a \o b /\ Len(a) = m /\ Len(b) = n /\ k = m + n
    BY <1>1, <2>1
  <2>. QED BY <2>1, <2>3, <2>4
<1>5. PICK merged, work : merged = <<>> /\ work = w.work
  OBVIOUS
<1>6. merged \in Seq(RunIds) /\ work \in SUBSET Ids
  BY <1>2, <1>5 DEF Views
<1>7. r = [w EXCEPT !.work = work, !.runs = runs, !.merged = merged]
  BY <1>1, <1>2, <1>5 DEF Views
<1>8. Resorted(w, r, work, runs, merged)
  BY <1>2, <1>4, <1>6, <1>7, ResortedView
<1>9. Grown(w, r) /\ r.runs = runs /\ r.merged = merged /\ r.error = w.error /\ r.tags = w.tags
  <2>1. /\ r \in Views /\ r.work = w.work /\ r.runs = runs /\ r.merged = merged
        /\ r.owner = w.owner /\ r.meter = w.meter /\ r.peak = w.peak
        /\ r.found = w.found /\ r.tags = w.tags /\ r.units = w.units
        /\ r.spill = w.spill /\ r.unit = w.unit /\ r.scopes = w.scopes
        /\ r.error = w.error
    BY <1>5, <1>8 DEF Resorted
  <2>. QED BY <2>1 DEF Grown, ChunksOf
<1>10. Holding(r, T, us, 0)
  BY <1>2, <1>9, GrownHolds
<1>11. /\ \A i \in 1..k : i <= m => i \in 1..m /\ runs[i] = w.merged[i]
       /\ \A i \in 1..k : ~(i <= m) => i - m \in 1..n /\ runs[i] = w.runs[i - m]
  <2>1. k = m + n
    BY <1>1
  <2>2. \A i \in 1..k : (i <= m => i \in 1..m) /\ (~(i <= m) => i - m \in 1..n)
    BY <1>3, <2>1
  <2>. QED BY <1>4, <2>2
<1>12. ASSUME NEW i \in 1..k PROVE IsRun(w, runs[i])
  BY <1>1, <1>2, <1>11 DEF AllRuns
<1>13. ASSUME NEW i \in 1..k PROVE IsRun(r, runs[i]) /\ RunRows(r, runs[i]) = RunRows(w, runs[i])
  <2>1. PICK run : run = runs[i]
    OBVIOUS
  <2>2. IsRun(w, run)
    BY <1>12, <2>1
  <2>3. Grown(w, r)
    BY <1>9
  <2>4. IsRun(r, run) /\ RunRows(r, run) = RunRows(w, run)
    BY <2>2, <2>3, GrownRow
  <2>. QED BY <2>1, <2>4
<1>14. AllRuns(r, r.runs) /\ AllRuns(r, r.merged) /\ Len(r.runs) = k /\ Len(r.merged) = 0
  <2>1. r.runs = runs /\ r.merged = <<>> /\ Len(runs) = k
    BY <1>4, <1>5, <1>9
  <2>2. AllRuns(r, r.runs)
    BY <1>13, <2>1 DEF AllRuns
  <2>3. AllRuns(r, r.merged)
    BY <2>1 DEF AllRuns
  <2>. QED BY <2>1, <2>2, <2>3
<1>15. PICK A, B, C, D : /\ A = RowSets(w, w.runs) /\ B = RowSets(w, w.merged)
                         /\ C = RowSets(r, r.runs) /\ D = RowSets(r, r.merged)
  OBVIOUS
<1>16. \A i \in 1..k : C[i] = IF i <= m THEN B[i] ELSE A[i - m]
  <2> SUFFICES ASSUME NEW i \in 1..k PROVE C[i] = IF i <= m THEN B[i] ELSE A[i - m]
    OBVIOUS
  <2>1. C[i] = Members(RunRows(w, runs[i]))
    BY <1>9, <1>13, <1>14, <1>15 DEF RowSets
  <2>2. CASE i <= m
    BY <1>1, <1>11, <1>15, <2>1, <2>2 DEF RowSets
  <2>3. CASE ~(i <= m)
    <3>1. i - m \in 1..n /\ runs[i] = w.runs[i - m]
      BY <1>11, <2>3
    <3>2. A[i - m] = Members(RunRows(w, w.runs[i - m]))
      BY <1>1, <1>15, <3>1 DEF RowSets
    <3>. QED BY <2>1, <2>3, <3>1, <3>2
  <2>. QED BY <2>2, <2>3
<1>17. Apart(C, k, D, 0, T)
  <2>1. Apart(A, n, B, m, T) /\ k = m + n
    BY <1>1, <1>2, <1>15
  <2>. QED BY <1>3, <1>16, <2>1, ApartPassed
<1>18. Split(r, T)
  BY <1>14, <1>15, <1>17 DEF Split
<1>. QED BY <1>9, <1>10, <1>18 DEF Passing

-----------------------------------------------------------------------------
(* The result *)

\* The units are all read back, in order.
LEMMA UnitsAreRead ==
    ASSUME budget \in Nat, NEW T, NEW us, NEW w, Holding(w, T, us, 0), w.error = Ok,
           NEW r, r = ClosedUnits(IF w.unit = NoScope THEN w ELSE SpillUnits(w))
    PROVE  /\ Well(r) /\ r.found = w.found
           /\ r.error = Ok => UnitsOf(r) = us
<1>1. Well(w) /\ w \in Views /\ ListsUnits(w, us) /\ w.units \in Seq(UnitRows)
  BY DEF Holding, Well, Views
<1>2. CASE w.unit = NoScope
  <2>1. r = w
    BY <1>2 DEF ClosedUnits
  <2>2. PICK units : units = w.units
    OBVIOUS
  <2>3. <<>> \o units = units
    BY <1>1, <2>2, ConcatEmptySeq
  <2>4. AllUnits(w) = units
    BY <1>2, <2>2, <2>3 DEF AllUnits, Stored
  <2>5. UnitsOf(r) = us
    BY <1>1, <1>2, <2>1, <2>2, <2>4 DEF UnitsOf, ListsUnits
  <2>. QED BY <1>1, <2>1, <2>5
<1>3. CASE w.unit # NoScope
  <2>1. PICK s, id, zero : s = SpillUnits(w) /\ id = w.unit /\ zero = 0
    OBVIOUS
  <2>2. /\ Holding(s, T, us, zero) /\ Kept(w, s)
        /\ s.error = Ok => s.units = <<>>
        /\ w.unit # NoScope => s.unit = w.unit
    <3>1. zero \in Nat /\ Holding(w, T, us, zero)
      BY <2>1
    <3>. QED BY <2>1, <3>1, SpillUnitsHolds
  <2>3. s.unit = id /\ id # NoScope
    BY <1>3, <2>1, <2>2
  <2>4. PICK owner : owner = s.owner
    OBVIOUS
  <2>5. r = CloseScope(s, owner, id)
    BY <1>3, <2>1, <2>3, <2>4 DEF ClosedUnits
  <2>6. /\ Well(s) /\ s \in Views /\ WellStored(s.scopes)
        /\ id \in DOMAIN s.scopes /\ id[1] = owner
    BY <2>2, <2>3, <2>4 DEF Holding, Well, WellStored, IsOwn
  <2>7. Closes(s, r, owner, id)
    BY <2>5, <2>6, CloseScopeCloses
  <2>8. /\ Extends(s, r, id)
        /\ \A x \in DOMAIN s.scopes : ChunksOf(r, x) = ChunksOf(s, x)
        /\ r.error = Ok => s.error = Ok /\ r.scopes[id].closed = TRUE
    BY <2>7 DEF Closes
  <2>9. /\ r \in Views /\ WellStored(r.scopes) /\ DOMAIN r.scopes = DOMAIN s.scopes
        /\ SameMemory(s, r)
    BY <2>6, <2>8 DEF Extends
  <2>10. r.scopes \in Disks /\ r.created \in Nat /\ r.error \in Codes
    BY <2>9 DEF Views
  <2>11. /\ r.owner = s.owner /\ r.peak = s.peak /\ r.spill = s.spill /\ r.unit = s.unit
         /\ r.work = s.work /\ r.found = s.found
    BY <2>6, <2>9, <2>10, SameFields
  <2>12. Well(r)
    BY <2>6, <2>9, <2>11 DEF Well, WellStored, IsOwn, OwnScopes
  <2>13. ASSUME r.error = Ok PROVE UnitsOf(r) = us
    <3>1. PICK stored : stored = ChunksOf(s, id)
      OBVIOUS
    <3>2. s.error = Ok /\ s.units = <<>> /\ ListsUnits(s, us)
      BY <2>2, <2>8, <2>13 DEF Holding
    <3>3. stored \in Seq(Rows)
      BY <2>6, <3>1, ChunksType
    <3>4. stored \o <<>> = stored
      BY <3>3, ConcatEmptySeq
    <3>5. AllUnits(s) = stored
      BY <2>3, <3>1, <3>2, <3>4 DEF AllUnits, Stored, ChunksOf
    <3>6. stored \in Seq(UnitRows) /\ stored = us /\ (us # <<>> => UnitSize <= budget)
      BY <3>2, <3>5 DEF ListsUnits
    <3>7. IsSized(stored)
      BY <3>6, RowsOf
    <3>8. \A i \in 1..Len(stored) : stored[i].size <= budget
      <4> SUFFICES ASSUME NEW i \in 1..Len(stored) PROVE stored[i].size <= budget
        OBVIOUS
      <4>1. stored[i] \in UnitRows /\ stored # <<>>
        BY <3>6
      <4>2. stored[i].size = UnitSize
        BY <4>1 DEF UnitRows
      <4>. QED BY <3>6, <4>1, <4>2
    <3>9. /\ id \in DOMAIN r.scopes /\ id[1] = r.owner /\ r.scopes[id].closed = TRUE
          /\ r.scopes[id].rows = stored
      BY <2>4, <2>6, <2>8, <2>9, <2>11, <2>13, <3>1 DEF ChunksOf
    <3>10. ReadAll(r, id) = stored
      BY <3>6, <3>7, <3>8, <3>9, ReadAllIsRows
    <3>. QED BY <2>3, <2>11, <3>6, <3>10 DEF UnitsOf
  <2>14. r.found = w.found
    BY <2>2, <2>11 DEF Kept
  <2>. QED BY <2>12, <2>13, <2>14
<1>. QED BY <1>2, <1>3

\* Another parsed frame has the key of frame i under rule r.
KeyIsShared(i, r) ==
    /\ r \in UniqueRules
    /\ delivery[i].parsed
    /\ UniqueKeyTag(r, delivery[i].values) # Null
    /\ \E j \in DOMAIN delivery \ {i} :
         /\ delivery[j].parsed
         /\ UniqueKeyTag(r, delivery[j].values) = UniqueKeyTag(r, delivery[i].values)

TagRowOf(i, r) ==
    [rule |-> r, tag |-> UniqueKeyTag(r, delivery[i].values), sequence |-> i - 1, size |-> TagSize]

\* A parsed frame with a key has its tag among those of the delivery.
LEMMA TagRowIsTag ==
    ASSUME delivery \in Seq(FrameKinds), NEW i \in 1..Len(delivery), delivery[i].parsed,
           NEW r \in UniqueRules, UniqueKeyTag(r, delivery[i].values) # Null,
           NEW row, row = TagRowOf(i, r)
    PROVE  /\ row \in WholeTags /\ row.rule = r /\ row.sequence = i - 1
           /\ row.tag = UniqueKeyTag(r, delivery[i].values)
<1>1. PICK frame, tag, n : /\ frame = delivery[i] /\ n = i - 1
                           /\ tag = UniqueKeyTag(r, frame.values)
  OBVIOUS
<1>2. frame \in FrameKinds /\ n \in Nat
  BY <1>1
<1>3. frame.parsed = TRUE
  BY <1>1, <1>2, ValidationInputs
<1>4. tag \in TagValues(r) /\ tag # Null
  BY <1>1, <1>2, <1>3, TagOfFrame
<1>5. row = [rule |-> r, tag |-> tag, sequence |-> n, size |-> TagSize]
  BY <1>1 DEF TagRowOf
<1>6. row \in TagRows
  BY <1>2, <1>4, <1>5 DEF TagRows
<1>7. row.rule = r /\ row.tag = tag /\ row.sequence = n
  BY <1>5
<1>8. IsTagOf(row, i)
  BY <1>1, <1>3, <1>4, <1>7 DEF IsTagOf
<1>. QED BY <1>1, <1>6, <1>7, <1>8 DEF WholeTags, TagsOf

\* A frame is duplicated under a rule exactly when another frame shares its key.
LEMMA DuplicatedIsShared ==
    ASSUME delivery \in Seq(FrameKinds), NEW i \in 1..Len(delivery), NEW r
    PROVE  <<i - 1, r>> \in Duplicated(WholeTags) <=> KeyIsShared(i, r)
<1>0. DOMAIN delivery = 1..Len(delivery) /\ Len(delivery) \in Nat
  OBVIOUS
<1>1. ASSUME <<i - 1, r>> \in Duplicated(WholeTags) PROVE KeyIsShared(i, r)
  <2>1. PICK a \in WholeTags : /\ <<i - 1, r>> = <<a.sequence, a.rule>>
                               /\ \E c \in WholeTags : c # a /\ c.rule = a.rule /\ c.tag = a.tag
    BY <1>1 DEF Duplicated
  <2>2. PICK c \in WholeTags : c # a /\ c.rule = a.rule /\ c.tag = a.tag
    BY <2>1
  <2>3. a.sequence = i - 1 /\ a.rule = r
    BY <2>1
  <2>4. PICK k \in 1..Len(delivery) : IsTagOf(a, k)
    BY DEF WholeTags, TagsOf
  <2>5. PICK j \in 1..Len(delivery) : IsTagOf(c, j)
    BY DEF WholeTags, TagsOf
  <2>6. a \in TagRows /\ c \in TagRows
    BY DEF WholeTags, TagsOf
  <2>7. k = i
    <3>1. a.sequence = k - 1
      BY <2>4 DEF IsTagOf
    <3>. QED BY <2>3, <3>1
  <2>8. j # i
    <3>1. SUFFICES ASSUME j = i PROVE a = c
      BY <2>2
    <3>2. c.sequence = a.sequence
      BY <2>3, <2>5, <3>1 DEF IsTagOf
    <3>3. /\ a = [rule |-> a.rule, tag |-> a.tag, sequence |-> a.sequence, size |-> a.size]
          /\ c = [rule |-> c.rule, tag |-> c.tag, sequence |-> c.sequence, size |-> c.size]
          /\ a.size = c.size
      BY <2>6, TagRowFields
    <3>. QED BY <2>2, <3>2, <3>3
  <2>9. a.rule \in UniqueRules
    BY <2>6, TagRowFields
  <2>10. /\ delivery[i].parsed /\ a.tag = UniqueKeyTag(r, delivery[i].values) /\ a.tag # Null
    BY <2>3, <2>4, <2>7 DEF IsTagOf
  <2>11. delivery[j].parsed /\ c.tag = UniqueKeyTag(r, delivery[j].values)
    BY <2>2, <2>3, <2>5 DEF IsTagOf
  <2>. QED BY <1>0, <2>2, <2>3, <2>8, <2>9, <2>10, <2>11 DEF KeyIsShared
<1>2. ASSUME KeyIsShared(i, r) PROVE <<i - 1, r>> \in Duplicated(WholeTags)
  <2>1. /\ r \in UniqueRules /\ delivery[i].parsed
        /\ UniqueKeyTag(r, delivery[i].values) # Null
    BY <1>2 DEF KeyIsShared
  <2>2. PICK j \in DOMAIN delivery \ {i} :
           /\ delivery[j].parsed
           /\ UniqueKeyTag(r, delivery[j].values) = UniqueKeyTag(r, delivery[i].values)
    BY <1>2 DEF KeyIsShared
  <2>3. j \in 1..Len(delivery) /\ j # i
    BY <1>0
  <2>4. PICK a, c : a = TagRowOf(i, r) /\ c = TagRowOf(j, r)
    OBVIOUS
  <2>5. /\ a \in WholeTags /\ a.rule = r /\ a.sequence = i - 1
        /\ a.tag = UniqueKeyTag(r, delivery[i].values)
    BY <2>1, <2>4, TagRowIsTag
  <2>6. /\ c \in WholeTags /\ c.rule = r /\ c.sequence = j - 1
        /\ c.tag = UniqueKeyTag(r, delivery[j].values)
    BY <2>1, <2>2, <2>3, <2>4, TagRowIsTag
  <2>7. c # a
    BY <2>3, <2>5, <2>6
  <2>8. <<a.sequence, a.rule>> \in Duplicated(WholeTags)
    BY <2>2, <2>5, <2>6, <2>7 DEF Duplicated
  <2>. QED BY <2>5, <2>8
<1>. QED BY <1>1, <1>2

\* A disposition has the findings the contract asks for.
LEMMA FindingsAreExpected ==
    ASSUME delivery \in Seq(FrameKinds), NEW i \in 1..Len(delivery),
           NEW unit, unit = UnitOf(delivery[i], i - 1)
    PROVE  /\ DispositionOf(unit, Duplicated(WholeTags)).sequence = i - 1
           /\ DispositionOf(unit, Duplicated(WholeTags)).findings = ExpectedFindings(i)
<1>1. PICK D, n : D = Duplicated(WholeTags) /\ n = i - 1
  OBVIOUS
<1>2. unit.sequence = n /\ unit.findings = RuleFindings(delivery[i])
  BY <1>1 DEF UnitOf
<1>3. \A e \in D : \E q : e = <<e[1], q>> /\ e[2] = q
  <2> SUFFICES ASSUME NEW e \in D PROVE \E q : e = <<e[1], q>> /\ e[2] = q
    OBVIOUS
  <2>1. PICK a : e = <<a.sequence, a.rule>>
    BY <1>1 DEF Duplicated
  <2>. QED BY <2>1
<1>4. \A r : <<n, r>> \in D <=> KeyIsShared(i, r)
  BY <1>1, DuplicatedIsShared
<1>5. PICK extras, shared :
         /\ extras = {<<d[2], "duplicate_key">> : d \in {e \in D : e[1] = unit.sequence}}
         /\ shared = {<<r, "duplicate_key">> : r \in {q \in UniqueRules : KeyIsShared(i, q)}}
  OBVIOUS
<1>6. extras = shared
  <2>1. ASSUME NEW x \in extras PROVE x \in shared
    <3>1. PICK d \in D : d[1] = n /\ x = <<d[2], "duplicate_key">>
      BY <1>2, <1>5, <2>1
    <3>2. PICK q : d = <<d[1], q>> /\ d[2] = q
      BY <1>3
    <3>3. <<n, q>> \in D
      BY <3>1, <3>2
    <3>4. KeyIsShared(i, q)
      BY <1>4, <3>3
    <3>5. q \in UniqueRules
      BY <3>4 DEF KeyIsShared
    <3>. QED BY <1>5, <3>1, <3>2, <3>4, <3>5
  <2>2. ASSUME NEW x \in shared PROVE x \in extras
    <3>1. PICK q \in UniqueRules : KeyIsShared(i, q) /\ x = <<q, "duplicate_key">>
      BY <1>5, <2>2
    <3>2. PICK d : d = <<n, q>>
      OBVIOUS
    <3>3. d \in D /\ d[1] = n /\ d[2] = q
      BY <1>4, <3>1, <3>2
    <3>. QED BY <1>2, <1>5, <3>1, <3>3
  <2>. QED BY <2>1, <2>2
<1>7. ExpectedFindings(i) = RuleFindings(delivery[i]) \cup shared
  <2>1. {q \in UniqueRules : KeyIsShared(i, q)}
          = {q \in UniqueRules :
                /\ delivery[i].parsed
                /\ UniqueKeyTag(q, delivery[i].values) # Null
                /\ \E j \in DOMAIN delivery \ {i} :
                     /\ delivery[j].parsed
                     /\ UniqueKeyTag(q, delivery[j].values)
                          = UniqueKeyTag(q, delivery[i].values)}
    BY DEF KeyIsShared
  <2>. QED BY <1>5, <2>1 DEF ExpectedFindings
<1>8. PICK o : o = DispositionOf(unit, D)
  OBVIOUS
<1>9. o.sequence = unit.sequence /\ o.findings = unit.findings \cup extras
  BY <1>5, <1>8 DEF DispositionOf
<1>. QED BY <1>1, <1>2, <1>6, <1>7, <1>8, <1>9

\* SpillIsTransparent and PublishedMeetsPolicy of an outcome.
Transparent(o) ==
    o.error = Ok =>
      /\ Len(o.dispositions) = Len(delivery)
      /\ \A i \in DOMAIN delivery :
           /\ o.dispositions[i].sequence = i - 1
           /\ o.dispositions[i].findings = ExpectedFindings(i)

RejectedIn(o) ==
    Cardinality({i \in DOMAIN o.dispositions : o.dispositions[i].status = "rejected"})

MeetsPolicy(o) ==
    /\ o.decision = "publish_all" => RejectedIn(o) = 0
    /\ o.decision = "publish_valid_rows" =>
         /\ policy.delivery = "append_only"
         /\ RejectedIn(o) < Len(delivery)
         /\ 100 * RejectedIn(o) <= policy.fraction * Len(delivery)

\* A validation that failed publishes nothing and claims no findings.
LEMMA ErrorMeets ==
    ASSUME NEW code, code # Ok, NEW o, o = [NoOutcome EXCEPT !.error = code]
    PROVE  Transparent(o) /\ MeetsPolicy(o) /\ o.error = code
<1>1. o.error = code /\ o.decision = "none"
  BY DEF NoOutcome
<1>. QED BY <1>1 DEF Transparent, MeetsPolicy

\* The decision is the policy's.
LEMMA DecisionMeets ==
    ASSUME NEW framed \in Nat, NEW errors \in Nat, errors <= framed, NEW batch_error,
           NEW decided, decided = DecidePublication(framed, errors, batch_error)
    PROVE  /\ decided = "publish_all" => errors = 0
           /\ decided = "publish_valid_rows" =>
                /\ policy.delivery = "append_only"
                /\ errors < framed
                /\ 100 * errors <= policy.fraction * framed
<1> DEFINE partial == /\ policy.mode = "publish_valid_rows"
                      /\ policy.delivery = "append_only"
                      /\ policy.progress = "opaque_batch"
<1>1. CASE \/ policy.mode = "publish_valid_rows" /\ ~partial
           \/ policy.mode = "all_or_nothing" /\ policy.fraction # 0
           \/ partial /\ policy.fraction \notin 0..99
  <2>1. decided = "invalid_config"
    BY <1>1 DEF DecidePublication
  <2>. QED BY <2>1
<1>2. CASE /\ ~(policy.mode = "publish_valid_rows" /\ ~partial)
           /\ ~(policy.mode = "all_or_nothing" /\ policy.fraction # 0)
           /\ ~(partial /\ policy.fraction \notin 0..99)
  <2>1. CASE batch_error
    <3>1. decided = "reject_delivery"
      BY <1>2, <2>1 DEF DecidePublication
    <3>. QED BY <3>1
  <2>2. CASE ~batch_error /\ (framed = 0 \/ errors = 0)
    <3>1. decided = "publish_all"
      BY <1>2, <2>2 DEF DecidePublication
    <3>2. errors = 0
      BY <2>2
    <3>. QED BY <3>1, <3>2
  <2>3. CASE ~batch_error /\ ~(framed = 0 \/ errors = 0)
    <3> DEFINE barred == \/ ~partial
                         \/ errors = framed
                         \/ 100 * errors > policy.fraction * framed
    <3>1. CASE barred
      <4>1. decided = "reject_delivery"
        BY <1>2, <2>3, <3>1 DEF DecidePublication
      <4>. QED BY <4>1
    <3>2. CASE ~barred
      <4>1. decided = "publish_valid_rows"
        BY <1>2, <2>3, <3>2 DEF DecidePublication
      <4>2. policy.delivery = "append_only" /\ policy.fraction \in 0..99
        BY <1>2, <3>2
      <4>3. PICK f, p : f = policy.fraction /\ p = f * framed
        OBVIOUS
      <4>4. f \in Int /\ p \in Int
        BY <4>2, <4>3
      <4>5. 100 * errors <= p
        BY <3>2, <4>3, <4>4
      <4>6. errors < framed
        BY <3>2
      <4>. QED BY <4>1, <4>2, <4>3, <4>5, <4>6
    <3>. QED BY <3>1, <3>2
  <2>. QED BY <2>1, <2>2, <2>3
<1>. QED BY <1>1, <1>2

\* What a validation ends with is what the contract asks for.
LEMMA ResultMeets ==
    ASSUME delivery \in Seq(FrameKinds), NEW D,
           D = Dispositions(WholeUnits, Duplicated(WholeTags)), NEW o, o = ResultOf(D)
    PROVE  Transparent(o) /\ MeetsPolicy(o)
<1>1. PICK n, dup : n = Len(delivery) /\ dup = Duplicated(WholeTags)
  OBVIOUS
<1>2. n \in Nat /\ DOMAIN delivery = 1..n
  BY <1>1
<1>3. DOMAIN WholeUnits = 1..n /\ \A i \in 1..n : WholeUnits[i] = UnitOf(delivery[i], i - 1)
  BY <1>1 DEF WholeUnits, UnitsUpTo
<1>4. D = [i \in 1..n |-> DispositionOf(WholeUnits[i], dup)]
  BY <1>1, <1>3 DEF Dispositions
<1>5. Len(D) = n /\ DOMAIN D = 1..n
  BY <1>2, <1>4
<1>6. o.error = Ok /\ o.dispositions = D /\ o.decision = Decision(D)
  BY DEF ResultOf
<1>7. ASSUME NEW i \in 1..n
      PROVE  D[i].sequence = i - 1 /\ D[i].findings = ExpectedFindings(i)
  <2>1. PICK unit : unit = WholeUnits[i]
    OBVIOUS
  <2>2. unit = UnitOf(delivery[i], i - 1) /\ D[i] = DispositionOf(unit, dup)
    BY <1>3, <1>4, <2>1
  <2>3. /\ DispositionOf(unit, Duplicated(WholeTags)).sequence = i - 1
        /\ DispositionOf(unit, Duplicated(WholeTags)).findings = ExpectedFindings(i)
    BY <1>1, <2>2, FindingsAreExpected
  <2>. QED BY <1>1, <2>2, <2>3
<1>8. Transparent(o)
  BY <1>1, <1>2, <1>5, <1>6, <1>7 DEF Transparent
<1>9. PICK errors : errors = Cardinality({i \in DOMAIN D : D[i].status = "rejected"})
  OBVIOUS
<1>10. errors \in Nat /\ errors <= n /\ errors = RejectedIn(o)
  <2>1. PICK S : S = {i \in DOMAIN D : D[i].status = "rejected"}
    OBVIOUS
  <2>2. S \subseteq 1..n
    BY <1>5, <2>1
  <2>3. 1 \in Int /\ n \in Int
    BY <1>2
  <2>4. IsFiniteSet(1..n) /\ Cardinality(1..n) = n
    <3>1. IsFiniteSet(1..n) /\ Cardinality(1..n) = IF 1 > n THEN 0 ELSE n - 1 + 1
      BY <2>3, FS_Interval
    <3>. QED BY <1>2, <3>1
  <2>5. IsFiniteSet(S) /\ Cardinality(S) <= n
    BY <2>2, <2>4, FS_Subset
  <2>6. Cardinality(S) \in Nat
    BY <2>5, FS_CardinalityType
  <2>. QED BY <1>6, <1>9, <2>1, <2>5, <2>6 DEF RejectedIn
<1>11. PICK batch, decided : /\ batch = (\E f \in RowCountFindings(Len(delivery)) : IsError(f))
                             /\ decided = DecidePublication(n, errors, batch)
  OBVIOUS
<1>12. /\ decided = "publish_all" => errors = 0
       /\ decided = "publish_valid_rows" =>
            /\ policy.delivery = "append_only"
            /\ errors < n
            /\ 100 * errors <= policy.fraction * n
  <2>1. n \in Nat /\ errors \in Nat /\ errors <= n /\ decided = DecidePublication(n, errors, batch)
    BY <1>2, <1>10, <1>11
  <2>. QED BY <2>1, DecisionMeets
<1>13. /\ Decision(D) = "publish_all" => decided = "publish_all"
       /\ Decision(D) = "publish_valid_rows" => decided = "publish_valid_rows"
  <2>1. Decision(D) = IF policy.delivery = "complete_snapshot" /\ decided # "invalid_config"
                           /\ (errors > 0 \/ decided # "publish_all")
                      THEN "reject_delivery" ELSE decided
    BY <1>1, <1>9, <1>11 DEF Decision
  <2>. QED BY <2>1
<1>14. MeetsPolicy(o)
  BY <1>1, <1>6, <1>10, <1>12, <1>13 DEF MeetsPolicy
<1>. QED BY <1>8, <1>14

-----------------------------------------------------------------------------
(* The steps *)

\* What only one of the steps says, in terms of the next state.
LEMMA PhaseHolds ==
    ASSUME delivery' = delivery, budget' = budget, NEW w, v' = w, NEW step, pc' = step,
           InPhase(w, step)
    PROVE  InPhase(v, pc)'
<1>1. ASSUME NEW n PROVE TagsOf(n)' = TagsOf(n)
  BY DEF TagsOf, IsTagOf
<1>2. ASSUME NEW n PROVE UnitsUpTo(n)' = UnitsUpTo(n)
  BY DEF UnitsUpTo
<1>3. WholeTags' = WholeTags /\ WholeUnits' = WholeUnits
  BY <1>1, <1>2 DEF WholeTags, WholeUnits
<1>4. Well(v)' <=> Well(w)
  BY DEF Well
<1>5. ASSUME NEW T PROVE ListsTags(v, T)' <=> ListsTags(w, T)
  BY DEF ListsTags
<1>6. ASSUME NEW us PROVE ListsUnits(v, us)' <=> ListsUnits(w, us)
  BY DEF ListsUnits
<1>7. ASSUME NEW T, NEW us, NEW h PROVE Holding(v, T, us, h)' <=> Holding(w, T, us, h)
  BY <1>4, <1>5, <1>6 DEF Holding
<1>8. InFrames(v)' <=> InFrames(w)
  BY <1>1, <1>2, <1>7 DEF InFrames
<1>9. InMerge(v)' <=> InMerge(w)
  BY <1>3, <1>7 DEF InMerge
<1>10. InMaterialize(v)' <=> InMaterialize(w)
  BY <1>3, <1>7 DEF InMaterialize
<1>. QED BY <1>4, <1>8, <1>9, <1>10 DEF InPhase

\* A step that goes on, or goes to the except clause.
LEMMA ContinueHolds ==
    ASSUME ValidationInductive, NEW w, NEW step \in {"frames", "merge", "materialize"},
           Continue(w, step), Well(w),
           w.error = Ok => /\ step = "frames" => InFrames(w)
                           /\ step = "merge" => InMerge(w)
                           /\ step = "materialize" => InMaterialize(w)
    PROVE  ValidationInductive'
<1>1. PICK next : next = IF w.error = Ok THEN step ELSE "raise"
  OBVIOUS
<1>2. /\ v' = w /\ scopes' = w.scopes /\ pc' = next
      /\ delivery' = delivery /\ budget' = budget /\ policy' = policy
      /\ outcome' = outcome /\ starts' = starts
  BY <1>1 DEF Continue
<1>3. next \in {"idle", "frames", "merge", "materialize", "raise"}
  BY <1>1
<1>4. InPhase(w, next)
  BY <1>1 DEF InPhase
<1>5. InPhase(v, pc)'
  BY <1>2, <1>4, PhaseHolds
<1>6. PublishedMeetsPolicy'
  BY <1>2 DEF ValidationInductive, PublishedMeetsPolicy
<1>7. SpillIsTransparent'
  BY <1>2 DEF ValidationInductive, SpillIsTransparent, ExpectedFindings
<1>. QED BY <1>2, <1>3, <1>5, <1>6, <1>7 DEF ValidationInductive

\* A validation begins with nothing in memory and the scopes that are there.
LEMMA FreshIsWell ==
    ASSUME budget \in Nat, NEW owner \in Evaluations, NEW d \in Disks, WellStored(d),
           NEW w, w = Fresh(owner, d)
    PROVE  /\ Well(w) /\ w.error = Ok /\ w.scopes = d /\ w.frame = 0
           /\ w.work = {} /\ w.runs = <<>> /\ w.merged = <<>> /\ w.tags = <<>>
           /\ w.units = <<>> /\ w.spill = NoScope /\ w.unit = NoScope /\ w.meter = 0
<1>1. DOMAIN d \in SUBSET Ids
  BY DiskParts
<1>2. PICK D : D = DOMAIN d
  OBVIOUS
<1>3. w = [owner |-> owner, frame |-> 0, meter |-> 0, peak |-> 0,
           tags |-> <<>>, units |-> <<>>, spill |-> NoScope, unit |-> NoScope,
           work |-> {}, runs |-> <<>>, merged |-> <<>>, duplicates |-> {},
           found |-> D, scopes |-> d, created |-> 0, error |-> Ok]
  BY <1>2 DEF Fresh
<1>4. Ok \in Codes
  BY DEF Codes
<1>5. <<>> \in Seq(TagRows) /\ <<>> \in Seq(UnitRows) /\ <<>> \in Seq(RunIds)
  OBVIOUS
<1>6. w \in Views
  BY <1>1, <1>2, <1>3, <1>4, <1>5 DEF Views
<1>7. /\ w.error = Ok /\ w.scopes = d /\ w.frame = 0 /\ w.peak = 0 /\ w.found = D
      /\ w.work = {} /\ w.runs = <<>> /\ w.merged = <<>> /\ w.tags = <<>>
      /\ w.units = <<>> /\ w.spill = NoScope /\ w.unit = NoScope /\ w.meter = 0
  BY <1>3
<1>8. 0 <= budget
  OBVIOUS
<1>9. Well(w)
  BY <1>2, <1>6, <1>7, <1>8 DEF Well, IsOwn, WellStored
<1>. QED BY <1>7, <1>9

\* Deleting scopes leaves the others as they are.
LEMMA DeletingLeaves ==
    ASSUME NEW d \in Disks, WellStored(d), NEW ids, NEW e, e = DeleteScopes(d, ids)
    PROVE  e \in Disks /\ WellStored(e) /\ DOMAIN e = DOMAIN d \ ids
<1>1. /\ DOMAIN d \in SUBSET Ids /\ \A x \in DOMAIN d : d[x] \in Scope
  BY DiskParts
<1>2. PICK D : D = DOMAIN d \ ids
  OBVIOUS
<1>3. e = [x \in D |-> d[x]]
  BY <1>2 DEF DeleteScopes
<1>4. D \in SUBSET Ids /\ e \in [D -> Scope]
  BY <1>1, <1>2, <1>3
<1>5. e \in Disks
  BY <1>4, DiskFrom
<1>. QED BY <1>2, <1>3, <1>5 DEF WellStored

\* The end of a validation, in whatever way.
LEMMA EndHolds ==
    ASSUME ValidationInductive, NEW d \in Disks, WellStored(d), scopes' = d,
           pc' = "idle", v' = Fresh(v.owner, scopes'),
           NEW o, outcome' = o, Transparent(o), MeetsPolicy(o),
           UNCHANGED <<delivery, budget, policy, starts>>
    PROVE  ValidationInductive'
<1>1. PICK w, owner : owner = v.owner /\ w = Fresh(owner, d)
  OBVIOUS
<1>2. budget \in Nat /\ owner \in Evaluations
  BY <1>1 DEF ValidationInductive, InPhase, Well, Views
<1>3. Well(w) /\ w.error = Ok /\ w.scopes = d
  BY <1>1, <1>2, FreshIsWell
<1>4. v' = w
  BY <1>1
<1>5. InPhase(w, "idle")
  BY <1>3 DEF InPhase
<1>6. PICK step : step = "idle"
  OBVIOUS
<1>7. InPhase(v, pc)'
  <2>1. delivery' = delivery /\ budget' = budget /\ pc' = step /\ InPhase(w, step)
    BY <1>5, <1>6
  <2>. QED BY <1>4, <2>1, PhaseHolds
<1>8. PublishedMeetsPolicy'
  BY DEF PublishedMeetsPolicy, MeetsPolicy, RejectedIn
<1>9. SpillIsTransparent'
  BY DEF SpillIsTransparent, Transparent, ExpectedFindings
<1>. QED BY <1>3, <1>4, <1>7, <1>8, <1>9 DEF ValidationInductive

\* A crash loses memory, and leaves the scopes.
LEMMA CrashHolds ==
    ASSUME ValidationInductive, Crash PROVE ValidationInductive'
<1>1. PICK d, o : d = scopes /\ o = [NoOutcome EXCEPT !.error = "crash"]
  OBVIOUS
<1>2. d \in Disks /\ WellStored(d)
  BY <1>1 DEF ValidationInductive, InPhase, Well, Views, WellStored
<1>3. Transparent(o) /\ MeetsPolicy(o)
  <2>1. "crash" # Ok
    BY DEF Ok
  <2>. QED BY <1>1, <2>1, ErrorMeets
<1>4. /\ scopes' = d /\ pc' = "idle" /\ v' = Fresh(v.owner, scopes') /\ outcome' = o
      /\ UNCHANGED <<delivery, budget, policy, starts>>
  BY <1>1 DEF Crash
<1>. QED BY <1>2, <1>3, <1>4, EndHolds

\* The finally clauses and the except clause of a validation that failed.
LEMMA RaiseErrorHolds ==
    ASSUME ValidationInductive, RaiseError PROVE ValidationInductive'
<1>1. PICK d, e, o, ids, code :
         /\ d = scopes /\ ids = OwnScopes(v) /\ e = DeleteScopes(d, ids) /\ code = v.error
         /\ o = [NoOutcome EXCEPT !.error = code]
  OBVIOUS
<1>2. d \in Disks /\ WellStored(d) /\ code # Ok
  BY <1>1 DEF ValidationInductive, InPhase, Well, Views, WellStored, RaiseError
<1>3. Transparent(o) /\ MeetsPolicy(o)
  BY <1>1, <1>2, ErrorMeets
<1>4. e \in Disks /\ WellStored(e)
  BY <1>1, <1>2, DeletingLeaves
<1>5. /\ scopes' = e /\ pc' = "idle" /\ v' = Fresh(v.owner, scopes') /\ outcome' = o
      /\ UNCHANGED <<delivery, budget, policy, starts>>
  BY <1>1 DEF RaiseError
<1>. QED BY <1>3, <1>4, <1>5, EndHolds

\* What UnitsAreRead says of the validation that materialize ends.
Materialized(r) ==
    /\ Well(r) /\ r.found = v.found
    /\ r.error = Ok => UnitsOf(r) = WholeUnits

\* All the units are read back, and their scope is closed.
LEMMA MaterializeReads ==
    ASSUME ValidationInductive, pc = "materialize",
           NEW r, r = ClosedUnits(IF v.unit = NoScope THEN v ELSE SpillUnits(v))
    PROVE  Materialized(r)
<1>1. PICK w, us, T : w = v /\ us = WholeUnits /\ T = WholeTags
  OBVIOUS
<1>2. budget \in Nat /\ Holding(w, T, us, 0) /\ w.error = Ok
  BY <1>1 DEF ValidationInductive, InPhase, InMaterialize
<1>3. /\ Well(r) /\ r.found = w.found
      /\ r.error = Ok => UnitsOf(r) = us
  <2>1. r = ClosedUnits(IF w.unit = NoScope THEN w ELSE SpillUnits(w))
    BY <1>1
  <2>. QED BY <1>2, <2>1, UnitsAreRead
<1>. QED BY <1>1, <1>3 DEF Materialized

\* The result is that of the whole delivery, in memory or spilled.
LEMMA MaterializeHolds ==
    ASSUME ValidationInductive, Materialize PROVE ValidationInductive'
<1>1. PICK r : r = ClosedUnits(IF v.unit = NoScope THEN v ELSE SpillUnits(v))
  OBVIOUS
<1>2. PICK d, ids, e, dup : /\ d = r.scopes /\ ids = OwnScopes(r) /\ e = DeleteScopes(d, ids)
                            /\ dup = v.duplicates
  OBVIOUS
<1>3. PICK o : o = IF r.error # Ok THEN [NoOutcome EXCEPT !.error = r.error]
                   ELSE ResultOf(Dispositions(UnitsOf(r), dup))
  OBVIOUS
<1>4. pc = "materialize" /\ Materialized(r)
  BY <1>1, MaterializeReads DEF Materialize
<1>5. d \in Disks /\ WellStored(d)
  BY <1>2, <1>4 DEF Materialized, Well, Views, WellStored
<1>6. e \in Disks /\ WellStored(e)
  BY <1>2, <1>5, DeletingLeaves
<1>7. dup = Duplicated(WholeTags) /\ delivery \in Seq(FrameKinds)
  BY <1>2, <1>4 DEF ValidationInductive, InPhase, InMaterialize
<1>8. Transparent(o) /\ MeetsPolicy(o)
  <2>1. CASE r.error # Ok
    <3>1. PICK code : code = r.error
      OBVIOUS
    <3>2. code # Ok /\ o = [NoOutcome EXCEPT !.error = code]
      BY <1>3, <2>1, <3>1
    <3>. QED BY <3>2, ErrorMeets
  <2>2. CASE r.error = Ok
    <3>1. PICK D : D = Dispositions(WholeUnits, Duplicated(WholeTags))
      OBVIOUS
    <3>2. UnitsOf(r) = WholeUnits
      BY <1>4, <2>2 DEF Materialized
    <3>3. o = ResultOf(D)
      BY <1>3, <1>7, <2>2, <3>1, <3>2
    <3>. QED BY <1>7, <3>1, <3>3, ResultMeets
  <2>. QED BY <2>1, <2>2
<1>9. /\ scopes' = e /\ pc' = "idle" /\ v' = Fresh(v.owner, scopes') /\ outcome' = o
      /\ UNCHANGED <<delivery, budget, policy, starts>>
  BY <1>1, <1>2, <1>3 DEF Materialize, EndWith
<1>. QED BY <1>6, <1>8, <1>9, EndHolds

\* Before the first frame no tag and no unit is listed.
LEMMA NoneSeen ==
    TagsOf(0) = {} /\ UnitsUpTo(0) = <<>>
<1>1. TagsOf(0) = {}
  BY DEF TagsOf
<1>2. UnitsUpTo(0) = <<>>
  BY DEF UnitsUpTo
<1>. QED BY <1>1, <1>2

\* A validation begins before its first frame.
LEMMA FreshIsInFrames ==
    ASSUME NEW w, Well(w), delivery \in Seq(FrameKinds),
           w.frame = 0, w.work = {}, w.runs = <<>>, w.merged = <<>>, w.tags = <<>>,
           w.units = <<>>, w.spill = NoScope, w.unit = NoScope, w.meter = 0
    PROVE  InFrames(w)
<1>1. AllTags(w) = <<>> /\ AllUnits(w) = <<>>
  <2>1. <<>> \o <<>> = <<>>
    OBVIOUS
  <2>. QED BY <2>1 DEF AllTags, AllUnits, Stored
<1>2. <<>> \in Seq(TagRows) /\ <<>> \in Seq(UnitRows) /\ Distinct(<<>>) /\ Members(<<>>) = {}
  BY DEF Distinct, Members
<1>3. ListsTags(w, TagsOf(0)) /\ ListsUnits(w, UnitsUpTo(0))
  BY <1>1, <1>2, NoneSeen DEF ListsTags, ListsUnits
<1>4. w.meter = Size(w.tags) + Size(w.units) + 0
  BY SizeOfNone
<1>5. w.frame \in 0..Len(delivery)
  OBVIOUS
<1>. QED BY <1>3, <1>4, <1>5 DEF InFrames, Holding

\* A validation starts, on whatever scopes an earlier one left.
LEMMA StartHolds ==
    ASSUME ValidationInductive, NEW e \in Evaluations, Start(e) PROVE ValidationInductive'
<1>1. PICK d, w, n : d = scopes /\ w = Fresh(e, d) /\ n = starts + 1
  OBVIOUS
<1>2. d \in Disks /\ WellStored(d) /\ budget \in Nat /\ delivery \in Seq(FrameKinds)
  BY <1>1 DEF ValidationInductive, InPhase, Well, Views, WellStored
<1>3. /\ Well(w) /\ w.error = Ok /\ w.scopes = d /\ w.frame = 0
      /\ w.work = {} /\ w.runs = <<>> /\ w.merged = <<>> /\ w.tags = <<>>
      /\ w.units = <<>> /\ w.spill = NoScope /\ w.unit = NoScope /\ w.meter = 0
  BY <1>1, <1>2, FreshIsWell
<1>4. InFrames(w)
  BY <1>2, <1>3, FreshIsInFrames
<1>5. PICK step : step = "frames"
  OBVIOUS
<1>6. InPhase(w, step)
  BY <1>3, <1>4, <1>5 DEF InPhase
<1>7. /\ v' = w /\ pc' = step /\ scopes' = d /\ delivery' = delivery /\ budget' = budget
      /\ policy' = policy /\ outcome' = outcome /\ starts' = n /\ n \in 0..MaxStarts
  <2>1. MaxStarts \in Nat /\ starts \in 0..MaxStarts
    BY ValidationParameters DEF ValidationInductive
  <2>. QED BY <1>1, <1>5, <2>1 DEF Start
<1>8. InPhase(v, pc)'
  BY <1>6, <1>7, PhaseHolds
<1>9. PublishedMeetsPolicy'
  BY <1>7 DEF ValidationInductive, PublishedMeetsPolicy
<1>10. SpillIsTransparent'
  BY <1>7 DEF ValidationInductive, SpillIsTransparent, ExpectedFindings
<1>. QED BY <1>2, <1>3, <1>5, <1>7, <1>8, <1>9, <1>10 DEF ValidationInductive

\* The next frame is in hand.
LEMMA NextFrame ==
    ASSUME NEW x, NEW T, NEW us, Holding(x, T, us, 0), NEW k \in Nat,
           NEW w, w = [x EXCEPT !.frame = k]
    PROVE  /\ Holding(w, T, us, 0) /\ w.frame = k /\ w.error = x.error
           /\ w.work = x.work /\ w.runs = x.runs /\ w.merged = x.merged
<1>1. x \in Views
  BY DEF Holding, Well
<1>2. /\ w \in Views /\ w.frame = k /\ w.work = x.work /\ w.runs = x.runs /\ w.merged = x.merged
      /\ w.owner = x.owner /\ w.meter = x.meter /\ w.peak = x.peak
      /\ w.found = x.found /\ w.tags = x.tags /\ w.units = x.units
      /\ w.spill = x.spill /\ w.unit = x.unit /\ w.scopes = x.scopes
      /\ w.error = x.error
  BY <1>1 DEF Views
<1>3. Grown(x, w)
  BY <1>2 DEF Grown, ChunksOf
<1>4. Holding(w, T, us, 0)
  BY <1>3, GrownHolds
<1>. QED BY <1>2, <1>4

\* A frame is observed under every rule and its unit is added.
LEMMA ValidateFrameHolds ==
    ASSUME ValidationInductive, ValidateFrame PROVE ValidationInductive'
<1>1. PICK u, n, m, frame, x, w : /\ u = v /\ n = v.frame /\ m = n + 1
                                  /\ frame = delivery[n + 1]
                                  /\ x = ValidateOne(u, frame, n)
                                  /\ w = [x EXCEPT !.frame = @ + 1]
  OBVIOUS
<1>2. pc = "frames" /\ n < Len(delivery) /\ Continue(w, "frames")
  BY <1>1 DEF ValidateFrame
<1>3. /\ InFrames(u) /\ budget \in Nat /\ delivery \in Seq(FrameKinds)
  BY <1>1, <1>2 DEF ValidationInductive, InPhase
<1>4. /\ n \in Nat /\ n + 1 \in 1..Len(delivery)
      /\ Holding(u, TagsOf(n), UnitsUpTo(n), 0)
      /\ u.work = {} /\ u.runs = <<>> /\ u.merged = <<>> /\ u.frame = n
  BY <1>1, <1>2, <1>3 DEF InFrames
<1>5. Holding(x, TagsOf(n + 1), UnitsUpTo(n + 1), 0) /\ Kept(u, x)
  BY <1>1, <1>3, <1>4, ValidateOneHolds
<1>6. x.frame = n /\ x.work = {} /\ x.runs = <<>> /\ x.merged = <<>> /\ m \in Nat
  BY <1>1, <1>4, <1>5 DEF Kept
<1>7. w = [x EXCEPT !.frame = m]
  <2>1. x \in Views
    BY <1>5 DEF Holding, Well
  <2>. QED BY <1>1, <1>6, <2>1 DEF Views
<1>8. PICK T, us : T = TagsOf(m) /\ us = UnitsUpTo(m)
  OBVIOUS
<1>9. Holding(x, T, us, 0)
  BY <1>1, <1>5, <1>8
<1>10. /\ Holding(w, T, us, 0) /\ w.frame = m
       /\ w.work = x.work /\ w.runs = x.runs /\ w.merged = x.merged
  BY <1>6, <1>7, <1>9, NextFrame
<1>11. InFrames(w)
  <2>1. m \in 0..Len(delivery)
    BY <1>1, <1>4
  <2>. QED BY <1>6, <1>8, <1>10, <2>1 DEF InFrames
<1>12. Well(w)
  BY <1>10 DEF Holding
<1>13. PICK step : step = "frames"
  OBVIOUS
<1>14. /\ step \in {"frames", "merge", "materialize"} /\ Continue(w, step)
       /\ w.error = Ok => /\ step = "frames" => InFrames(w)
                          /\ step = "merge" => InMerge(w)
                          /\ step = "materialize" => InMaterialize(w)
  BY <1>2, <1>11, <1>13
<1>. QED BY <1>12, <1>14, ContinueHolds

\* Duplicates are rows and rules.
LEMMA DuplicatedType ==
    ASSUME NEW T, T \subseteq TagRows
    PROVE  Duplicated(T) \in SUBSET (Nat \X Nat)
<1>1. \A a \in T : <<a.sequence, a.rule>> \in Nat \X Nat
  BY TagRowFields
<1>. QED BY <1>1 DEF Duplicated

\* The duplicates of all the tags were found.
LEMMA DuplicatesFound ==
    ASSUME NEW x, Holding(x, WholeTags, WholeUnits, 0),
           NEW d, d = Duplicated(WholeTags), NEW w, w = [x EXCEPT !.duplicates = d]
    PROVE  InMaterialize(w) /\ Well(w) /\ w.error = x.error
<1>1. x \in Views
  BY DEF Holding, Well
<1>2. d \in SUBSET (Nat \X Nat)
  <2>1. WholeTags \subseteq TagRows
    BY DEF WholeTags, TagsOf
  <2>. QED BY <2>1, DuplicatedType
<1>3. /\ w \in Views /\ w.duplicates = d
      /\ w.owner = x.owner /\ w.meter = x.meter /\ w.peak = x.peak /\ w.work = x.work
      /\ w.found = x.found /\ w.tags = x.tags /\ w.units = x.units
      /\ w.spill = x.spill /\ w.unit = x.unit /\ w.scopes = x.scopes
      /\ w.error = x.error
  BY <1>1, <1>2 DEF Views
<1>4. Grown(x, w)
  BY <1>3 DEF Grown, ChunksOf
<1>5. PICK T, us, h : T = WholeTags /\ us = WholeUnits /\ h = 0
  OBVIOUS
<1>6. Holding(x, T, us, h)
  BY <1>5
<1>7. Holding(w, T, us, h)
  BY <1>4, <1>6, GrownHolds
<1>. QED BY <1>3, <1>5, <1>7 DEF InMaterialize, Holding

\* Without a spill the duplicates are found among the tags in memory.
LEMMA DuplicatesInMemoryHolds ==
    ASSUME ValidationInductive, DuplicatesInMemory PROVE ValidationInductive'
<1>1. PICK u, d, w : /\ u = v /\ d = GroupFindings(u.tags) /\ w = [u EXCEPT !.duplicates = d]
  OBVIOUS
<1>2. /\ pc = "frames" /\ u.frame = Len(delivery) /\ u.spill = NoScope
      /\ Continue(w, "materialize")
  BY <1>1 DEF DuplicatesInMemory
<1>3. InFrames(u) /\ u.error = Ok
  BY <1>1, <1>2 DEF ValidationInductive, InPhase
<1>4. Holding(u, WholeTags, WholeUnits, 0)
  BY <1>2, <1>3 DEF InFrames, WholeTags, WholeUnits
<1>5. PICK tags : tags = u.tags
  OBVIOUS
<1>6. tags \in Seq(TagRows)
  BY <1>4, <1>5 DEF Holding, Well, Views
<1>7. AllTags(u) = tags
  <2>1. <<>> \o tags = tags
    BY <1>6, ConcatEmptySeq
  <2>. QED BY <1>2, <1>5, <2>1 DEF AllTags, Stored
<1>8. Distinct(tags) /\ Members(tags) = WholeTags
  BY <1>3, <1>4, <1>7 DEF Holding, ListsTags
<1>9. d = Duplicated(WholeTags)
  BY <1>1, <1>5, <1>6, <1>8, GroupsAreDuplicated
<1>10. InMaterialize(w) /\ Well(w)
  BY <1>1, <1>4, <1>9, DuplicatesFound
<1>11. PICK step : step = "materialize"
  OBVIOUS
<1>12. /\ step \in {"frames", "merge", "materialize"} /\ Continue(w, step)
       /\ w.error = Ok => /\ step = "frames" => InFrames(w)
                          /\ step = "merge" => InMerge(w)
                          /\ step = "materialize" => InMaterialize(w)
  BY <1>2, <1>10, <1>11
<1>. QED BY <1>10, <1>12, ContinueHolds

\* The last tags are spilled and the scope of tags is closed.
LEMMA SpillIsClosed ==
    ASSUME NEW w, NEW T, NEW us, Holding(w, T, us, 0), w.spill # NoScope, w.merged = <<>>,
           NEW r, r = CloseScope(SpillTags(w), w.owner, w.spill)
    PROVE  /\ Holding(r, T, us, 0)
           /\ r.error = Ok => ClosedSpill(r, T, us)
<1>1. PICK s, id, owner, zero : /\ s = SpillTags(w) /\ id = w.spill /\ owner = w.owner
                                /\ zero = 0
  OBVIOUS
<1>2. /\ Holding(s, T, us, zero) /\ Kept(w, s)
      /\ s.error = Ok => s.tags = <<>>
      /\ w.spill # NoScope => s.spill = w.spill
  <2>1. zero \in Nat /\ Holding(w, T, us, zero)
    BY <1>1
  <2>. QED BY <1>1, <2>1, SpillTagsHolds
<1>3. s.spill = id /\ s.owner = owner /\ s.merged = <<>> /\ id # NoScope
  BY <1>1, <1>2 DEF Kept
<1>4. s \in Views /\ r = CloseScope(s, owner, id)
  BY <1>1, <1>2 DEF Holding, Well
<1>5. Closes(s, r, owner, id)
  BY <1>4, CloseScopeCloses
<1>6. /\ Extends(s, r, id)
      /\ \A x \in DOMAIN s.scopes : ChunksOf(r, x) = ChunksOf(s, x)
      /\ r.error = Ok => s.error = Ok /\ r.scopes[id].closed = TRUE
  BY <1>5 DEF Closes
<1>7. /\ r \in Views /\ SameMemory(s, r) /\ DOMAIN r.scopes = DOMAIN s.scopes
      /\ WellStored(s.scopes) => WellStored(r.scopes)
  BY <1>6 DEF Extends
<1>8. r.scopes \in Disks /\ r.created \in Nat /\ r.error \in Codes
  BY <1>7 DEF Views
<1>9. /\ r.owner = s.owner /\ r.meter = s.meter /\ r.peak = s.peak /\ r.found = s.found
      /\ r.tags = s.tags /\ r.units = s.units /\ r.spill = s.spill /\ r.unit = s.unit
      /\ r.work = s.work /\ r.merged = s.merged
  BY <1>4, <1>7, <1>8, SameFields
<1>10. Grown(s, r)
  BY <1>6, <1>7, <1>9 DEF Grown
<1>11. Holding(r, T, us, 0)
  BY <1>1, <1>2, <1>10, GrownHolds
<1>. QED BY <1>2, <1>3, <1>6, <1>9, <1>11 DEF ClosedSpill

\* With a spill the last tags follow the others and the scope is cut into sorted runs.
LEMMA SortTagsHolds ==
    ASSUME ValidationInductive, SortTags PROVE ValidationInductive'
<1>1. PICK u, spilled, w :
         /\ u = v /\ spilled = CloseScope(SpillTags(u), u.owner, u.spill)
         /\ w = IF spilled.error # Ok THEN spilled ELSE BuildSortedRuns(spilled)
  OBVIOUS
<1>2. /\ pc = "frames" /\ u.frame = Len(delivery) /\ u.spill # NoScope
      /\ Continue(w, "merge")
  BY <1>1 DEF SortTags
<1>3. InFrames(u) /\ budget \in Nat
  BY <1>1, <1>2 DEF ValidationInductive, InPhase
<1>4. PICK T, us : T = WholeTags /\ us = WholeUnits
  OBVIOUS
<1>5. Holding(u, T, us, 0) /\ u.merged = <<>>
  BY <1>2, <1>3, <1>4 DEF InFrames, WholeTags, WholeUnits
<1>6. /\ Holding(spilled, T, us, 0)
      /\ spilled.error = Ok => ClosedSpill(spilled, T, us)
  BY <1>1, <1>2, <1>5, SpillIsClosed
<1>7. Well(w) /\ (w.error = Ok => InMerge(w))
  <2>1. CASE spilled.error # Ok
    BY <1>1, <1>6, <2>1 DEF Holding
  <2>2. CASE spilled.error = Ok
    <3>1. w = BuildSortedRuns(spilled) /\ ClosedSpill(spilled, T, us)
      BY <1>1, <1>6, <2>2
    <3>2. /\ Holding(w, T, us, 0) /\ w.tags = <<>>
          /\ w.error = Ok => Split(w, T)
      BY <1>3, <3>1, BuildSortedRunsHolds
    <3>. QED BY <1>4, <3>2 DEF InMerge, Holding
  <2>. QED BY <2>1, <2>2
<1>8. PICK step : step = "merge"
  OBVIOUS
<1>9. /\ step \in {"frames", "merge", "materialize"} /\ Continue(w, step)
      /\ w.error = Ok => /\ step = "frames" => InFrames(w)
                         /\ step = "merge" => InMerge(w)
                         /\ step = "materialize" => InMaterialize(w)
  BY <1>2, <1>7, <1>8
<1>. QED BY <1>7, <1>9, ContinueHolds

\* Between the sort and the scan the runs split the tags of the delivery.
LEMMA InMergeIsPassing ==
    ASSUME ValidationInductive, pc = "merge", NEW u, u = v
    PROVE  Passing(u, WholeTags, WholeUnits)
BY DEF ValidationInductive, InPhase, InMerge, Passing

\* A merge of two runs, or a run left over, keeps the split.
LEMMA MergeStepHolds ==
    ASSUME ValidationInductive, MergeStep PROVE ValidationInductive'
<1>1. PICK u, w, T, us : /\ u = v /\ w = MergeRuns(u, u.runs[1], u.runs[2])
                         /\ T = WholeTags /\ us = WholeUnits
  OBVIOUS
<1>2. pc = "merge" /\ Len(u.runs) > 1 /\ Continue(w, "merge")
  BY <1>1 DEF MergeStep
<1>3. Passing(u, T, us)
  BY <1>1, <1>2, InMergeIsPassing
<1>4. /\ Holding(w, T, us, 0) /\ w.tags = <<>>
      /\ w.error = Ok => Split(w, T)
  BY <1>1, <1>2, <1>3, MergeRunsHolds
<1>5. Well(w) /\ (w.error = Ok => InMerge(w))
  BY <1>1, <1>4 DEF InMerge, Holding
<1>6. PICK step : step = "merge"
  OBVIOUS
<1>7. /\ step \in {"frames", "merge", "materialize"} /\ Continue(w, step)
      /\ w.error = Ok => /\ step = "frames" => InFrames(w)
                         /\ step = "merge" => InMerge(w)
                         /\ step = "materialize" => InMaterialize(w)
  BY <1>2, <1>5, <1>6
<1>. QED BY <1>5, <1>7, ContinueHolds

\* The runs merged are those of the next pass, and the scopes of this one go.
LEMMA EndPassStepHolds ==
    ASSUME ValidationInductive, EndPass PROVE ValidationInductive'
<1>1. PICK u, w, T, us : /\ u = v /\ w = [u EXCEPT !.runs = u.merged \o u.runs, !.merged = <<>>]
                         /\ T = WholeTags /\ us = WholeUnits
  OBVIOUS
<1>2. pc = "merge" /\ Continue(w, "merge")
  BY <1>1 DEF EndPass
<1>3. Passing(u, T, us)
  BY <1>1, <1>2, InMergeIsPassing
<1>4. Passing(w, T, us)
  BY <1>1, <1>3, EndPassHolds
<1>5. Well(w) /\ InMerge(w)
  BY <1>1, <1>4 DEF InMerge, Holding, Passing
<1>6. PICK step : step = "merge"
  OBVIOUS
<1>7. /\ step \in {"frames", "merge", "materialize"} /\ Continue(w, step)
      /\ w.error = Ok => /\ step = "frames" => InFrames(w)
                         /\ step = "merge" => InMerge(w)
                         /\ step = "materialize" => InMaterialize(w)
  BY <1>2, <1>5, <1>6
<1>. QED BY <1>5, <1>7, ContinueHolds

\* The last run lists every tag, in order.
LEMMA LastRunIsWhole ==
    ASSUME NEW w, NEW T, NEW us, Passing(w, T, us), Len(w.runs) = 1, w.merged = <<>>,
           NEW rows, rows = RunRows(w, w.runs[1])
    PROVE  ScanRun(rows) = Duplicated(T)
<1>1. PICK A, B : A = RowSets(w, w.runs) /\ B = RowSets(w, w.merged)
  OBVIOUS
<1>2. AllRuns(w, w.runs) /\ Apart(A, 1, B, 0, T)
  <2>1. Len(w.merged) = 0
    OBVIOUS
  <2>. QED BY <1>1, <2>1 DEF Passing, Split
<1>3. 1 \in 1..1 /\ (\A i \in 1..1 : i = 1) /\ \A j \in 1..0 : FALSE
  OBVIOUS
<1>4. rows \in Seq(TagRows) /\ Ascending(rows)
  BY <1>2, <1>3 DEF AllRuns, IsRun
<1>5. A[1] = Members(rows)
  BY <1>1, <1>3 DEF RowSets
<1>6. T = Members(rows)
  <2>1. T \subseteq A[1]
    BY <1>2, <1>3 DEF Apart
  <2>2. A[1] \subseteq T
    BY <1>2, <1>3 DEF Apart
  <2>. QED BY <1>5, <2>1, <2>2
<1>. QED BY <1>4, <1>6, ScanIsDuplicated

\* The last run lists all the tags in order: equal keys stand together.
LEMMA ScanDuplicatesHolds ==
    ASSUME ValidationInductive, ScanDuplicates PROVE ValidationInductive'
<1>1. PICK u, rows, d, w : /\ u = v /\ rows = RunRows(u, u.runs[1]) /\ d = ScanRun(rows)
                           /\ w = [u EXCEPT !.duplicates = d]
  OBVIOUS
<1>2. pc = "merge" /\ Len(u.runs) = 1 /\ u.merged = <<>> /\ Continue(w, "materialize")
  BY <1>1 DEF ScanDuplicates
<1>3. PICK T, us : T = WholeTags /\ us = WholeUnits
  OBVIOUS
<1>4. Passing(u, T, us)
  BY <1>1, <1>2, <1>3, InMergeIsPassing
<1>5. d = Duplicated(T)
  BY <1>1, <1>2, <1>4, LastRunIsWhole
<1>6. Holding(u, WholeTags, WholeUnits, 0) /\ d = Duplicated(WholeTags)
  BY <1>3, <1>4, <1>5 DEF Passing
<1>10. InMaterialize(w) /\ Well(w)
  BY <1>1, <1>6, DuplicatesFound
<1>11. PICK step : step = "materialize"
  OBVIOUS
<1>12. /\ step \in {"frames", "merge", "materialize"} /\ Continue(w, step)
       /\ w.error = Ok => /\ step = "frames" => InFrames(w)
                          /\ step = "merge" => InMerge(w)
                          /\ step = "materialize" => InMaterialize(w)
  BY <1>2, <1>10, <1>11
<1>. QED BY <1>10, <1>12, ContinueHolds

\* A delivery has not been validated yet.
LEMMA InitHolds ==
    ASSUME Init PROVE ValidationInductive
<1>1. PICK d, owner, o : /\ d = [x \in {} |-> x] /\ owner = (CHOOSE e \in Evaluations : TRUE)
                         /\ o = NoOutcome
  OBVIOUS
<1>2. owner \in Evaluations
  BY <1>1, ValidationParameters
<1>3. d \in Disks /\ WellStored(d)
  <2>1. {} \in SUBSET Ids /\ d \in [{} -> Scope] /\ DOMAIN d = {}
    BY <1>1
  <2>. QED BY <2>1, DiskFrom DEF WellStored
<1>4. budget \in Nat /\ delivery \in Seq(FrameKinds)
  <2>1. budget \in Nat
    BY ValidationParameters DEF Init
  <2>2. PICK n \in 0..MaxFrames : delivery \in [1..n -> FrameKinds]
    BY DEF Init
  <2>3. n \in Nat
    BY ValidationParameters
  <2>. QED BY <2>1, <2>2, <2>3
<1>5. PICK w : w = Fresh(owner, d)
  OBVIOUS
<1>6. v = w /\ pc = "idle" /\ scopes = d /\ outcome = o /\ starts = 0
  BY <1>1, <1>5 DEF Init
<1>7. Well(w) /\ w.error = Ok /\ w.scopes = d
  BY <1>2, <1>3, <1>4, <1>5, FreshIsWell
<1>8. InPhase(v, pc)
  BY <1>6, <1>7 DEF InPhase
<1>9. o.error = "none" /\ o.decision = "none" /\ "none" # Ok
  BY <1>1 DEF NoOutcome, Ok
<1>10. SpillIsTransparent /\ PublishedMeetsPolicy
  BY <1>6, <1>9 DEF SpillIsTransparent, PublishedMeetsPolicy
<1>11. 0 \in 0..MaxStarts
  BY ValidationParameters
<1>. QED BY <1>4, <1>6, <1>7, <1>8, <1>10, <1>11 DEF ValidationInductive

\* Nothing changes.
LEMMA StutterHolds ==
    ASSUME ValidationInductive, UNCHANGED vars PROVE ValidationInductive'
<1>1. PICK w, step : w = v /\ step = pc
  OBVIOUS
<1>2. /\ v' = w /\ pc' = step /\ scopes' = scopes /\ delivery' = delivery /\ budget' = budget
      /\ policy' = policy /\ outcome' = outcome /\ starts' = starts /\ v' = v /\ pc' = pc
  BY <1>1 DEF vars
<1>3. InPhase(w, step)
  BY <1>1 DEF ValidationInductive
<1>4. InPhase(v, pc)'
  BY <1>2, <1>3, PhaseHolds
<1>5. PublishedMeetsPolicy'
  BY <1>2 DEF ValidationInductive, PublishedMeetsPolicy
<1>6. SpillIsTransparent'
  BY <1>2 DEF ValidationInductive, SpillIsTransparent, ExpectedFindings
<1>. QED BY <1>2, <1>4, <1>5, <1>6 DEF ValidationInductive

-----------------------------------------------------------------------------
(* Theorems *)

\* Every step of a validation keeps what its next phases need.
THEOREM ValidationIsInductive == Spec => []ValidationInductive
<1>1. Init => ValidationInductive
  BY InitHolds
<1>2. ValidationInductive /\ [Next]_vars => ValidationInductive'
  <2> SUFFICES ASSUME ValidationInductive, [Next]_vars PROVE ValidationInductive'
    OBVIOUS
  <2>1. ASSUME NEW e \in Evaluations, Start(e) PROVE ValidationInductive'
    BY <2>1, StartHolds
  <2>2. CASE ValidateFrame
    BY <2>2, ValidateFrameHolds
  <2>3. CASE DuplicatesInMemory
    BY <2>3, DuplicatesInMemoryHolds
  <2>4. CASE SortTags
    BY <2>4, SortTagsHolds
  <2>5. CASE MergeStep
    BY <2>5, MergeStepHolds
  <2>6. CASE EndPass
    BY <2>6, EndPassStepHolds
  <2>7. CASE ScanDuplicates
    BY <2>7, ScanDuplicatesHolds
  <2>8. CASE Materialize
    BY <2>8, MaterializeHolds
  <2>9. CASE RaiseError
    BY <2>9, RaiseErrorHolds
  <2>10. CASE Crash
    BY <2>10, CrashHolds
  <2>11. CASE UNCHANGED vars
    BY <2>11, StutterHolds
  <2>. QED
    BY <2>1, <2>2, <2>3, <2>4, <2>5, <2>6, <2>7, <2>8, <2>9, <2>10, <2>11 DEF Next
<1>. QED BY <1>1, <1>2, PTL DEF Spec

\* The inductive invariant implies the types, the meter and the policy.
LEMMA InductiveImplies ==
    ASSUME ValidationInductive PROVE ValidationInvariant
<1>1. /\ Well(v) /\ v \in Views /\ v.scopes = scopes /\ WellStored(scopes) /\ v.peak <= budget
      /\ v.scopes \in Disks
  BY DEF ValidationInductive, InPhase, Well, WellStored, Views
<1>2. /\ DOMAIN scopes \subseteq Ids
      /\ \A id \in DOMAIN scopes : scopes[id] \in Scope
  <2>1. PICK d : d = scopes
    OBVIOUS
  <2>2. d \in Disks
    BY <1>1, <2>1
  <2>. QED BY <2>1, <2>2, DiskParts
<1>3. ASSUME NEW id \in DOMAIN scopes
      PROVE  /\ id[1] \in Evaluations /\ Size(scopes[id].rows) <= CapacityBytes
             /\ scopes[id].closed \in BOOLEAN
  <2>1. id[1] \in Evaluations
    BY <1>2 DEF Ids
  <2>2. scopes[id].closed \in BOOLEAN
    BY <1>2 DEF Scope
  <2>. QED BY <1>1, <2>1, <2>2 DEF WellStored
<1>4. v.meter \in Nat /\ v.peak \in Nat
  BY <1>1 DEF Views
<1>5. ValidationTypeOK
  BY <1>3, <1>4 DEF ValidationTypeOK, ValidationInductive
<1>6. ASSUME Running, v.error = Ok PROVE v.meter = Size(v.tags) + Size(v.units)
  <2>1. PICK T, us : Holding(v, T, us, 0)
    <3>1. pc \in {"frames", "merge", "materialize"}
      BY <1>6 DEF ValidationInductive, InPhase, Running
    <3>. QED BY <3>1 DEF ValidationInductive, InPhase, InFrames, InMerge, InMaterialize
  <2>2. v.meter = Size(v.tags) + Size(v.units) + 0
    BY <1>6, <2>1 DEF Holding
  <2>3. v.tags \in Seq(TagRows) /\ v.units \in Seq(UnitRows)
    BY <1>1 DEF Views
  <2>4. Size(v.tags) \in Nat /\ Size(v.units) \in Nat
    BY <2>3, RowsOf
  <2>. QED BY <2>2, <2>4
<1>7. MeterIsRetained
  BY <1>1, <1>6 DEF MeterIsRetained
<1>. QED BY <1>5, <1>7 DEF ValidationInvariant, ValidationInductive

\* A validation keeps within its memory budget, by a meter that counts what it
\* holds, and what it publishes meets the policy.
THEOREM ValidationHolds == Spec => []ValidationInvariant
<1>1. ValidationInductive => ValidationInvariant
  BY InductiveImplies
<1>. QED BY <1>1, ValidationIsInductive, PTL

\* What a validation finds is what the contract asks for, whatever was spilled,
\* however the tags were cut into runs, merged and read back.
THEOREM SpillingIsTransparent == Spec => []SpillIsTransparent
<1>1. ValidationInductive => SpillIsTransparent
  BY DEF ValidationInductive
<1>. QED BY <1>1, ValidationIsInductive, PTL

EndsClean ==
    (Running /\ ~Running' /\ outcome'.error # "crash") => DOMAIN scopes' \subseteq v.found

\* A step that ends a validation, short of a crash, leaves the scopes it found.
LEMMA StepEndsClean ==
    ASSUME ValidationInductive, [Next]_vars PROVE EndsClean
<1> SUFFICES ASSUME Running, ~Running', outcome'.error # "crash"
             PROVE  DOMAIN scopes' \subseteq v.found
  BY DEF EndsClean
<1>1. pc' = "idle" /\ pc # "idle"
  BY DEF Running
<1>2. ~Crash
  <2>1. NoOutcome = [error |-> "none", dispositions |-> <<>>, decision |-> "none"]
    BY DEF NoOutcome
  <2>2. [NoOutcome EXCEPT !.error = "crash"].error = "crash"
    BY <2>1
  <2>. QED BY <2>2 DEF Crash
<1>3. \/ Materialize \/ RaiseError
  <2>1. ASSUME NEW w, NEW step \in {"frames", "merge", "materialize"}, Continue(w, step)
        PROVE  FALSE
    BY <1>1, <2>1 DEF Continue
  <2>2. ~ValidateFrame /\ ~DuplicatesInMemory /\ ~SortTags /\ ~MergeStep /\ ~EndPass
        /\ ~ScanDuplicates
    BY <2>1 DEF ValidateFrame, DuplicatesInMemory, SortTags, MergeStep, EndPass, ScanDuplicates
  <2>3. \A e \in Evaluations : ~Start(e)
    BY DEF Start
  <2>4. ~UNCHANGED vars
    BY <1>1 DEF vars
  <2>. QED BY <1>2, <2>2, <2>3, <2>4 DEF Next
<1>4. CASE Materialize
  <2>1. PICK r, d, ids : /\ r = ClosedUnits(IF v.unit = NoScope THEN v ELSE SpillUnits(v))
                         /\ d = r.scopes /\ ids = OwnScopes(r)
    OBVIOUS
  <2>2. Materialized(r)
    BY <1>4, <2>1, MaterializeReads DEF Materialize
  <2>3. d \in Disks /\ WellStored(d) /\ DOMAIN d \subseteq r.found \cup ids /\ r.found = v.found
    BY <2>1, <2>2 DEF Materialized, Well, Views, WellStored
  <2>4. DOMAIN DeleteScopes(d, ids) = DOMAIN d \ ids
    BY <2>3, DeletingLeaves
  <2>5. scopes' = DeleteScopes(d, ids)
    BY <1>4, <2>1 DEF Materialize, EndWith
  <2>. QED BY <2>3, <2>4, <2>5
<1>5. CASE RaiseError
  <2>1. PICK d, ids : d = scopes /\ ids = OwnScopes(v)
    OBVIOUS
  <2>2. d \in Disks /\ WellStored(d) /\ DOMAIN d \subseteq v.found \cup ids
    BY <2>1 DEF ValidationInductive, InPhase, Well, Views, WellStored
  <2>3. DOMAIN DeleteScopes(d, ids) = DOMAIN d \ ids
    BY <2>2, DeletingLeaves
  <2>4. scopes' = DeleteScopes(d, ids)
    BY <1>5, <2>1 DEF RaiseError
  <2>. QED BY <2>2, <2>3, <2>4
<1>. QED BY <1>3, <1>4, <1>5

\* A validation that ends with a result or an error leaves no scope behind but
\* those it found.
THEOREM ValidationsEndClean == Spec => EndsWithoutScopes
<1>1. ValidationInductive /\ [Next]_vars => EndsClean
  BY StepEndsClean
<1>2. Spec => [][EndsClean]_vars
  BY <1>1, ValidationIsInductive, PTL DEF Spec
<1>. QED BY <1>2 DEF EndsWithoutScopes, EndsClean

=============================================================================
