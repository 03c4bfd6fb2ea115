----------------------------- MODULE VaultProofs -----------------------------
(***************************************************************************)
(* Proofs about VaultEvolution: what the evolution ledger tells of stored   *)
(* rows, that history is kept, and that a change reaches the version in     *)
(* force, for any satellites, declarations and values.                      *)
(***************************************************************************)
EXTENDS VaultEvolution, WellFoundedInduction, TLAPS

-----------------------------------------------------------------------------
(* The inductive invariant *)

\* What a record says of the rows of one version, as RecordOf reads it, covers
\* the columns, and their types.
RecordFor(record, version) ==
    IF record.basis_version = version THEN record.shape ELSE record.superseded[version]

DescribedBy(record, version, columns, types) ==
    /\ record # Nothing
    /\ version \in FirstBasisVersion..record.basis_version
    /\ columns \subseteq ToSet(RecordFor(record, version).payload)
    /\ \A column \in columns : types[column] = RecordFor(record, version).types[column]

\* One entry is archived for each version before the recorded one, and a
\* staged basis is part of its payload.
LedgerIsWhole ==
    \A s \in Satellites : ledger[s] # Nothing =>
        /\ Len(ledger[s].superseded) = ledger[s].basis_version - 1
        /\ ledger[s].pending # Nothing =>
             ToSet(ledger[s].pending.basis) \subseteq ToSet(ledger[s].pending.payload)

StoredIsDescribed ==
    \A s \in Satellites \ dropped : \A row \in store[s] :
        DescribedBy(ledger[s], row.version, DOMAIN row.payload, row.types)

\* The statement a build would run stores rows the ledger describes, under a
\* version no stored row is ahead of.
EmittedIsDescribed ==
    \A s \in Satellites \ dropped : emitted[s] # Nothing =>
        /\ s \notin unrecorded =>
             DescribedBy(ledger[s], emitted[s].version, ToSet(emitted[s].payload),
                         emitted[s].types)
        /\ \A row \in store[s] : row.version <= emitted[s].version

\* A fingerprint is over the values of the row's own payload.
FingerprintsAgree ==
    \A s \in Satellites :
        /\ emitted[s] # Nothing =>
             ToSet(emitted[s].basis) \subseteq ToSet(emitted[s].payload)
        /\ \A row \in store[s] : row.fingerprint
             = [i \in DOMAIN row.basis |-> row.payload[row.basis[i]]]

\* The statement of a satellite built since the last delivery and emission has
\* stored the delivery, if what it had to compare with was fingerprinted over
\* the same columns and was not ahead of the delivery.
Current(s) ==
    \A r \in store[s] : r.version = emitted[s].version =>
        r.basis = emitted[s].basis /\ r.at <= delivered.at

Stored(s) ==
    \E row \in store[s] :
        /\ row.version = emitted[s].version
        /\ \A r \in store[s] : r.version = emitted[s].version => r.at <= row.at
        /\ \A column \in ToSet(emitted[s].basis) :
             row.payload[column] = delivered.values[column]

BuiltIsStored ==
    \A s \in built : emitted[s] # Nothing /\ (Current(s) => Stored(s))

VaultInductive ==
    /\ VaultTypeOK
    /\ LedgerIsWhole
    /\ StoredIsDescribed
    /\ EmittedIsDescribed
    /\ FingerprintsAgree
    /\ BuiltIsStored
-----------------------------------------------------------------------------
(* The columns left in change detection *)

\* Every nonempty set of naturals has a least element: induction over the
\* length of a sequence, in a form the provers can use.
LEMMA LeastNatural ==
    ASSUME NEW T, T \subseteq Nat, T # {}
    PROVE  \E x \in T : \A y \in T : x <= y
<1> DEFINE R == OpToRel(<, Nat)
<1>1. IsWellFoundedOn(R, Nat)
  BY NatLessThanWellFounded
<1>2. \A y, x \in Nat : y < x => <<y, x>> \in R
  BY DEF OpToRel
<1> HIDE DEF R
<1>3. PICK x \in T : \A y \in T : ~ (<<y, x>> \in R)
  BY <1>1, WFMin
<1>4. ASSUME NEW y \in T PROVE x <= y
  <2>1. x \in Nat /\ y \in Nat
    OBVIOUS
  <2>2. ~(y < x)
    BY <1>2, <1>3, <2>1
  <2>. QED BY <2>1, <2>2
<1>. QED BY <1>4

\* The equations of the function Remaining is defined by.
Step(g, columns, others, i) ==
    IF i = 0 THEN <<>>
    ELSE IF columns[i] \in others THEN g[i - 1]
    ELSE Append(g[i - 1], columns[i])

Steps(g, columns, others, n) ==
    \A i \in 0..n : g[i] = Step(g, columns, others, i)

\* The function exists: a least place up to which it does not is no place.
LEMMA KeptExists ==
    ASSUME NEW C, NEW columns \in Seq(C), NEW others
    PROVE  \E g : /\ g \in [0..Len(columns) -> Seq(C)]
                 /\ Steps(g, columns, others, Len(columns))
<1> USE DEF Steps
<1> DEFINE Built(n) == \E g : g \in [0..n -> Seq(C)] /\ Steps(g, columns, others, n)
           T == {n \in 0..Len(columns) : ~Built(n)}
<1>0. SUFFICES Built(Len(columns))
  OBVIOUS
<1>1. SUFFICES ASSUME T # {} PROVE FALSE
  <2> HIDE DEF Built
  <2>. QED OBVIOUS
<1>2. PICK m \in T : \A n \in T : m <= n
  <2>1. T \subseteq Nat
    OBVIOUS
  <2> HIDE DEF T
  <2>. QED BY <1>1, <2>1, LeastNatural
<1>3. Built(0)
  <2> DEFINE e == [i \in 0..0 |-> <<>>]
  <2>1. e \in [0..0 -> Seq(C)] /\ \A i \in 0..0 : i = 0 /\ e[i] = <<>>
    OBVIOUS
  <2> HIDE DEF e
  <2>2. \A i \in 0..0 : e[i] = Step(e, columns, others, i)
    BY <2>1 DEF Step
  <2>. QED BY <2>1, <2>2
<1>4. m \in 1..Len(columns) /\ m - 1 \in 0..Len(columns) /\ ~Built(m)
  <2> HIDE DEF Built
  <2>. QED BY <1>3
<1>5. Built(m - 1)
  <2> HIDE DEF Built
  <2>. QED BY <1>2, <1>4
<1>6. PICK g \in [0..(m - 1) -> Seq(C)] :
        \A i \in 0..(m - 1) : g[i] = Step(g, columns, others, i)
  BY <1>5
<1> DEFINE h == [i \in 0..m |-> IF i = m THEN Step(g, columns, others, m) ELSE g[i]]
<1>7. h \in [0..m -> Seq(C)]
  <2>1. columns[m] \in C /\ g[m - 1] \in Seq(C)
    BY <1>4
  <2>2. Step(g, columns, others, m) \in Seq(C)
    BY <1>4, <2>1 DEF Step
  <2>. QED BY <1>4, <2>2
<1>8. ASSUME NEW i \in 0..m PROVE h[i] = Step(h, columns, others, i)
  <2>1. CASE i = m
    <3>1. h[m - 1] = g[m - 1] /\ h[m] = Step(g, columns, others, m)
      BY <1>4
    <3>. QED BY <1>4, <2>1, <3>1 DEF Step
  <2>2. CASE i # m
    <3>1. i \in 0..(m - 1) /\ h[i] = g[i]
      BY <1>4, <2>2
    <3>2. i # 0 => h[i - 1] = g[i - 1]
      BY <1>4, <2>2
    <3>. QED BY <1>6, <3>1, <3>2 DEF Step
  <2>. QED BY <2>1, <2>2
<1> HIDE DEF h
<1>9. Built(m)
  BY <1>7, <1>8
<1>. QED BY <1>4, <1>9

LEMMA AppendAdds ==
    ASSUME NEW C, NEW s \in Seq(C), NEW c \in C
    PROVE  Append(s, c) \in Seq(C) /\ ToSet(Append(s, c)) = ToSet(s) \cup {c}
<1>1. /\ Len(s) \in Nat /\ DOMAIN s = 1..Len(s)
      /\ DOMAIN Append(s, c) = 1..(Len(s) + 1)
      /\ \A j \in 1..Len(s) : Append(s, c)[j] = s[j]
      /\ Append(s, c)[Len(s) + 1] = c
  OBVIOUS
<1>2. Append(s, c) \in Seq(C)
  OBVIOUS
<1>3. ToSet(Append(s, c)) \subseteq ToSet(s) \cup {c}
  BY <1>1 DEF ToSet
<1>4. ToSet(s) \subseteq ToSet(Append(s, c))
  BY <1>1 DEF ToSet
<1>5. c \in ToSet(Append(s, c))
  BY <1>1 DEF ToSet
<1>. QED BY <1>2, <1>3, <1>4, <1>5

\* What is left of the columns are those that are not among the others.
LEMMA RemainingColumns ==
    ASSUME NEW C, NEW columns \in Seq(C), NEW others
    PROVE  /\ Remaining(columns, others) \in Seq(C)
           /\ ToSet(Remaining(columns, others)) = ToSet(columns) \ others
<1>0. PICK g : /\ g \in [0..Len(columns) -> Seq(C)]
               /\ Steps(g, columns, others, Len(columns))
  BY KeptExists
<1> DEFINE n == Len(columns)
           Kept(f) == f = [i \in 0..n |-> Step(f, columns, others, i)]
           kept == CHOOSE f : Kept(f)
<1>1. Remaining(columns, others) = kept[n]
  BY DEF Remaining, Step
<1>3. Kept(g)
  BY <1>0 DEF Steps
<1>4. Kept(kept)
  <2> HIDE DEF Kept
  <2>. QED BY <1>3
<1>5. \A i \in 0..n : kept[i] = Step(kept, columns, others, i)
  <2> HIDE DEF kept
  <2>. QED BY <1>4
<1> HIDE DEF kept, Kept
<1> DEFINE Upto(i) == {columns[j] : j \in 1..i}
           Right(i) == kept[i] \in Seq(C) /\ ToSet(kept[i]) = Upto(i) \ others
           T == {i \in 0..n : ~Right(i)}
<1>6. Right(0)
  <2>1. kept[0] = <<>>
    BY <1>5 DEF Step
  <2>2. ToSet(<<>>) = {}
    BY DEF ToSet
  <2>3. Upto(0) = {}
    OBVIOUS
  <2>. QED BY <2>1, <2>2, <2>3
<1>7. ASSUME NEW m \in 1..n, Right(m - 1) PROVE Right(m)
  <2>1. m \in 0..n /\ m # 0 /\ columns[m] \in C
    OBVIOUS
  <2>2. Upto(m) = Upto(m - 1) \cup {columns[m]}
    <3>1. \A j : j \in 1..m <=> j \in 1..(m - 1) \/ j = m
      OBVIOUS
    <3>. QED BY <3>1
  <2> HIDE DEF Upto
  <2>3. CASE columns[m] \in others
    <3>1. kept[m] = kept[m - 1]
      BY <1>5, <2>1, <2>3 DEF Step
    <3>. QED BY <1>7, <2>2, <2>3, <3>1
  <2>4. CASE columns[m] \notin others
    <3>1. kept[m] = Append(kept[m - 1], columns[m])
      BY <1>5, <2>1, <2>4 DEF Step
    <3>2. kept[m] \in Seq(C) /\ ToSet(kept[m]) = ToSet(kept[m - 1]) \cup {columns[m]}
      BY <1>7, <2>1, <3>1, AppendAdds
    <3>. QED BY <1>7, <2>2, <2>4, <3>2
  <2>. QED BY <2>3, <2>4
<1>8. Right(n)
  <2> HIDE DEF Right
  <2>1. SUFFICES ASSUME T # {} PROVE FALSE
    OBVIOUS
  <2>2. T \subseteq Nat
    OBVIOUS
  <2>3. PICK m \in T : \A i \in T : m <= i
    <3> HIDE DEF T
    <3>. QED BY <2>1, <2>2, LeastNatural
  <2>4. m \in 1..n /\ m - 1 \in 0..n
    BY <1>6
  <2>. QED BY <1>7, <2>3, <2>4
<1>9. Upto(n) = ToSet(columns)
  BY DEF ToSet
<1>. QED BY <1>1, <1>8, <1>9

-----------------------------------------------------------------------------
(* Declarations, records and statements *)

LEMMA DeclarationIsTyped ==
    ASSUME NEW d \in Declarations
    PROVE  /\ d.payload \in Seq(Columns) /\ d.exclusions \in SUBSET Columns
           /\ Basis(d) \in Seq(Columns) /\ ToSet(Basis(d)) \subseteq ToSet(d.payload)
           /\ ToSet(d.payload) \subseteq Columns
           /\ d.kind \in {c.kind : c \in Declarations}
           /\ d.change_column \in {c.change_column : c \in Declarations}
           /\ d.types \in Types
<1>1. ToSet(d.payload) \subseteq Columns
  BY DEF Columns
<1>2. d.payload \in Seq(ToSet(d.payload)) /\ d.exclusions \subseteq ToSet(d.payload)
  BY DeclarationsAssumption
<1>3. d.payload \in Seq(Columns)
  BY <1>1, <1>2
<1>4. d.exclusions \in SUBSET Columns
  BY <1>1, <1>2
<1>5. Basis(d) \in Seq(Columns) /\ ToSet(Basis(d)) = ToSet(d.payload) \ d.exclusions
  BY <1>3, RemainingColumns DEF Basis
<1>. QED BY <1>1, <1>3, <1>4, <1>5 DEF Types

LEMMA FieldsAreShape ==
    ASSUME NEW d \in Declarations
    PROVE  Fields(d) \in Shape
BY DeclarationIsTyped DEF Fields, Shape

LEMMA BootstrapIsRecord ==
    ASSUME NEW d \in Declarations
    PROVE  Bootstrap(d) \in Record
<1>1. FirstBasisVersion \in FirstBasisVersion..MaxVersion
  BY BoundsAssumption DEF FirstBasisVersion
<1>. QED BY <1>1, FieldsAreShape DEF Bootstrap, Record

\* The record an absorbed declaration leaves: the version and the archive stay,
\* the columns are the declared ones.
LEMMA GradeIsRecord ==
    ASSUME NEW d \in Declarations, NEW r \in Record
    PROVE  /\ GradeOne(d, r) \in Record
           /\ GradeOne(d, r).shape.payload = d.payload
           /\ GradeOne(d, r).shape.types = d.types
           /\ GradeOne(d, r).shape.basis = r.shape.basis
           /\ GradeOne(d, r).basis_version = r.basis_version
           /\ GradeOne(d, r).superseded = r.superseded
           /\ GradeOne(d, r).pending = r.pending
<1> DEFINE shape == [Fields(d) EXCEPT !.basis = r.shape.basis]
<1>1. r.shape \in Shape
  BY DEF Record
<1>2. Fields(d) \in Shape /\ Fields(d).payload = d.payload /\ Fields(d).types = d.types
  BY FieldsAreShape DEF Fields
<1>3. /\ shape \in Shape /\ shape.payload = d.payload /\ shape.types = d.types
      /\ shape.basis = r.shape.basis
  BY <1>1, <1>2 DEF Shape
<1>4. GradeOne(d, r) = [r EXCEPT !.shape = shape]
  BY DEF GradeOne
<1> HIDE DEF shape
<1>. QED BY <1>3, <1>4 DEF Record

\* What an emission that is not stopped computes of one satellite.
LEMMA GradeOfSatellite ==
    ASSUME VaultInductive, Absorbed, NEW s \in Satellites, declared[s] # Nothing
    PROVE  /\ declared[s] \in Declarations
           /\ Grade(s) \in Record
           /\ Grade(s).shape.payload = declared[s].payload
           /\ Grade(s).shape.types = declared[s].types
           /\ ToSet(Grade(s).shape.basis) \subseteq ToSet(declared[s].payload)
           /\ Grade(s).pending = Nothing
           /\ Len(Grade(s).superseded) = Grade(s).basis_version - 1
           /\ ledger[s] # Nothing =>
                /\ Grade(s).basis_version = ledger[s].basis_version
                /\ Grade(s).superseded = ledger[s].superseded
                /\ ToSet(ledger[s].shape.payload) \subseteq ToSet(declared[s].payload)
                /\ \A column \in ToSet(ledger[s].shape.payload) :
                     declared[s].types[column] = ledger[s].shape.types[column]
<1>1. declared[s] \in Declarations
  BY DEF VaultInductive, VaultTypeOK
<1>2. CASE ledger[s] = Nothing
  <2>1. Grade(s) = Bootstrap(declared[s])
    BY <1>2 DEF Grade
  <2>2. /\ Bootstrap(declared[s]).shape = Fields(declared[s])
        /\ Bootstrap(declared[s]).pending = Nothing
        /\ Bootstrap(declared[s]).superseded = <<>>
        /\ Bootstrap(declared[s]).basis_version = 1
    BY DEF Bootstrap, FirstBasisVersion
  <2>3. /\ Fields(declared[s]).payload = declared[s].payload
        /\ Fields(declared[s]).types = declared[s].types
        /\ Fields(declared[s]).basis = Basis(declared[s])
    BY DEF Fields
  <2>4. Len(<<>>) = 1 - 1
    OBVIOUS
  <2>. QED BY <1>1, <1>2, <2>1, <2>2, <2>3, <2>4, BootstrapIsRecord, DeclarationIsTyped
<1>3. CASE ledger[s] # Nothing
  <2>1. ledger[s] \in Record /\ Grade(s) = GradeOne(declared[s], ledger[s])
    BY <1>3 DEF Grade, VaultInductive, VaultTypeOK
  <2>2. Absorbs(declared[s], ledger[s])
    BY <1>3 DEF Absorbed
  <2>3. /\ ledger[s].pending = Nothing
        /\ ToSet(ledger[s].shape.payload) \subseteq ToSet(declared[s].payload)
        /\ \A column \in ToSet(declared[s].payload) \cap ToSet(ledger[s].shape.payload) :
             declared[s].types[column] = ledger[s].shape.types[column]
    BY <2>2 DEF Absorbs, Removes, Retyped
  <2>4. /\ Len(ledger[s].superseded) = ledger[s].basis_version - 1
        /\ ToSet(ledger[s].shape.basis) \subseteq ToSet(ledger[s].shape.payload)
    BY <1>3 DEF VaultInductive, VaultTypeOK, LedgerIsWhole
  <2>5. \A column \in ToSet(ledger[s].shape.payload) :
          declared[s].types[column] = ledger[s].shape.types[column]
    BY <2>3
  <2>6. ToSet(ledger[s].shape.basis) \subseteq ToSet(declared[s].payload)
    BY <2>3, <2>4
  <2>. QED BY <1>1, <2>1, <2>3, <2>4, <2>5, <2>6, GradeIsRecord
<1>. QED BY <1>2, <1>3

LEMMA StatementOfSatellite ==
    ASSUME VaultInductive, Absorbed, NEW s \in Satellites, declared[s] # Nothing
    PROVE  /\ Statement(s, Grade(s)) \in Rendered
           /\ Statement(s, Grade(s)).version = Grade(s).basis_version
           /\ Statement(s, Grade(s)).payload = declared[s].payload
           /\ Statement(s, Grade(s)).types = declared[s].types
           /\ Statement(s, Grade(s)).basis = Basis(declared[s])
<1>1. declared[s] \in Declarations /\ Grade(s) \in Record
  BY GradeOfSatellite
<1>2. Grade(s).basis_version \in FirstBasisVersion..MaxVersion
  BY <1>1 DEF Record
<1>. QED BY <1>1, <1>2, DeclarationIsTyped DEF Statement, Rendered
\* A record that changes still describes what it described.
LEMMA GradeDescribes ==
    ASSUME VaultInductive, Absorbed, NEW s \in Satellites, declared[s] # Nothing,
           NEW version, NEW columns, NEW types,
           DescribedBy(ledger[s], version, columns, types)
    PROVE  DescribedBy(Grade(s), version, columns, types)
<1>1. ledger[s] # Nothing
  BY DEF DescribedBy
<1>2. /\ Grade(s) \in Record /\ Grade(s) # Nothing
      /\ Grade(s).shape.payload = declared[s].payload
      /\ Grade(s).shape.types = declared[s].types
      /\ Grade(s).basis_version = ledger[s].basis_version
      /\ Grade(s).superseded = ledger[s].superseded
      /\ ToSet(ledger[s].shape.payload) \subseteq ToSet(declared[s].payload)
      /\ \A column \in ToSet(ledger[s].shape.payload) :
           declared[s].types[column] = ledger[s].shape.types[column]
  BY <1>1, GradeOfSatellite, NothingAssumption
<1>3. CASE version = ledger[s].basis_version
  BY <1>2, <1>3 DEF DescribedBy, RecordFor
<1>4. CASE version # ledger[s].basis_version
  BY <1>2, <1>4 DEF DescribedBy, RecordFor
<1>. QED BY <1>3, <1>4

LEMMA PendingDescribes ==
    ASSUME NEW r \in Record, NEW p \in Shape \cup {Nothing}
    PROVE  /\ [r EXCEPT !.pending = p] \in Record
           /\ [r EXCEPT !.pending = p].pending = p
           /\ [r EXCEPT !.pending = p].shape = r.shape
           /\ [r EXCEPT !.pending = p].superseded = r.superseded
           /\ [r EXCEPT !.pending = p].basis_version = r.basis_version
           /\ \A version, columns, types :
                DescribedBy(r, version, columns, types)
                  => DescribedBy([r EXCEPT !.pending = p], version, columns, types)
<1> DEFINE q == [r EXCEPT !.pending = p]
<1>1. /\ q \in Record /\ q.pending = p /\ q.shape = r.shape
      /\ q.superseded = r.superseded /\ q.basis_version = r.basis_version
  BY DEF Record
<1>2. q # Nothing
  BY <1>1, NothingAssumption
<1> HIDE DEF q
<1>3. ASSUME NEW version, NEW columns, NEW types, DescribedBy(r, version, columns, types)
      PROVE  DescribedBy(q, version, columns, types)
  BY <1>1, <1>2, <1>3 DEF DescribedBy, RecordFor
<1>. QED BY <1>1, <1>3 DEF q

LEMMA PromotedDescribes ==
    ASSUME NEW r \in Record, r.pending # Nothing, r.basis_version < MaxVersion,
           Len(r.superseded) = r.basis_version - 1
    PROVE  /\ Promoted(r) \in Record
           /\ Promoted(r).shape = r.pending /\ Promoted(r).pending = Nothing
           /\ Len(Promoted(r).superseded) = Promoted(r).basis_version - 1
           /\ \A version, columns, types :
                DescribedBy(r, version, columns, types)
                  => DescribedBy(Promoted(r), version, columns, types)
<1> DEFINE n == r.basis_version
           old == [basis_version |-> n, basis |-> r.shape.basis,
                   payload |-> r.shape.payload, types |-> r.shape.types]
           Entry == [basis_version : Nat, basis : Seq(Columns),
                     payload : Seq(Columns), types : Types]
           q == Promoted(r)
<1>1. /\ n \in FirstBasisVersion..MaxVersion /\ n \in Nat /\ n + 1 \in FirstBasisVersion..MaxVersion
      /\ r.shape \in Shape /\ r.pending \in Shape
  BY BoundsAssumption DEF Record, FirstBasisVersion
<1>2. r.superseded \in Seq(Entry)
  BY DEF Record
<1>3. old \in Entry
  BY <1>1 DEF Shape
<1>4. /\ q.shape = r.pending /\ q.basis_version = n + 1 /\ q.pending = Nothing
      /\ q.superseded = Append(r.superseded, old)
      /\ q = [shape |-> r.pending, basis_version |-> n + 1, pending |-> Nothing,
              superseded |-> Append(r.superseded, old)]
  BY DEF Promoted
<1>5. old.payload = r.shape.payload /\ old.types = r.shape.types
  OBVIOUS
<1> HIDE DEF old, q, Entry
<1>6. /\ Append(r.superseded, old) \in Seq(Entry)
      /\ Len(Append(r.superseded, old)) = n
      /\ Append(r.superseded, old)[n] = old
      /\ \A v \in 1..(n - 1) : Append(r.superseded, old)[v] = r.superseded[v]
  BY <1>1, <1>2, <1>3
<1>7. q \in Record /\ q # Nothing
  <2>1. q \in Record
    BY <1>1, <1>4, <1>6 DEF Record, Entry
  <2>. QED BY <2>1, NothingAssumption
<1>8. ASSUME NEW version, NEW columns, NEW types, DescribedBy(r, version, columns, types)
      PROVE  DescribedBy(q, version, columns, types)
  <2>1. version \in 1..n /\ version \in 1..(n + 1) /\ version # n + 1
    BY <1>1, <1>8 DEF DescribedBy, FirstBasisVersion
  <2>2. RecordFor(q, version) = q.superseded[version]
    BY <1>4, <2>1 DEF RecordFor
  <2>3. /\ RecordFor(q, version).payload = RecordFor(r, version).payload
        /\ RecordFor(q, version).types = RecordFor(r, version).types
    <3>1. CASE version = n
      BY <1>4, <1>5, <1>6, <2>2, <3>1 DEF RecordFor
    <3>2. CASE version # n
      <4>1. version \in 1..(n - 1)
        BY <1>1, <2>1, <3>2
      <4>. QED BY <1>4, <1>6, <2>2, <3>2, <4>1 DEF RecordFor
    <3>. QED BY <3>1, <3>2
  <2>. QED BY <1>4, <1>7, <1>8, <2>1, <2>3 DEF DescribedBy, FirstBasisVersion
<1>9. Len(q.superseded) = q.basis_version - 1
  BY <1>1, <1>4, <1>6
<1>. QED BY <1>4, <1>7, <1>8, <1>9 DEF q

-----------------------------------------------------------------------------
(* The steps *)

\* A command that replaces the record of one satellite.
LEMMA LedgerStep ==
    ASSUME VaultInductive, NEW s \in Satellites, NEW q \in Record, ledger[s] # Nothing,
           ledger' = [ledger EXCEPT ![s] = q],
           UNCHANGED <<declared, emitted, store, delivered, unrecorded, dropped, built>>,
           Len(q.superseded) = q.basis_version - 1,
           ToSet(q.shape.basis) \subseteq ToSet(q.shape.payload),
           q.pending # Nothing => ToSet(q.pending.basis) \subseteq ToSet(q.pending.payload),
           \A version, columns, types :
             DescribedBy(ledger[s], version, columns, types)
               => DescribedBy(q, version, columns, types)
    PROVE  VaultInductive'
<1>1. /\ ledger' \in [Satellites -> Record \cup {Nothing}]
      /\ ledger'[s] = q
      /\ \A t \in Satellites : t # s => ledger'[t] = ledger[t]
  BY DEF VaultInductive, VaultTypeOK
<1>2. ASSUME NEW t \in Satellites, NEW version, NEW columns, NEW types,
             DescribedBy(ledger[t], version, columns, types)
      PROVE  DescribedBy(ledger'[t], version, columns, types)
  BY <1>1, <1>2
<1>3. VaultTypeOK'
  <2>1. ASSUME NEW t \in Satellites, ledger'[t] # Nothing
        PROVE  ToSet(ledger'[t].shape.basis) \subseteq ToSet(ledger'[t].shape.payload)
    BY <1>1, <2>1 DEF VaultInductive, VaultTypeOK
  <2>. QED BY <1>1, <2>1 DEF VaultInductive, VaultTypeOK
<1>4. LedgerIsWhole'
  BY <1>1 DEF VaultInductive, LedgerIsWhole
<1>5. StoredIsDescribed'
  BY <1>2 DEF VaultInductive, StoredIsDescribed
<1>6. EmittedIsDescribed'
  BY <1>2 DEF VaultInductive, EmittedIsDescribed
<1>7. FingerprintsAgree' /\ BuiltIsStored'
  BY DEF VaultInductive, FingerprintsAgree, BuiltIsStored, Current, Stored
<1>. QED BY <1>3, <1>4, <1>5, <1>6, <1>7 DEF VaultInductive

LEMMA StagePreserves ==
    ASSUME VaultInductive, NEW s \in Satellites, Stage(s)
    PROVE  VaultInductive'
<1> DEFINE q == [ledger[s] EXCEPT !.pending = Fields(declared[s])]
<1>1. declared[s] \in Declarations /\ ledger[s] \in Record /\ ledger[s] # Nothing
  BY DEF Stage, VaultInductive, VaultTypeOK
<1>2. Fields(declared[s]) \in Shape
  BY <1>1, FieldsAreShape
<1>3. ToSet(Fields(declared[s]).basis) \subseteq ToSet(Fields(declared[s]).payload)
  BY <1>1, DeclarationIsTyped DEF Fields
<1>4. /\ Len(ledger[s].superseded) = ledger[s].basis_version - 1
      /\ ToSet(ledger[s].shape.basis) \subseteq ToSet(ledger[s].shape.payload)
  BY <1>1 DEF VaultInductive, VaultTypeOK, LedgerIsWhole
<1>5. ledger' = [ledger EXCEPT ![s] = q]
  BY DEF Stage
<1>6. UNCHANGED <<declared, emitted, store, delivered, unrecorded, dropped, built>>
  BY DEF Stage
<1>7. /\ q \in Record /\ q.pending = Fields(declared[s]) /\ q.shape = ledger[s].shape
      /\ q.superseded = ledger[s].superseded /\ q.basis_version = ledger[s].basis_version
      /\ \A version, columns, types :
           DescribedBy(ledger[s], version, columns, types)
             => DescribedBy(q, version, columns, types)
  BY <1>1, <1>2, PendingDescribes
<1> HIDE DEF q
<1>. QED BY <1>1, <1>3, <1>4, <1>5, <1>6, <1>7, LedgerStep

LEMMA AbortPreserves ==
    ASSUME VaultInductive, NEW s \in Satellites, Abort(s)
    PROVE  VaultInductive'
<1> DEFINE q == [ledger[s] EXCEPT !.pending = Nothing]
<1>1. ledger[s] \in Record /\ ledger[s] # Nothing
  BY DEF Abort, VaultInductive, VaultTypeOK
<1>4. /\ Len(ledger[s].superseded) = ledger[s].basis_version - 1
      /\ ToSet(ledger[s].shape.basis) \subseteq ToSet(ledger[s].shape.payload)
  BY <1>1 DEF VaultInductive, VaultTypeOK, LedgerIsWhole
<1>5. ledger' = [ledger EXCEPT ![s] = q]
  BY DEF Abort
<1>6. UNCHANGED <<declared, emitted, store, delivered, unrecorded, dropped, built>>
  BY DEF Abort
<1>7. /\ q \in Record /\ q.pending = Nothing /\ q.shape = ledger[s].shape
      /\ q.superseded = ledger[s].superseded /\ q.basis_version = ledger[s].basis_version
      /\ \A version, columns, types :
           DescribedBy(ledger[s], version, columns, types)
             => DescribedBy(q, version, columns, types)
  BY <1>1, PendingDescribes
<1> HIDE DEF q
<1>. QED BY <1>1, <1>4, <1>5, <1>6, <1>7, LedgerStep

LEMMA PromotePreserves ==
    ASSUME VaultInductive, NEW s \in Satellites, Promote(s)
    PROVE  VaultInductive'
<1> DEFINE q == Promoted(ledger[s])
<1>1. /\ ledger[s] \in Record /\ ledger[s] # Nothing /\ ledger[s].pending # Nothing
      /\ ledger[s].basis_version < MaxVersion
  BY DEF Promote, VaultInductive, VaultTypeOK
<1>2. /\ Len(ledger[s].superseded) = ledger[s].basis_version - 1
      /\ ToSet(ledger[s].pending.basis) \subseteq ToSet(ledger[s].pending.payload)
  BY <1>1 DEF VaultInductive, LedgerIsWhole
<1>3. ledger' = [ledger EXCEPT ![s] = q]
  BY DEF Promote
<1>4. UNCHANGED <<declared, emitted, store, delivered, unrecorded, dropped, built>>
  BY DEF Promote
<1>5. /\ q \in Record /\ q.shape = ledger[s].pending /\ q.pending = Nothing
      /\ Len(q.superseded) = q.basis_version - 1
      /\ \A version, columns, types :
           DescribedBy(ledger[s], version, columns, types)
             => DescribedBy(q, version, columns, types)
  BY <1>1, <1>2, PromotedDescribes
<1> HIDE DEF q
<1>. QED BY <1>1, <1>2, <1>3, <1>4, <1>5, LedgerStep

LEMMA EditAndDeliverPreserve ==
    ASSUME VaultInductive, Deliver \/ \E s \in Satellites : EditDeclaration(s)
    PROVE  VaultInductive'
<1>1. CASE Deliver
  <2>1. delivered' \in [values : [Columns -> Values], at : Instants] /\ built' = {}
    BY <1>1 DEF Deliver
  <2>2. UNCHANGED <<declared, ledger, emitted, store, unrecorded, dropped>>
    BY <1>1 DEF Deliver
  <2>3. VaultTypeOK'
    BY <2>1, <2>2 DEF VaultInductive, VaultTypeOK
  <2>. QED BY <2>1, <2>2, <2>3
       DEF VaultInductive, LedgerIsWhole, StoredIsDescribed, EmittedIsDescribed,
           FingerprintsAgree, BuiltIsStored
<1>2. ASSUME NEW s \in Satellites, EditDeclaration(s) PROVE VaultInductive'
  <2>1. declared' \in [Satellites -> Declarations \cup {Nothing}]
    BY <1>2 DEF EditDeclaration, VaultInductive, VaultTypeOK
  <2>2. UNCHANGED <<ledger, emitted, store, delivered, unrecorded, dropped, built>>
    BY <1>2 DEF EditDeclaration
  <2>3. VaultTypeOK'
    BY <2>1, <2>2 DEF VaultInductive, VaultTypeOK
  <2>. QED BY <2>2, <2>3
       DEF VaultInductive, LedgerIsWhole, StoredIsDescribed, EmittedIsDescribed,
           FingerprintsAgree, BuiltIsStored, Current, Stored
<1>. QED BY <1>1, <1>2

\* The statements an emission renders, of a satellite it has a record of or of
\* one it knows nothing of.
LEMMA RenderedStatements ==
    ASSUME VaultInductive, Absorbed,
           emitted' = [s \in Satellites |-> Statement(s, Grade(s))],
           UNCHANGED store
    PROVE  /\ emitted' \in [Satellites -> Rendered \cup {Nothing}]
           /\ FingerprintsAgree'
           /\ \A s \in Satellites \ dropped : emitted'[s] # Nothing =>
                /\ DescribedBy(Grade(s), emitted'[s].version, ToSet(emitted'[s].payload),
                               emitted'[s].types)
                /\ \A row \in store[s] : row.version <= emitted'[s].version
<1>1. ASSUME NEW s \in Satellites PROVE emitted'[s] \in Rendered \cup {Nothing}
  <2>1. CASE declared[s] = Nothing
    BY <2>1 DEF Statement
  <2>2. CASE declared[s] # Nothing
    BY <2>2, StatementOfSatellite
  <2>. QED BY <2>1, <2>2
<1>2. ASSUME NEW s \in Satellites, emitted'[s] # Nothing
      PROVE  /\ declared[s] # Nothing /\ declared[s] \in Declarations
             /\ emitted'[s].version = Grade(s).basis_version
             /\ emitted'[s].payload = declared[s].payload
             /\ emitted'[s].types = declared[s].types
             /\ emitted'[s].basis = Basis(declared[s])
  <2>1. declared[s] # Nothing
    BY <1>2 DEF Statement
  <2>. QED BY <1>2, <2>1, StatementOfSatellite, GradeOfSatellite
<1>3. FingerprintsAgree'
  BY <1>2, DeclarationIsTyped DEF FingerprintsAgree, VaultInductive
<1>4. ASSUME NEW s \in Satellites \ dropped, emitted'[s] # Nothing
      PROVE  /\ DescribedBy(Grade(s), emitted'[s].version, ToSet(emitted'[s].payload),
                            emitted'[s].types)
             /\ \A row \in store[s] : row.version <= emitted'[s].version
  <2>1. /\ declared[s] # Nothing
        /\ Grade(s) \in Record /\ Grade(s) # Nothing
        /\ Grade(s).shape.payload = declared[s].payload
        /\ Grade(s).shape.types = declared[s].types
        /\ ledger[s] # Nothing => Grade(s).basis_version = ledger[s].basis_version
    BY <1>2, <1>4, GradeOfSatellite, NothingAssumption
  <2>2. Grade(s).basis_version \in Nat
        /\ Grade(s).basis_version \in FirstBasisVersion..Grade(s).basis_version
    BY <2>1, BoundsAssumption DEF Record, FirstBasisVersion
  <2>3. DescribedBy(Grade(s), emitted'[s].version, ToSet(emitted'[s].payload),
                    emitted'[s].types)
    BY <1>2, <1>4, <2>1, <2>2 DEF DescribedBy, RecordFor
  <2>4. ASSUME NEW row \in store[s] PROVE row.version <= emitted'[s].version
    <3>1. DescribedBy(ledger[s], row.version, DOMAIN row.payload, row.types)
      BY DEF VaultInductive, StoredIsDescribed
    <3>2. row.version \in FirstBasisVersion..Grade(s).basis_version
      BY <2>1, <3>1 DEF DescribedBy
    <3>. QED BY <1>2, <1>4, <2>2, <3>2 DEF FirstBasisVersion
  <2>. QED BY <2>3, <2>4
<1>. QED BY <1>1, <1>3, <1>4

LEMMA EmitPreserves ==
    ASSUME VaultInductive, Emit
    PROVE  VaultInductive'
<1>1. /\ Absorbed /\ ledger' = [s \in Satellites |-> Grade(s)]
      /\ emitted' = [s \in Satellites |-> Statement(s, Grade(s))]
      /\ unrecorded' = {} /\ built' = {}
      /\ dropped' = dropped \cup
           {s \in Satellites : ledger[s] # Nothing /\ declared[s] = Nothing}
      /\ UNCHANGED <<declared, store, delivered>>
  BY DEF Emit
<1>2. /\ emitted' \in [Satellites -> Rendered \cup {Nothing}]
      /\ FingerprintsAgree'
      /\ \A s \in Satellites \ dropped : emitted'[s] # Nothing =>
           /\ DescribedBy(Grade(s), emitted'[s].version, ToSet(emitted'[s].payload),
                          emitted'[s].types)
           /\ \A row \in store[s] : row.version <= emitted'[s].version
  BY <1>1, RenderedStatements
<1>3. ASSUME NEW s \in Satellites
      PROVE  /\ ledger'[s] \in Record \cup {Nothing}
             /\ ledger'[s] # Nothing =>
                  /\ Len(ledger'[s].superseded) = ledger'[s].basis_version - 1
                  /\ ToSet(ledger'[s].shape.basis) \subseteq ToSet(ledger'[s].shape.payload)
                  /\ ledger'[s].pending = Nothing
  <2>1. ledger'[s] = Grade(s)
    BY <1>1
  <2>2. CASE declared[s] = Nothing
    BY <2>1, <2>2 DEF Grade
  <2>3. CASE declared[s] # Nothing
    BY <1>1, <2>1, <2>3, GradeOfSatellite
  <2>. QED BY <2>2, <2>3
<1>4. VaultTypeOK'
  <2>1. ledger' \in [Satellites -> Record \cup {Nothing}]
    BY <1>1, <1>3
  <2>2. dropped' \cup unrecorded' \cup built' \subseteq Satellites
    BY <1>1 DEF VaultInductive, VaultTypeOK
  <2>. QED BY <1>1, <1>2, <1>3, <2>1, <2>2 DEF VaultInductive, VaultTypeOK
<1>5. LedgerIsWhole'
  BY <1>3 DEF LedgerIsWhole
<1>6. StoredIsDescribed'
  <2> SUFFICES ASSUME NEW s \in Satellites \ dropped', NEW row \in store[s]
               PROVE  DescribedBy(ledger'[s], row.version, DOMAIN row.payload, row.types)
    BY <1>1 DEF StoredIsDescribed
  <2>1. s \in Satellites \ dropped
    BY <1>1
  <2>2. DescribedBy(ledger[s], row.version, DOMAIN row.payload, row.types)
    BY <2>1 DEF VaultInductive, StoredIsDescribed
  <2>3. declared[s] # Nothing
    BY <1>1, <2>2 DEF DescribedBy
  <2>4. DescribedBy(Grade(s), row.version, DOMAIN row.payload, row.types)
    BY <1>1, <2>2, <2>3, GradeDescribes
  <2>. QED BY <1>1, <2>4
<1>7. EmittedIsDescribed'
  BY <1>1, <1>2 DEF EmittedIsDescribed
<1>8. BuiltIsStored'
  BY <1>1 DEF BuiltIsStored
<1>. QED BY <1>2, <1>4, <1>5, <1>6, <1>7, <1>8 DEF VaultInductive

LEMMA EmissionDiesPreserves ==
    ASSUME VaultInductive, EmissionDies
    PROVE  VaultInductive'
<1>1. /\ Absorbed /\ emitted' = [s \in Satellites |-> Statement(s, Grade(s))]
      /\ unrecorded' = {s \in Satellites : ledger[s] # Grade(s)} /\ built' = {}
      /\ UNCHANGED <<declared, ledger, store, delivered, dropped>>
  BY DEF EmissionDies
<1>2. /\ emitted' \in [Satellites -> Rendered \cup {Nothing}]
      /\ FingerprintsAgree'
      /\ \A s \in Satellites \ dropped : emitted'[s] # Nothing =>
           /\ DescribedBy(Grade(s), emitted'[s].version, ToSet(emitted'[s].payload),
                          emitted'[s].types)
           /\ \A row \in store[s] : row.version <= emitted'[s].version
  BY <1>1, RenderedStatements
<1>3. VaultTypeOK'
  <2>1. dropped' \cup unrecorded' \cup built' \subseteq Satellites
    BY <1>1 DEF VaultInductive, VaultTypeOK
  <2>. QED BY <1>1, <1>2, <2>1 DEF VaultInductive, VaultTypeOK
<1>4. LedgerIsWhole' /\ StoredIsDescribed'
  BY <1>1 DEF VaultInductive, LedgerIsWhole, StoredIsDescribed
<1>5. EmittedIsDescribed'
  BY <1>1, <1>2 DEF EmittedIsDescribed
<1>6. BuiltIsStored'
  BY <1>1 DEF BuiltIsStored
<1>. QED BY <1>2, <1>3, <1>4, <1>5, <1>6 DEF VaultInductive

LEMMA CandidateIsRow ==
    ASSUME VaultInductive, NEW s \in Satellites, emitted[s] # Nothing
    PROVE  /\ Candidate(s) \in Row
           /\ Candidate(s).version = emitted[s].version
           /\ Candidate(s).basis = emitted[s].basis
           /\ Candidate(s).types = emitted[s].types
           /\ Candidate(s).at = delivered.at
           /\ DOMAIN Candidate(s).payload = ToSet(emitted[s].payload)
           /\ \A column \in ToSet(emitted[s].basis) :
                Candidate(s).payload[column] = delivered.values[column]
           /\ Candidate(s).fingerprint
                = [i \in DOMAIN emitted[s].basis |-> delivered.values[emitted[s].basis[i]]]
           /\ Candidate(s).fingerprint
                = [i \in DOMAIN Candidate(s).basis |->
                     Candidate(s).payload[Candidate(s).basis[i]]]
<1> DEFINE e == emitted[s]
           fingerprint == [i \in DOMAIN e.basis |-> delivered.values[e.basis[i]]]
           payload == [column \in ToSet(e.payload) |-> delivered.values[column]]
<1>1. /\ e \in Rendered /\ delivered.values \in [Columns -> Values]
      /\ delivered.at \in Instants
  BY DEF VaultInductive, VaultTypeOK
<1>2. /\ e.basis \in Seq(Columns) /\ e.payload \in Seq(Columns) /\ e.types \in Types
      /\ e.version \in FirstBasisVersion..MaxVersion
  BY <1>1 DEF Rendered
<1>3. ToSet(e.basis) \subseteq ToSet(e.payload)
  BY DEF VaultInductive, FingerprintsAgree
<1>4. ToSet(e.payload) \subseteq Columns
  BY <1>2 DEF ToSet
<1>5. Candidate(s) = [version |-> e.version, basis |-> e.basis, types |-> e.types,
                      fingerprint |-> fingerprint, payload |-> payload,
                      at |-> delivered.at]
  BY DEF Candidate
<1>6. fingerprint \in Seq(Values)
  BY <1>1, <1>2
<1>7. payload \in UNION {[columns -> Values] : columns \in SUBSET Columns}
  <2>1. payload \in [ToSet(e.payload) -> Values]
    BY <1>1, <1>4
  <2>. QED BY <1>4, <2>1
<1>8. \A i \in DOMAIN e.basis : e.basis[i] \in ToSet(e.payload)
  BY <1>3 DEF ToSet
<1>9. fingerprint = [i \in DOMAIN e.basis |-> payload[e.basis[i]]]
  BY <1>8
<1>10. \A column \in ToSet(e.basis) : payload[column] = delivered.values[column]
  BY <1>3
<1>11. DOMAIN payload = ToSet(e.payload)
  OBVIOUS
<1>12. fingerprint = [i \in DOMAIN emitted[s].basis |-> delivered.values[emitted[s].basis[i]]]
  OBVIOUS
<1> HIDE DEF fingerprint, payload
<1>13. Candidate(s) \in Row
  BY <1>1, <1>2, <1>5, <1>6, <1>7 DEF Row
<1>. QED BY <1>5, <1>9, <1>10, <1>11, <1>12, <1>13

\* What a build does to the rows of the satellite it builds.
LEMMA BuildWrites ==
    ASSUME VaultInductive, NEW s \in Satellites, Build(s)
    PROVE  /\ emitted[s] # Nothing
           /\ store' \in [Satellites -> SUBSET Row]
           /\ \A t \in Satellites : t # s => store'[t] = store[t]
           /\ \/ /\ ~NewVersion(emitted[s].kind, store[s], Candidate(s))
                 /\ store'[s] = store[s]
              \/ /\ NewVersion(emitted[s].kind, store[s], Candidate(s))
                 /\ store'[s] = Keep(store[s], Candidate(s))
           /\ built' = built \cup {s} /\ dropped' = dropped \cup ({s} \cap unrecorded)
           /\ UNCHANGED <<declared, ledger, emitted, delivered, unrecorded>>
<1>1. /\ emitted[s] # Nothing /\ built' = built \cup {s}
      /\ dropped' = dropped \cup ({s} \cap unrecorded)
      /\ UNCHANGED <<declared, ledger, emitted, delivered, unrecorded>>
      /\ store' = [store EXCEPT ![s] =
                     IF NewVersion(emitted[s].kind, store[s], Candidate(s))
                     THEN Keep(store[s], Candidate(s)) ELSE store[s]]
  BY DEF Build
<1>2. store \in [Satellites -> SUBSET Row]
  BY DEF VaultInductive, VaultTypeOK
<1>3. Keep(store[s], Candidate(s)) \in SUBSET Row
  BY <1>1, <1>2, CandidateIsRow DEF Keep
<1>4. store' \in [Satellites -> SUBSET Row] /\ \A t \in Satellites : t # s => store'[t] = store[t]
  BY <1>1, <1>2, <1>3
<1>5. store'[s] = IF NewVersion(emitted[s].kind, store[s], Candidate(s))
                  THEN Keep(store[s], Candidate(s)) ELSE store[s]
  BY <1>1, <1>2
<1>. QED BY <1>1, <1>4, <1>5

LEMMA BuildStores ==
    ASSUME VaultInductive, NEW s \in Satellites, Build(s), Current(s)'
    PROVE  Stored(s)'
<1> DEFINE row == Candidate(s)
           e == emitted[s]
<1>1. /\ e # Nothing /\ emitted' = emitted /\ delivered' = delivered
      /\ \/ ~NewVersion(e.kind, store[s], row) /\ store'[s] = store[s]
         \/ NewVersion(e.kind, store[s], row) /\ store'[s] = Keep(store[s], row)
  BY BuildWrites
<1>2. /\ row.version = e.version /\ row.at = delivered.at /\ row \in Row
      /\ \A column \in ToSet(e.basis) : row.payload[column] = delivered.values[column]
      /\ row.fingerprint = [i \in DOMAIN e.basis |-> delivered.values[e.basis[i]]]
  BY <1>1, CandidateIsRow
<1>3. \A r \in store'[s] : r.version = e.version => r.basis = e.basis /\ r.at <= delivered.at
  BY <1>1 DEF Current
<1>4. /\ \A r \in Row : r.at \in Nat
      /\ \A r \in store[s] : r \in Row
  BY BoundsAssumption DEF Row, Instants, VaultInductive, VaultTypeOK
<1> HIDE DEF row
<1>5. CASE NewVersion(e.kind, store[s], row) /\ store'[s] = Keep(store[s], row)
  <2>1. row \in store'[s] /\ row.at <= row.at
    BY <1>2, <1>4, <1>5 DEF Keep
  <2>2. \A r \in store'[s] : r.version = e.version => r.at <= row.at
    BY <1>2, <1>3
  <2>. QED BY <1>1, <1>2, <2>1, <2>2 DEF Stored
<1>6. CASE ~NewVersion(e.kind, store[s], row) /\ store'[s] = store[s]
  <2>1. AboveWatermark(store[s], row)
    BY <1>2, <1>3, <1>4, <1>6 DEF AboveWatermark, Scope
  <2>2. PICK r \in Scope(store[s], row) :
          /\ r.fingerprint = row.fingerprint
          /\ \A other \in Scope(store[s], row) : other.at <= r.at
    <3>1. CASE e.kind = "history"
      <4>1. PICK r \in Scope(store[s], row) : r.fingerprint = row.fingerprint /\ r.at = row.at
        BY <1>6, <2>1, <3>1 DEF NewVersion
      <4>2. \A other \in Scope(store[s], row) : other.at <= r.at
        BY <1>2, <1>3, <1>6, <4>1 DEF Scope
      <4>. QED BY <4>1, <4>2
    <3>2. CASE e.kind # "history"
      BY <1>6, <2>1, <3>2 DEF NewVersion, Latest
    <3>. QED BY <3>1, <3>2
  <2>3. r \in store[s] /\ r.version = e.version /\ r.basis = e.basis
    BY <1>2, <1>3, <1>6 DEF Scope
  <2>4. r.fingerprint = [i \in DOMAIN r.basis |-> r.payload[r.basis[i]]]
    BY <2>3 DEF VaultInductive, FingerprintsAgree
  <2>5. \A i \in DOMAIN e.basis : r.payload[e.basis[i]] = delivered.values[e.basis[i]]
    <3>1. [i \in DOMAIN e.basis |-> r.payload[e.basis[i]]]
            = [i \in DOMAIN e.basis |-> delivered.values[e.basis[i]]]
      BY <1>2, <2>2, <2>3, <2>4
    <3>. QED BY <3>1
  <2>6. \A column \in ToSet(e.basis) : r.payload[column] = delivered.values[column]
    BY <2>5 DEF ToSet
  <2>7. \A other \in store[s] : other.version = e.version => other.at <= r.at
    BY <1>2, <2>2 DEF Scope
  <2>. QED BY <1>1, <1>6, <2>3, <2>6, <2>7 DEF Stored
<1>. QED BY <1>1, <1>5, <1>6

LEMMA BuildPreserves ==
    ASSUME VaultInductive, NEW s \in Satellites, Build(s)
    PROVE  VaultInductive'
<1> DEFINE row == Candidate(s)
           e == emitted[s]
<1>1. /\ e # Nothing /\ store' \in [Satellites -> SUBSET Row]
      /\ \A t \in Satellites : t # s => store'[t] = store[t]
      /\ built' = built \cup {s} /\ dropped' = dropped \cup ({s} \cap unrecorded)
      /\ UNCHANGED <<declared, ledger, emitted, delivered, unrecorded>>
  BY BuildWrites
<1>2. store'[s] = store[s] \/ store'[s] = Keep(store[s], row)
  BY BuildWrites
<1>3. /\ row.version = e.version /\ row.types = e.types /\ row \in Row
      /\ DOMAIN row.payload = ToSet(e.payload)
      /\ row.fingerprint = [i \in DOMAIN row.basis |-> row.payload[row.basis[i]]]
  BY <1>1, CandidateIsRow
<1> HIDE DEF row
<1>4. \A r \in store'[s] : r \in store[s] \/ r = row
  BY <1>2 DEF Keep
<1>5. VaultTypeOK'
  <2>1. ASSUME NEW t \in Satellites, NEW r1 \in store'[t], NEW r2 \in store'[t],
               r1.version = r2.version, r1.at = r2.at
        PROVE  r1 = r2
    <3>1. CASE store'[t] = store[t]
      BY <2>1, <3>1 DEF VaultInductive, VaultTypeOK
    <3>2. CASE t = s /\ store'[s] = Keep(store[s], row)
      BY <2>1, <3>2 DEF VaultInductive, VaultTypeOK, Keep
    <3>. QED BY <1>1, <1>2, <3>1, <3>2
  <2>2. dropped' \cup unrecorded' \cup built' \subseteq Satellites
    BY <1>1 DEF VaultInductive, VaultTypeOK
  <2>. QED BY <1>1, <2>1, <2>2 DEF VaultInductive, VaultTypeOK
<1>6. LedgerIsWhole'
  BY <1>1 DEF VaultInductive, LedgerIsWhole
<1>7. StoredIsDescribed'
  <2> SUFFICES ASSUME NEW t \in Satellites \ dropped', NEW r \in store'[t]
               PROVE  DescribedBy(ledger[t], r.version, DOMAIN r.payload, r.types)
    BY <1>1 DEF StoredIsDescribed
  <2>1. t \in Satellites \ dropped
    BY <1>1
  <2>2. CASE r \in store[t]
    BY <2>1, <2>2 DEF VaultInductive, StoredIsDescribed
  <2>3. CASE t = s /\ r = row
    <3>1. s \notin unrecorded
      BY <1>1, <2>3
    <3>2. DescribedBy(ledger[s], e.version, ToSet(e.payload), e.types)
      BY <1>1, <2>1, <2>3, <3>1 DEF VaultInductive, EmittedIsDescribed
    <3>. QED BY <1>3, <2>3, <3>2
  <2>. QED BY <1>1, <1>4, <2>2, <2>3
<1>8. EmittedIsDescribed'
  <2> SUFFICES ASSUME NEW t \in Satellites \ dropped', emitted[t] # Nothing
               PROVE  /\ t \notin unrecorded =>
                           DescribedBy(ledger[t], emitted[t].version,
                                       ToSet(emitted[t].payload), emitted[t].types)
                      /\ \A r \in store'[t] : r.version <= emitted[t].version
    BY <1>1 DEF EmittedIsDescribed
  <2>1. t \in Satellites \ dropped
    BY <1>1
  <2>2. \A r \in store[t] : r.version <= emitted[t].version
    BY <2>1 DEF VaultInductive, EmittedIsDescribed
  <2>3. row.version <= e.version
    BY <1>3, BoundsAssumption DEF Row, FirstBasisVersion
  <2>4. \A r \in store'[t] : r.version <= emitted[t].version
    BY <1>1, <1>4, <2>2, <2>3
  <2>. QED BY <2>1, <2>4 DEF VaultInductive, EmittedIsDescribed
<1>9. FingerprintsAgree'
  <2>1. ASSUME NEW t \in Satellites, NEW r \in store'[t]
        PROVE  r.fingerprint = [i \in DOMAIN r.basis |-> r.payload[r.basis[i]]]
    <3>1. CASE r \in store[t]
      BY <3>1 DEF VaultInductive, FingerprintsAgree
    <3>. QED BY <1>1, <1>3, <1>4, <3>1
  <2>. QED BY <1>1, <2>1 DEF VaultInductive, FingerprintsAgree
<1>10. BuiltIsStored'
  <2>1. ASSUME NEW t \in built, t # s, Current(t)' PROVE Stored(t)'
    <3>1. t \in Satellites
      BY DEF VaultInductive, VaultTypeOK
    <3>2. store'[t] = store[t] /\ Current(t)
      BY <1>1, <2>1, <3>1 DEF Current
    <3>3. Stored(t)
      BY <3>2 DEF VaultInductive, BuiltIsStored
    <3>. QED BY <1>1, <3>2, <3>3 DEF Stored
  <2>2. Current(s)' => Stored(s)'
    BY BuildStores
  <2>3. \A t \in built' : emitted'[t] # Nothing
    BY <1>1 DEF VaultInductive, BuiltIsStored
  <2>. QED BY <1>1, <2>1, <2>2, <2>3 DEF BuiltIsStored
<1>. QED BY <1>5, <1>6, <1>7, <1>8, <1>9, <1>10 DEF VaultInductive

-----------------------------------------------------------------------------
(* The theorems *)

LEMMA VaultInitially == Init => VaultInductive
<1> SUFFICES ASSUME Init PROVE VaultInductive
  OBVIOUS
<1>1. VaultTypeOK
  BY BoundsAssumption DEF Init, VaultTypeOK, Instants
<1>. QED BY <1>1
     DEF Init, VaultInductive, LedgerIsWhole, StoredIsDescribed, EmittedIsDescribed,
         FingerprintsAgree, BuiltIsStored

LEMMA VaultStep == VaultInductive /\ [Next]_vars => VaultInductive'
<1> SUFFICES ASSUME VaultInductive, [Next]_vars PROVE VaultInductive'
  OBVIOUS
<1>1. CASE Deliver \/ \E s \in Satellites : EditDeclaration(s)
  BY <1>1, EditAndDeliverPreserve
<1>2. CASE Emit
  BY <1>2, EmitPreserves
<1>3. CASE EmissionDies
  BY <1>3, EmissionDiesPreserves
<1>4. ASSUME NEW s \in Satellites, Stage(s) \/ Promote(s) \/ Abort(s) \/ Build(s)
      PROVE  VaultInductive'
  BY <1>4, StagePreserves, PromotePreserves, AbortPreserves, BuildPreserves
<1>5. CASE UNCHANGED vars
  <2>1. UNCHANGED <<declared, ledger, emitted, store, delivered, unrecorded, dropped, built>>
    BY <1>5 DEF vars
  <2>2. VaultTypeOK'
    BY <2>1 DEF VaultInductive, VaultTypeOK
  <2>3. LedgerIsWhole' /\ StoredIsDescribed' /\ EmittedIsDescribed'
    BY <2>1 DEF VaultInductive, LedgerIsWhole, StoredIsDescribed, EmittedIsDescribed
  <2>4. FingerprintsAgree' /\ BuiltIsStored'
    BY <2>1 DEF VaultInductive, FingerprintsAgree, BuiltIsStored, Current, Stored
  <2>. QED BY <2>2, <2>3, <2>4 DEF VaultInductive
<1>. QED BY <1>1, <1>2, <1>3, <1>4, <1>5 DEF Next

LEMMA VaultAlways == Spec => []VaultInductive
BY VaultInitially, VaultStep, PTL DEF Spec

\* Every stored row can be read with the ledger alone (grade, stage, promote
\* and abort of evolution.py): its version, its columns and their types are on
\* record, whatever the edits, promotions, dead emissions and builds, unless
\* the satellite's record was forgotten.
THEOREM LedgerDescribesTheStore == Spec => []VaultInvariant
<1>1. VaultInductive => VaultInvariant
  <2> SUFFICES ASSUME VaultInductive PROVE VaultInvariant
    OBVIOUS
  <2>1. ASSUME NEW s \in Satellites \ dropped, NEW row \in store[s]
        PROVE  /\ ledger[s] # Nothing /\ row.version <= ledger[s].basis_version
               /\ DOMAIN row.payload \subseteq ToSet(RecordOf(s, row.version).payload)
               /\ \A column \in DOMAIN row.payload :
                    row.types[column] = RecordOf(s, row.version).types[column]
    <3>1. DescribedBy(ledger[s], row.version, DOMAIN row.payload, row.types)
      BY DEF VaultInductive, StoredIsDescribed
    <3>2. RecordOf(s, row.version) = RecordFor(ledger[s], row.version)
      BY DEF RecordOf, RecordFor
    <3>3. row.version \in FirstBasisVersion..ledger[s].basis_version
      BY <3>1 DEF DescribedBy
    <3>4. row.version <= ledger[s].basis_version
      BY <3>3
    <3>. QED BY <3>1, <3>2, <3>4 DEF DescribedBy
  <2>. QED BY <2>1 DEF VaultInductive, VaultInvariant, StoredIsReadable
<1>. QED BY <1>1, VaultAlways, PTL

\* A build never rewrites a version stored under another basis, nor drops an
\* instant (dpf_vault_new_versions under the model's unique key).
THEOREM HistoryIsNeverRewritten == Spec => StoredHistoryIsKept
<1> DEFINE Kept == \A s \in Satellites : \A r \in store[s] \ store'[s] :
                     /\ r.version = emitted[s].version
                     /\ \E row \in store'[s] : row.version = r.version /\ row.at = r.at
<1>1. VaultInductive /\ [Next]_vars => [Kept]_vars
  <2> SUFFICES ASSUME VaultInductive, Next PROVE Kept
    OBVIOUS
  <2>1. CASE store' = store
    BY <2>1
  <2>2. ASSUME NEW s \in Satellites, Build(s) PROVE Kept
    <3> SUFFICES ASSUME NEW t \in Satellites, NEW r \in store[t] \ store'[t]
                 PROVE  /\ r.version = emitted[t].version
                        /\ \E row \in store'[t] : row.version = r.version /\ row.at = r.at
      OBVIOUS
    <3>1. t = s /\ store'[s] = Keep(store[s], Candidate(s)) /\ emitted[s] # Nothing
      BY <2>2, BuildWrites
    <3>2. Candidate(s).version = emitted[s].version
      BY <3>1, CandidateIsRow
    <3>3. /\ r.at = Candidate(s).at /\ r.version = Candidate(s).version
          /\ Candidate(s) \in store'[s]
      BY <3>1 DEF Keep
    <3>. QED BY <3>1, <3>2, <3>3
  <2>3. ASSUME NEW s \in Satellites,
               EditDeclaration(s) \/ Stage(s) \/ Promote(s) \/ Abort(s)
        PROVE  store' = store
    BY <2>3 DEF EditDeclaration, Stage, Promote, Abort
  <2>4. ASSUME Deliver \/ Emit \/ EmissionDies PROVE store' = store
    BY <2>4 DEF Deliver, Emit, EmissionDies
  <2> HIDE DEF Kept
  <2>. QED BY <2>1, <2>2, <2>3, <2>4 DEF Next
<1>. QED BY <1>1, VaultAlways, PTL DEF Spec, StoredHistoryIsKept

\* A change of a fingerprinted column reaches the version every derived
\* relation reads: what is built and not behind the store is in force, across
\* corrections at one instant and the first build of a promoted basis.
THEOREM ChangeReachesTheVersionInForce == Spec => []ChangeIsStored
<1>1. VaultInductive => ChangeIsStored
  <2> SUFFICES ASSUME VaultInductive, NEW s \in built \ dropped, BasisHeld(s),
                      \A r \in store[s] :
                        r.version = emitted[s].version => r.at <= delivered.at
               PROVE  \E row \in InForce(store[s]) :
                        /\ row.version = emitted[s].version
                        /\ \A column \in ToSet(emitted[s].basis) :
                             row.payload[column] = delivered.values[column]
    BY DEF ChangeIsStored
  <2>1. s \in Satellites /\ emitted[s] # Nothing
    BY DEF VaultInductive, VaultTypeOK, BuiltIsStored
  <2>2. Candidate(s).version = emitted[s].version /\ Candidate(s).basis = emitted[s].basis
    BY <2>1, CandidateIsRow
  <2>3. Current(s)
    BY <2>2 DEF Current, BasisHeld
  <2>4. Stored(s)
    BY <2>3 DEF VaultInductive, BuiltIsStored
  <2>5. PICK row \in store[s] :
          /\ row.version = emitted[s].version
          /\ \A r \in store[s] : r.version = emitted[s].version => r.at <= row.at
          /\ \A column \in ToSet(emitted[s].basis) :
               row.payload[column] = delivered.values[column]
    BY <2>4 DEF Stored
  <2>6. \A r \in store[s] : r.version <= row.version
    BY <2>1, <2>5 DEF VaultInductive, EmittedIsDescribed
  <2>7. \A r \in store[s] : r.version \in Nat
    BY <2>1, BoundsAssumption DEF VaultInductive, VaultTypeOK, Row, FirstBasisVersion
  <2>8. row \in InForce(store[s])
    <3>1. ASSUME NEW r \in store[s]
          PROVE  r.version < row.version \/ (r.version = row.version /\ r.at <= row.at)
      BY <2>5, <2>6, <2>7
    <3>. QED BY <3>1 DEF InForce
  <2>. QED BY <2>5, <2>8
<1>. QED BY <1>1, VaultAlways, PTL

=============================================================================
