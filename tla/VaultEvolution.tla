--------------------------- MODULE VaultEvolution ---------------------------
(***************************************************************************)
(* How the satellites of one data_vault product evolve: the declaration is *)
(* edited, the emission grades it against the evolution ledger and renders *)
(* one statement per satellite, a re-baseline is staged, promoted or       *)
(* abandoned, and a build runs the statements last emitted against stores  *)
(* that are never rewritten.                                               *)
(*                                                                         *)
(* One entity is modelled: a satellite reads one curated row per key, and  *)
(* nothing a build does relates two keys.  A fingerprint is the sequence   *)
(* of the values it was computed over, which is all dpf_vault_hash keeps   *)
(* of them: two column sets with equal values hash alike.                  *)
(***************************************************************************)
EXTENDS Naturals, FiniteSets, SequencesExt

CONSTANTS
    Satellites,     \* of one product, beside others that stay declared
    Declarations,   \* the validated satellite sections an edit may choose
    Values,         \* the values of one payload column
    First,          \* the value every column is first delivered with
    MaxInstant,     \* bound: the effective instants a delivery carries
    MaxVersion,     \* bound: the basis versions a satellite goes through
    MaxEdits,       \* bound: the edits of the declaration
    MaxDeliveries,  \* bound: the deliveries after the first
    Nothing         \* no declaration, no record, no statement

ASSUME BoundsAssumption ==
    MaxInstant \in Nat /\ MaxVersion \in Nat \ {0} /\ First \in Values

\* What resolve_plan accepts of a satellite: an exclusion is a payload column
\* and at least one column is left to fingerprint.
ASSUME DeclarationsAssumption ==
    \A d \in Declarations :
        /\ d.payload \in Seq(ToSet(d.payload))
        /\ d.exclusions \subseteq ToSet(d.payload)
        /\ d.exclusions # ToSet(d.payload)
        /\ DOMAIN d.types = ToSet(d.payload)

VARIABLES
    declared,   \* the satellite's section of the product declaration
    ledger,     \* the record declarations/evolution/ carries of it
    emitted,    \* the statement the last emission rendered
    store,      \* the versions the satellite's relation holds
    delivered,  \* the curated row the next build reads
    unrecorded, \* the satellites rendered by an emission that died before it
                \* wrote their record
    dropped,    \* history: the satellites a record was forgotten of, or that
                \* were built before their record was written
    built,      \* history: the satellites built since the last delivery and
                \* emission
    counts      \* bound: the edits and deliveries so far

vars ==
    <<declared, ledger, emitted, store, delivered, unrecorded, dropped, built,
      counts>>

FirstBasisVersion == 1
Instants == 0..MaxInstant
Columns == UNION {ToSet(d.payload) : d \in Declarations}

\* The columns that are not among others, in their order.
Remaining(columns, others) ==
    LET kept[i \in 0..Len(columns)] ==
          IF i = 0 THEN <<>>
          ELSE IF columns[i] \in others THEN kept[i - 1]
          ELSE Append(kept[i - 1], columns[i])
    IN  kept[Len(columns)]

\* The payload columns left in change detection.
Basis(d) == Remaining(d.payload, d.exclusions)

Fields(d) ==
    [kind |-> d.kind, change_column |-> d.change_column, basis |-> Basis(d),
     payload |-> d.payload, exclusions |-> d.exclusions, types |-> d.types]

Bootstrap(d) ==
    [shape |-> Fields(d), basis_version |-> FirstBasisVersion,
     pending |-> Nothing, superseded |-> <<>>]

Types == {d.types : d \in Declarations}

Shape ==
    [kind : {d.kind : d \in Declarations},
     change_column : {d.change_column : d \in Declarations},
     basis : Seq(Columns), payload : Seq(Columns), exclusions : SUBSET Columns,
     types : Types]

Record ==
    [shape : Shape, basis_version : FirstBasisVersion..MaxVersion,
     pending : Shape \cup {Nothing},
     superseded : Seq([basis_version : Nat, basis : Seq(Columns),
                       payload : Seq(Columns), types : Types])]

Rendered ==
    [version : FirstBasisVersion..MaxVersion, basis : Seq(Columns),
     payload : Seq(Columns), types : Types, kind : {d.kind : d \in Declarations}]

Row ==
    [version : FirstBasisVersion..MaxVersion, basis : Seq(Columns), types : Types,
     fingerprint : Seq(Values),
     payload : UNION {[columns -> Values] : columns \in SUBSET Columns},
     at : Instants]

ASSUME NothingAssumption ==
    Nothing \notin Declarations \cup Shape \cup Record \cup Rendered

-----------------------------------------------------------------------------
(* The grading of one satellite against its record *)

Added(d, r) == ToSet(d.payload) \ ToSet(r.shape.payload)
Frozen(d, r) == Remaining(Basis(d), Added(d, r))

Redefined(d, r) ==
    d.kind # r.shape.kind \/ d.change_column # r.shape.change_column
Retyped(d, r) ==
    \E column \in ToSet(d.payload) \cap ToSet(r.shape.payload) :
        d.types[column] # r.shape.types[column]
Removes(d, r) == ~ ToSet(r.shape.payload) \subseteq ToSet(d.payload)

Absorbs(d, r) ==
    /\ r.pending = Nothing
    /\ ~ Redefined(d, r)
    /\ ~ Retyped(d, r)
    /\ ~ Removes(d, r)
    /\ Frozen(d, r) = r.shape.basis

\* The record the ledger keeps: the basis and its version stay, the rest is
\* what the declaration says now.
GradeOne(d, r) ==
    [r EXCEPT !.shape = [Fields(d) EXCEPT !.basis = r.shape.basis]]

Grade(s) ==
    IF declared[s] = Nothing THEN Nothing
    ELSE IF ledger[s] = Nothing THEN Bootstrap(declared[s])
    ELSE GradeOne(declared[s], ledger[s])

\* One satellite's store as the route renders it.  The fingerprint covers the
\* declared basis; the ledger gives the version it is stored under.
Statement(s, record) ==
    IF declared[s] = Nothing THEN Nothing
    ELSE [version |-> record.basis_version, basis |-> Basis(declared[s]),
          payload |-> declared[s].payload, types |-> declared[s].types,
          kind |-> declared[s].kind]

-----------------------------------------------------------------------------
(* Initial state and the edits around the operations *)

Init ==
    /\ declared \in [Satellites -> Declarations \cup {Nothing}]
    /\ ledger = [s \in Satellites |-> Nothing]
    /\ emitted = [s \in Satellites |-> Nothing]
    /\ store = [s \in Satellites |-> {}]
    /\ delivered = [values |-> [column \in Columns |-> First], at |-> 0]
    /\ unrecorded = {}
    /\ dropped = {}
    /\ built = {}
    /\ counts = [edits |-> 0, deliveries |-> 0]

\* A person edits the declaration; an edit may take the satellite out.
EditDeclaration(s) ==
    /\ counts.edits < MaxEdits
    /\ counts' = [counts EXCEPT !.edits = @ + 1]
    /\ \E d \in (Declarations \cup {Nothing}) \ {declared[s]} :
           declared' = [declared EXCEPT ![s] = d]
    /\ UNCHANGED <<ledger, emitted, store, delivered, unrecorded, dropped, built>>

\* The composition delivers another row: a later one, a correction at the
\* same instant, or one that goes back.
Deliver ==
    /\ counts.deliveries < MaxDeliveries
    /\ counts' = [counts EXCEPT !.deliveries = @ + 1]
    /\ \E values \in [Columns -> Values], at \in Instants :
           delivered' = [values |-> values, at |-> at]
    /\ built' = {}
    /\ UNCHANGED <<declared, ledger, emitted, store, unrecorded, dropped>>

Absorbed ==
    \A s \in Satellites :
        declared[s] # Nothing /\ ledger[s] # Nothing
            => Absorbs(declared[s], ledger[s])

\* ergasterion emit-products.  One satellite the ledger cannot absorb stops
\* the whole emission; a satellite no longer declared loses its record.
Emit ==
    /\ Absorbed
    /\ ledger' = [s \in Satellites |-> Grade(s)]
    /\ emitted' = [s \in Satellites |-> Statement(s, Grade(s))]
    /\ unrecorded' = {}
    /\ built' = {}
    /\ dropped' = dropped \cup
           {s \in Satellites : ledger[s] # Nothing /\ declared[s] = Nothing}
    /\ UNCHANGED <<declared, store, delivered, counts>>

\* The models are written before the ledgers: an emission that dies in
\* between leaves statements no record tells of.
EmissionDies ==
    /\ Absorbed
    /\ emitted' = [s \in Satellites |-> Statement(s, Grade(s))]
    /\ unrecorded' = {s \in Satellites : ledger[s] # Grade(s)}
    /\ built' = {}
    /\ UNCHANGED <<declared, ledger, store, delivered, dropped, counts>>

-----------------------------------------------------------------------------
(* ergasterion vault-rebaseline *)

Stage(s) ==
    /\ declared[s] # Nothing
    /\ ledger[s] # Nothing
    /\ ledger' = [ledger EXCEPT ![s].pending = Fields(declared[s])]
    /\ UNCHANGED <<declared, emitted, store, delivered, unrecorded, dropped,
                   built, counts>>

\* A mutant: the pending basis is adopted before the old one is archived.
PromotedFirst(r) ==
    [shape |-> r.pending, basis_version |-> r.basis_version + 1,
     pending |-> Nothing,
     superseded |-> Append(r.superseded,
         [basis_version |-> r.basis_version, basis |-> r.pending.basis,
          payload |-> r.pending.payload, types |-> r.pending.types])]

Promoted(r) ==
    [shape |-> r.pending, basis_version |-> r.basis_version + 1,
     pending |-> Nothing,
     superseded |-> Append(r.superseded,
         [basis_version |-> r.basis_version, basis |-> r.shape.basis,
          payload |-> r.shape.payload, types |-> r.shape.types])]

Promote(s) ==
    /\ ledger[s] # Nothing
    /\ ledger[s].pending # Nothing
    /\ ledger[s].basis_version < MaxVersion
    /\ ledger' = [ledger EXCEPT ![s] = Promoted(@)]
    /\ UNCHANGED <<declared, emitted, store, delivered, unrecorded, dropped,
                   built, counts>>

Abort(s) ==
    /\ ledger[s] # Nothing
    /\ ledger[s].pending # Nothing
    /\ ledger' = [ledger EXCEPT ![s].pending = Nothing]
    /\ UNCHANGED <<declared, emitted, store, delivered, unrecorded, dropped,
                   built, counts>>

-----------------------------------------------------------------------------
(* A build of one satellite *)

Candidate(s) ==
    LET e == emitted[s] IN
    [version |-> e.version, basis |-> e.basis, types |-> e.types,
     fingerprint |-> [i \in DOMAIN e.basis |-> delivered.values[e.basis[i]]],
     payload |-> [column \in ToSet(e.payload) |-> delivered.values[column]],
     at |-> delivered.at]

\* A mutant: the comparison reads every version.
EveryRow(rows, row) == rows

\* The rows a candidate is compared with: its own basis version's.
Scope(rows, row) == {r \in rows : r.version = row.version}

\* dpf_vault_watermark
AboveWatermark(rows, row) == \A r \in Scope(rows, row) : row.at >= r.at

Latest(rows, row) ==
    {r \in Scope(rows, row) : \A other \in Scope(rows, row) : other.at <= r.at}

\* dpf_vault_new_versions
NewVersion(kind, rows, row) ==
    /\ AboveWatermark(rows, row)
    /\ IF kind = "history"
       THEN \A r \in Scope(rows, row) :
                ~ (r.fingerprint = row.fingerprint /\ r.at = row.at)
       ELSE \A r \in Latest(rows, row) : r.fingerprint # row.fingerprint

\* A mutant: the unique key leaves the basis version out.
KeepByInstant(rows, row) == {r \in rows : r.at # row.at} \cup {row}

\* The model's unique key: a row at the same instant and version is replaced.
Keep(rows, row) ==
    {r \in rows : r.at # row.at \/ r.version # row.version} \cup {row}

\* A first build, without a relation to compare with, keeps its row.
Build(s) ==
    /\ emitted[s] # Nothing
    /\ LET row == Candidate(s) IN
       store' = [store EXCEPT ![s] =
                    IF NewVersion(emitted[s].kind, @, row)
                    THEN Keep(@, row) ELSE @]
    /\ built' = built \cup {s}
    /\ dropped' = dropped \cup ({s} \cap unrecorded)
    /\ UNCHANGED <<declared, ledger, emitted, delivered, unrecorded, counts>>

-----------------------------------------------------------------------------

Next ==
    \/ Deliver
    \/ Emit
    \/ EmissionDies
    \/ \E s \in Satellites :
           \/ EditDeclaration(s)
           \/ Stage(s)
           \/ Promote(s)
           \/ Abort(s)
           \/ Build(s)

Spec == Init /\ [][Next]_vars

-----------------------------------------------------------------------------
(* Properties *)

\* The variables range over what grade, promote and the two vault macros can
\* write: versions start at 1, a recorded basis is part of its payload, and no two
\* rows share an instant of one version.
VaultTypeOK ==
    /\ declared \in [Satellites -> Declarations \cup {Nothing}]
    /\ ledger \in [Satellites -> Record \cup {Nothing}]
    /\ emitted \in [Satellites -> Rendered \cup {Nothing}]
    /\ store \in [Satellites -> SUBSET Row]
    /\ delivered \in [values : [Columns -> Values], at : Instants]
    /\ dropped \cup unrecorded \cup built \subseteq Satellites
    /\ \A s \in Satellites :
           /\ ledger[s] # Nothing =>
                  ToSet(ledger[s].shape.basis) \subseteq ToSet(ledger[s].shape.payload)
           /\ \A r1, r2 \in store[s] :
                  r1.version = r2.version /\ r1.at = r2.at => r1 = r2

\* What the ledger says of the rows of one version.
RecordOf(s, version) ==
    IF ledger[s].basis_version = version THEN ledger[s].shape
    ELSE ledger[s].superseded[version]

\* A row tagged with an older version can still be read (promote archives what
\* it replaces, evolution.py:361-364): unless the satellite was once taken out
\* of the declaration, or built after an emission died before recording it,
\* the ledger names every stored row's version, every column the row stores
\* and the type it was stored as.
StoredIsReadable ==
    \A s \in Satellites \ dropped :
        \A row \in store[s] :
            /\ ledger[s] # Nothing
            /\ row.version <= ledger[s].basis_version
            /\ LET record == RecordOf(s, row.version) IN
               /\ DOMAIN row.payload \subseteq ToSet(record.payload)
               /\ \A column \in DOMAIN row.payload :
                      row.types[column] = record.types[column]

\* Nothing rewrites stored history (rebaseline.py:23-27): a build replaces a
\* row only at the same instant of the version it stores under, and leaves the
\* versions stored under every other basis as they were.
StoredHistoryIsKept ==
    [][\A s \in Satellites : \A r \in store[s] \ store'[s] :
          /\ r.version = emitted[s].version
          /\ \E row \in store'[s] : row.version = r.version /\ row.at = r.at]_vars

\* The version in force: the highest basis version, and its latest instant.
InForce(rows) ==
    {r \in rows : \A other \in rows :
        \/ other.version < r.version
        \/ other.version = r.version /\ other.at <= r.at}

\* No row of this satellite was fingerprinted over other columns than those
\* the ledger records for its version.
BasisHeld(s) ==
    \A row \in store[s] \cup {Candidate(s)} :
        row.basis = RecordOf(s, row.version).basis

\* A change of a recorded basis column reaches the version in force: once
\* built, and unless the delivery is behind the store, the row every derived
\* relation reads (shape_relations.py:582-597) is of the version emitted and
\* agrees with the delivery on its basis, across corrections at one instant
\* and the first build after a promotion.  A satellite whose record was
\* dropped, or whose rows were hashed over a basis nobody recorded, has no
\* such promise.
ChangeIsStored ==
    \A s \in built \ dropped :
        /\ BasisHeld(s)
        /\ \A r \in store[s] :
               r.version = emitted[s].version => r.at <= delivered.at
        => \E row \in InForce(store[s]) :
               /\ row.version = emitted[s].version
               /\ \A column \in ToSet(emitted[s].basis) :
                      row.payload[column] = delivered.values[column]

\* The claim of evolution.py:4-9 and 17-20: the basis is frozen the moment the
\* first version is stored, so two fingerprints of one basis version were
\* computed over one column set.
OneBasisPerVersion ==
    \A s \in Satellites : \A r1, r2 \in store[s] :
        r1.version = r2.version => r1.basis = r2.basis

\* The ledger describes everything stored, whatever was edited, promoted or
\* lost since it was written.
VaultInvariant ==
    /\ VaultTypeOK
    /\ StoredIsReadable
=============================================================================
