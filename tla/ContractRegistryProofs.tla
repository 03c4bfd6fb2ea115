------------------------ MODULE ContractRegistryProofs ------------------------
(***************************************************************************)
(* Proofs about ContractRegistry for any contracts, any number of operators  *)
(* and any bounds.                                                          *)
(***************************************************************************)
EXTENDS ContractRegistry, SequenceTheorems, TLAPS

\* Serves is not transitive: it forgets the type of a column once the column is
\* there, so a chain of changes could end with a column that is required.  What
\* every carried change keeps, and what composes, is this.
Extends(old, new) ==
    /\ old.identity = new.identity
    /\ \A f \in BoundFields : old[f] = new[f]
    /\ \A c \in DOMAIN old.projection :
         /\ c \in DOMAIN new.projection
         /\ new.projection[c].type = old.projection[c].type
         /\ new.projection[c].nullable = old.projection[c].nullable
    /\ \A c \in DOMAIN old.columns :
         /\ c \in DOMAIN new.columns
         /\ new.columns[c].nullable = old.columns[c].nullable
    /\ \A c \in DOMAIN new.columns :
         c \in DOMAIN old.columns \/ new.columns[c].nullable

Digests == Contracts \cup {NoContract}

RegistryState ==
    [active : Digests, activation_state : {"active", "pending_baseline"},
     candidate : Digests, epoch : Nat, ancestry : Seq(Nat), revision : Nat,
     baseline : [contract : Digests, epoch : Nat], from : Digests]

\* The ledger is the history the registry abbreviates: its length is the epoch
\* and its last contract is the active one.
LedgerAgrees ==
    /\ ledger \in Seq(Contracts)
    /\ registry.epoch = Len(ledger)
    /\ registry.active
         = IF registry.epoch = 0 THEN NoContract ELSE ledger[registry.epoch]

\* The closure is the last epochs, in order.
ClosureIsSuffix ==
    /\ Len(registry.ancestry) <= registry.epoch
    /\ \A i \in 1..Len(registry.ancestry) :
         registry.ancestry[i] = registry.epoch - Len(registry.ancestry) + i

\* Every epoch of the closure was opened by a contract the active one extends.
ClosureExtends ==
    \A i \in 1..Len(registry.ancestry) :
        Extends(ledger[registry.ancestry[i]], registry.active)

\* A staged baseline is the candidate, planned against the contract that is
\* still active: nothing moves the registry on while it is staged.
BaselineIsPlanned ==
    registry.baseline # NoBaseline =>
        /\ registry.baseline.contract \in Contracts
        /\ registry.baseline.contract = registry.candidate
        /\ registry.baseline.epoch = registry.epoch + 1
        /\ PlanMigration(registry.active, registry.baseline.contract) = "reset"

RegistryInductive ==
    /\ registry \in RegistryState
    /\ LedgerAgrees
    /\ ClosureIsSuffix
    /\ ClosureExtends
    /\ BaselineIsPlanned
    /\ ReadsAreSnapshots

-----------------------------------------------------------------------------
(* The classifier *)

LEMMA ExtendsServes ==
    ASSUME NEW old, NEW new, Extends(old, new)
    PROVE  Serves(old, new)
BY DEF Extends, Serves

LEMMA ExtendsReflexive ==
    ASSUME NEW c
    PROVE  Extends(c, c)
BY DEF Extends

LEMMA ExtendsTransitive ==
    ASSUME NEW a, NEW b, NEW c, Extends(a, b), Extends(b, c)
    PROVE  Extends(a, c)
<1>1. a.identity = c.identity /\ \A f \in BoundFields : a[f] = c[f]
  BY DEF Extends
<1>2. ASSUME NEW x \in DOMAIN a.projection
      PROVE  /\ x \in DOMAIN c.projection
             /\ c.projection[x].type = a.projection[x].type
             /\ c.projection[x].nullable = a.projection[x].nullable
  BY <1>2 DEF Extends
<1>3. ASSUME NEW x \in DOMAIN a.columns
      PROVE  /\ x \in DOMAIN c.columns
             /\ c.columns[x].nullable = a.columns[x].nullable
  BY <1>3 DEF Extends
<1>4. ASSUME NEW x \in DOMAIN c.columns
      PROVE  x \in DOMAIN a.columns \/ c.columns[x].nullable
  BY <1>4 DEF Extends
<1>. QED BY <1>1, <1>2, <1>3, <1>4 DEF Extends

\* A column of a map that is not broken keeps its type and its nullability.
LEMMA UnbrokenKeeps ==
    ASSUME NEW prior, NEW candidate,
           ~Broken(ColumnMap(prior), ColumnMap(candidate)),
           NEW c \in DOMAIN prior
    PROVE  /\ c \in DOMAIN candidate
           /\ candidate[c].type = prior[c].type
           /\ candidate[c].nullable = prior[c].nullable
<1>1. /\ DOMAIN ColumnMap(prior) = DOMAIN prior
      /\ DOMAIN ColumnMap(candidate) = DOMAIN candidate
  BY DEF ColumnMap
<1>2. /\ c \in DOMAIN ColumnMap(candidate)
      /\ ColumnMap(candidate)[c] = ColumnMap(prior)[c]
  BY <1>1 DEF Broken
<1>3. <<candidate[c].type, candidate[c].nullable>> = <<prior[c].type, prior[c].nullable>>
  BY <1>1, <1>2 DEF ColumnMap
<1>. QED BY <1>1, <1>2, <1>3

LEMMA NothingRequired ==
    ASSUME NEW prior, NEW candidate,
           ~Requires(ColumnMap(prior), ColumnMap(candidate)),
           NEW c \in DOMAIN candidate
    PROVE  c \in DOMAIN prior \/ candidate[c].nullable
<1>1. /\ DOMAIN ColumnMap(prior) = DOMAIN prior
      /\ DOMAIN ColumnMap(candidate) = DOMAIN candidate
      /\ ColumnMap(candidate)[c][2] = candidate[c].nullable
  BY DEF ColumnMap
<1>2. CASE c \in DOMAIN prior
  BY <1>2
<1>3. CASE c \notin DOMAIN prior
  BY <1>1, <1>3 DEF Requires
<1>. QED BY <1>2, <1>3

\* A change the classifier does not call major extends the contract.
LEMMA MinorExtends ==
    ASSUME NEW prior, NEW candidate,
           prior.identity = candidate.identity,
           ~HasMajorChange(prior, candidate)
    PROVE  Extends(prior, candidate)
<1>1. /\ \A f \in BoundFields : prior[f] = candidate[f]
      /\ ~Broken(ColumnMap(prior.columns), ColumnMap(candidate.columns))
      /\ ~Broken(ColumnMap(prior.projection), ColumnMap(candidate.projection))
      /\ ~Requires(ColumnMap(prior.columns), ColumnMap(candidate.columns))
  BY DEF HasMajorChange
<1>2. \A c \in DOMAIN prior.projection :
         /\ c \in DOMAIN candidate.projection
         /\ candidate.projection[c].type = prior.projection[c].type
         /\ candidate.projection[c].nullable = prior.projection[c].nullable
  BY <1>1, UnbrokenKeeps
<1>3. \A c \in DOMAIN prior.columns :
         /\ c \in DOMAIN candidate.columns
         /\ candidate.columns[c].nullable = prior.columns[c].nullable
  BY <1>1, UnbrokenKeeps
<1>4. \A c \in DOMAIN candidate.columns :
         c \in DOMAIN prior.columns \/ candidate.columns[c].nullable
  BY <1>1, NothingRequired
<1>. QED BY <1>1, <1>2, <1>3, <1>4 DEF Extends

\* A migration that carries is one over a contract, which the candidate extends.
LEMMA CarryExtends ==
    ASSUME NEW prior, NEW candidate, PlanMigration(prior, candidate) = "carry"
    PROVE  /\ prior # NoContract
           /\ Extends(prior, candidate)
<1>1. prior # NoContract
  BY DEF PlanMigration, RequiredMigrationKind
<1>2. ClassifyContractChange(prior, candidate) \in {"none", "patch", "minor"}
  BY <1>1 DEF PlanMigration, RequiredMigrationKind
<1>3. prior.identity = candidate.identity
  BY <1>2 DEF ClassifyContractChange
<1>4. ASSUME prior = candidate PROVE Extends(prior, candidate)
  <2>1. Extends(prior, prior)
    BY ExtendsReflexive
  <2>. QED BY <1>4, <2>1
<1>5. ASSUME prior # candidate PROVE Extends(prior, candidate)
  <2>1. ~HasMajorChange(prior, candidate)
    BY <1>2, <1>3, <1>5 DEF ClassifyContractChange
  <2>. QED BY <1>3, <2>1, MinorExtends
<1>. QED BY <1>1, <1>4, <1>5

\* A migration that is planned over another contract is stated by its version.
LEMMA PlannedIsStated ==
    ASSUME NEW prior, NEW candidate, prior # NoContract, prior # candidate,
           PlanMigration(prior, candidate) \in {"carry", "reset"}
    PROVE  /\ Before(prior.version, candidate.version)
           /\ (HasMajorChange(prior, candidate)
                 /\ prior.identity = candidate.identity) =>
                candidate.version[1] > prior.version[1]
<1> DEFINE change == ClassifyContractChange(prior, candidate)
<1>1. SemverBumpOK(prior.version, candidate.version, change)
  BY DEF PlanMigration
<1>2. change # "none"
  BY DEF ClassifyContractChange
<1>3. Before(prior.version, candidate.version)
  BY <1>1, <1>2 DEF SemverBumpOK
<1>4. ASSUME HasMajorChange(prior, candidate), prior.identity = candidate.identity
      PROVE  candidate.version[1] > prior.version[1]
  <2>1. change = "major"
    BY <1>4 DEF ClassifyContractChange
  <2>. QED BY <1>1, <2>1 DEF SemverBumpOK
<1>. QED BY <1>3, <1>4

-----------------------------------------------------------------------------
(* The steps *)

\* What the types of the state say about its parts.
LEMMA RegistryFields ==
    ASSUME RegistryInductive
    PROVE  /\ registry.epoch \in Nat
           /\ registry.revision \in Nat
           /\ registry.ancestry \in Seq(Nat)
           /\ registry.candidate \in Digests
           /\ registry.active \in Digests
           /\ registry.activation_state \in {"active", "pending_baseline"}
           /\ registry.from \in Digests
           /\ registry.baseline \in [contract : Digests, epoch : Nat]
           /\ registry.epoch = Len(ledger)
BY DEF RegistryInductive, RegistryState, LedgerAgrees

\* The registry an activation leaves, before the swap numbers it.
LEMMA OpenedIsTyped ==
    ASSUME NEW r \in RegistryState, NEW c \in Digests, NEW e \in Nat,
           NEW closure \in Seq(Nat), NEW prior \in Digests
    PROVE  [r EXCEPT !.active = c, !.activation_state = "active",
                     !.candidate = NoContract, !.epoch = e, !.ancestry = closure,
                     !.baseline = NoBaseline, !.from = prior] \in RegistryState
<1>1. NoContract \in Digests /\ NoBaseline \in [contract : Digests, epoch : Nat]
  BY DEF Digests, NoBaseline
<1>. QED BY <1>1 DEF RegistryState

LEMMA SwappedIsTyped ==
    ASSUME NEW next \in RegistryState, registry.revision \in Nat,
           registry' = [next EXCEPT !.revision = registry.revision + 1]
    PROVE  registry' \in RegistryState
<1>1. /\ next.active \in Digests /\ next.candidate \in Digests
      /\ next.activation_state \in {"active", "pending_baseline"}
      /\ next.epoch \in Nat /\ next.ancestry \in Seq(Nat) /\ next.from \in Digests
      /\ next.baseline \in [contract : Digests, epoch : Nat]
  BY DEF RegistryState
<1>2. registry'
        = [active |-> next.active, activation_state |-> next.activation_state,
           candidate |-> next.candidate, epoch |-> next.epoch,
           ancestry |-> next.ancestry, revision |-> registry.revision + 1,
           baseline |-> next.baseline, from |-> next.from]
  BY DEF RegistryState
<1>. QED BY <1>1, <1>2 DEF RegistryState

\* A swap gives the registry a new revision, so what an operator held before is
\* no longer current.
LEMMA SwapKeepsReads ==
    ASSUME RegistryInductive, NEW next \in RegistryState,
           next.revision = registry.revision,
           registry' = [next EXCEPT !.revision = registry.revision + 1],
           UNCHANGED read
    PROVE  ReadsAreSnapshots'
<1>1. registry'.revision = registry.revision + 1 /\ registry.revision \in Nat
  BY RegistryFields DEF RegistryState
<1>2. ASSUME NEW o \in Operators
      PROVE  /\ read'[o].revision \in Nat
             /\ read'[o].revision <= registry'.revision
             /\ read'[o].revision # registry'.revision
  BY <1>1, <1>2 DEF RegistryInductive, ReadsAreSnapshots
<1>. QED BY <1>2 DEF ReadsAreSnapshots, Current

LEMMA InitRegistry == Init => RegistryInductive
<1> SUFFICES ASSUME Init PROVE RegistryInductive
  OBVIOUS
<1>1. registry = Initial /\ ledger = <<>> /\ read = [o \in Operators |-> Initial]
  BY DEF Init
<1>2. registry \in RegistryState
  BY <1>1 DEF RegistryState, Initial, NoBaseline, Digests
<1>3. LedgerAgrees
  BY <1>1 DEF LedgerAgrees, Initial
<1>4. ClosureIsSuffix /\ ClosureExtends
  BY <1>1 DEF ClosureIsSuffix, ClosureExtends, Initial
<1>5. BaselineIsPlanned
  BY <1>1 DEF BaselineIsPlanned, Initial
<1>6. ReadsAreSnapshots
  BY <1>1 DEF ReadsAreSnapshots, Initial
<1>. QED BY <1>2, <1>3, <1>4, <1>5, <1>6 DEF RegistryInductive

\* Reading makes one operator current and leaves the others as they were.
LEMMA ReadPreserves ==
    ASSUME RegistryInductive, NEW o \in Operators, Read(o)
    PROVE  RegistryInductive'
<1>1. registry' = registry /\ ledger' = ledger
  BY DEF Read
<1>2. ReadsAreSnapshots'
  BY <1>1, RegistryFields DEF Read, RegistryInductive, ReadsAreSnapshots, Current
<1>. QED BY <1>1, <1>2 DEF RegistryInductive, LedgerAgrees, ClosureIsSuffix,
                           ClosureExtends, BaselineIsPlanned

LEMMA RegisterPreserves ==
    ASSUME RegistryInductive, NEW o \in Operators, NEW c \in Contracts,
           RegisterCandidate(o, c)
    PROVE  RegistryInductive'
<1> DEFINE next == [registry EXCEPT !.candidate = c]
<1>1. /\ next \in RegistryState
      /\ next.revision = registry.revision
      /\ registry' = [next EXCEPT !.revision = registry.revision + 1]
      /\ ledger' = ledger /\ read' = read
  BY DEF RegisterCandidate, Swap, RegistryInductive, RegistryState, Digests
<1>2. /\ registry'.active = registry.active
      /\ registry'.epoch = registry.epoch
      /\ registry'.ancestry = registry.ancestry
      /\ registry'.baseline = registry.baseline
      /\ registry'.candidate = c
  BY <1>1 DEF RegistryInductive, RegistryState
<1>3. registry' \in RegistryState
  <2> HIDE DEF next
  <2>. QED BY <1>1, RegistryFields, SwappedIsTyped
<1>4. LedgerAgrees' /\ ClosureIsSuffix' /\ ClosureExtends'
  BY <1>1, <1>2 DEF RegistryInductive, LedgerAgrees, ClosureIsSuffix, ClosureExtends
<1>5. BaselineIsPlanned'
  <2> SUFFICES ASSUME registry.baseline # NoBaseline
               PROVE  registry.baseline.contract = c
    BY <1>2 DEF RegistryInductive, BaselineIsPlanned
  <2>1. registry.baseline.contract \in Contracts
        /\ registry.baseline.contract = registry.candidate
    BY DEF RegistryInductive, BaselineIsPlanned
  <2>2. registry.candidate \in {NoContract, c}
    BY DEF RegisterCandidate
  <2>. QED BY <2>1, <2>2, RegistryParameters
<1>6. ReadsAreSnapshots'
  <2> HIDE DEF next
  <2>. QED BY <1>1, SwapKeepsReads
<1>. QED BY <1>3, <1>4, <1>5, <1>6 DEF RegistryInductive

\* The new epoch extends the closure, and the new contract extends the active
\* one, so it extends every contract of the closure.
LEMMA CarryPreserves ==
    ASSUME RegistryInductive, NEW o \in Operators, NEW c \in Contracts,
           ActivateCarry(o, c)
    PROVE  RegistryInductive'
<1> DEFINE n == Len(registry.ancestry)
           closure == Append(registry.ancestry, registry.epoch + 1)
           next == [registry EXCEPT !.active = c, !.activation_state = "active",
                                    !.candidate = NoContract,
                                    !.epoch = registry.epoch + 1,
                                    !.ancestry = closure,
                                    !.baseline = NoBaseline,
                                    !.from = registry.active]
<1>1. /\ registry' = [next EXCEPT !.revision = registry.revision + 1]
      /\ ledger' = Append(ledger, c) /\ read' = read
      /\ PlanMigration(registry.active, c) = "carry"
  BY DEF ActivateCarry, Swap
<1>2. next \in RegistryState /\ next.revision = registry.revision
  <2>1. closure \in Seq(Nat)
    BY RegistryFields
  <2>2. c \in Digests
    BY DEF Digests
  <2>3. registry \in RegistryState
    BY DEF RegistryInductive
  <2>4. next \in RegistryState
    <3>1. registry.epoch + 1 \in Nat
      BY RegistryFields
    <3> HIDE DEF closure
    <3>. QED BY <2>1, <2>2, <2>3, <3>1, RegistryFields, OpenedIsTyped
  <2>. QED BY <2>3, <2>4 DEF RegistryState
<1>3. /\ registry'.active = c
      /\ registry'.epoch = registry.epoch + 1
      /\ registry'.ancestry = Append(registry.ancestry, registry.epoch + 1)
      /\ registry'.baseline = NoBaseline
  BY <1>1 DEF RegistryInductive, RegistryState
<1>4. registry' \in RegistryState
  <2> HIDE DEF next
  <2>. QED BY <1>1, <1>2, RegistryFields, SwappedIsTyped
<1>5. /\ registry.ancestry \in Seq(Nat) /\ n \in Nat
      /\ registry.epoch \in Nat /\ registry.epoch = Len(ledger)
      /\ ledger \in Seq(Contracts)
  BY RegistryFields DEF RegistryInductive, LedgerAgrees
<1>6. LedgerAgrees'
  BY <1>1, <1>3, <1>5 DEF LedgerAgrees
<1>7. /\ Len(registry'.ancestry) = n + 1
      /\ \A i \in 1..n : registry'.ancestry[i] = registry.ancestry[i]
      /\ registry'.ancestry[n + 1] = registry.epoch + 1
  BY <1>3, <1>5
<1> HIDE DEF next
<1>8. /\ n <= registry.epoch
      /\ \A i \in 1..n : registry.ancestry[i] = registry.epoch - n + i
  BY DEF RegistryInductive, ClosureIsSuffix
<1>9. ClosureIsSuffix'
  <2>1. Len(registry'.ancestry) <= registry'.epoch
    BY <1>3, <1>5, <1>7, <1>8
  <2>2. ASSUME NEW i \in 1..Len(registry'.ancestry)
        PROVE  registry'.ancestry[i]
                 = registry'.epoch - Len(registry'.ancestry) + i
    <3>1. CASE i \in 1..n
      <4>1. registry'.ancestry[i] = registry.epoch - n + i
        BY <1>7, <1>8, <3>1
      <4>2. registry'.epoch = registry.epoch + 1 /\ Len(registry'.ancestry) = n + 1
        BY <1>3, <1>7
      <4>3. registry'.epoch - Len(registry'.ancestry) = registry.epoch - n
        BY <1>5, <4>2
      <4>. QED BY <4>1, <4>3
    <3>2. CASE i = n + 1
      BY <1>3, <1>5, <1>7, <3>2
    <3>. QED BY <1>5, <1>7, <3>1, <3>2
  <2>. QED BY <2>1, <2>2 DEF ClosureIsSuffix
<1>10. Extends(registry.active, c)
  BY <1>1, CarryExtends
<1>11. ClosureExtends'
  <2> SUFFICES ASSUME NEW i \in 1..Len(registry'.ancestry)
               PROVE  Extends(ledger'[registry'.ancestry[i]], c)
    BY <1>3 DEF ClosureExtends
  <2>1. CASE i \in 1..n
    <3>1. registry.ancestry[i] \in 1..Len(ledger)
      <4>1. registry.ancestry[i] = registry.epoch - n + i
        BY <1>8, <2>1
      <4>2. registry.epoch - n + i \in 1..registry.epoch
        BY <1>5, <1>8, <2>1
      <4>. QED BY <1>5, <4>1, <4>2
    <3>2. ledger'[registry'.ancestry[i]] = ledger[registry.ancestry[i]]
      <4>1. registry'.ancestry[i] = registry.ancestry[i]
        BY <1>7, <2>1
      <4>2. ASSUME NEW e \in 1..Len(ledger)
            PROVE  Append(ledger, c)[e] = ledger[e]
        BY <1>5
      <4>3. Append(ledger, c)[registry.ancestry[i]] = ledger[registry.ancestry[i]]
        BY <3>1, <4>2
      <4>4. ledger' = Append(ledger, c)
        BY <1>1
      <4>. QED BY <4>1, <4>3, <4>4
    <3>3. Extends(ledger[registry.ancestry[i]], registry.active)
      BY <2>1 DEF RegistryInductive, ClosureExtends
    <3>. QED BY <1>10, <3>2, <3>3, ExtendsTransitive
  <2>2. CASE i = n + 1
    <3>1. ledger'[registry'.ancestry[i]] = c
      BY <1>1, <1>5, <1>7, <2>2
    <3>. QED BY <3>1, ExtendsReflexive
  <2>. QED BY <1>5, <1>7, <2>1, <2>2
<1>12. BaselineIsPlanned'
  BY <1>3 DEF BaselineIsPlanned
<1>13. ReadsAreSnapshots'
  <2> HIDE DEF next
  <2>. QED BY <1>1, <1>2, SwapKeepsReads
<1>. QED BY <1>4, <1>6, <1>9, <1>11, <1>12, <1>13 DEF RegistryInductive

\* A reset leaves the active contract, its closure and the ledger.
LEMMA ResetPreserves ==
    ASSUME RegistryInductive, NEW o \in Operators, NEW c \in Contracts,
           ActivateReset(o, c)
    PROVE  RegistryInductive'
<1> DEFINE staged == [contract |-> c, epoch |-> registry.epoch + 1]
           next == [registry EXCEPT !.activation_state = "pending_baseline",
                                    !.baseline = staged]
<1>1. /\ registry' = [next EXCEPT !.revision = registry.revision + 1]
      /\ ledger' = ledger /\ read' = read
      /\ PlanMigration(registry.active, c) = "reset"
      /\ registry.candidate = c
  BY DEF ActivateReset, Swap
<1>2. next \in RegistryState /\ next.revision = registry.revision
  <2>1. staged \in [contract : Digests, epoch : Nat]
    BY RegistryFields DEF Digests
  <2>2. registry \in RegistryState
    BY DEF RegistryInductive
  <2> HIDE DEF staged
  <2>. QED BY <2>1, <2>2 DEF RegistryState
<1>3. /\ registry'.active = registry.active
      /\ registry'.epoch = registry.epoch
      /\ registry'.ancestry = registry.ancestry
      /\ registry'.baseline = staged
      /\ registry'.candidate = c
  BY <1>1 DEF RegistryInductive, RegistryState
<1>4. registry' \in RegistryState
  <2> HIDE DEF next
  <2>. QED BY <1>1, <1>2, RegistryFields, SwappedIsTyped
<1>5. LedgerAgrees' /\ ClosureIsSuffix' /\ ClosureExtends'
  BY <1>1, <1>3 DEF RegistryInductive, LedgerAgrees, ClosureIsSuffix, ClosureExtends
<1>6. BaselineIsPlanned'
  BY <1>1, <1>3 DEF BaselineIsPlanned
<1>7. ReadsAreSnapshots'
  <2> HIDE DEF next
  <2>. QED BY <1>1, <1>2, SwapKeepsReads
<1>. QED BY <1>4, <1>5, <1>6, <1>7 DEF RegistryInductive

\* The closure starts again at the epoch of the baseline, which its own contract
\* opens.
LEMMA ConfirmPreserves ==
    ASSUME RegistryInductive, NEW o \in Operators, ConfirmBaselineActivation(o)
    PROVE  RegistryInductive'
<1> DEFINE c == registry.baseline.contract
           next == [registry EXCEPT !.active = c, !.activation_state = "active",
                                    !.candidate = NoContract,
                                    !.epoch = registry.baseline.epoch,
                                    !.ancestry = <<registry.baseline.epoch>>,
                                    !.baseline = NoBaseline,
                                    !.from = registry.active]
<1>1. /\ registry' = [next EXCEPT !.revision = registry.revision + 1]
      /\ ledger' = Append(ledger, c) /\ read' = read
      /\ registry.baseline # NoBaseline
  BY DEF ConfirmBaselineActivation, Swap
<1>2. /\ c \in Contracts
      /\ registry.baseline.epoch = registry.epoch + 1
      /\ registry.epoch \in Nat /\ registry.epoch = Len(ledger)
      /\ ledger \in Seq(Contracts)
  BY <1>1, RegistryFields DEF RegistryInductive, BaselineIsPlanned, LedgerAgrees
<1>3. next \in RegistryState /\ next.revision = registry.revision
  <2>1. <<registry.baseline.epoch>> \in Seq(Nat)
    BY <1>2
  <2>2. c \in Digests
    BY <1>2 DEF Digests
  <2>3. registry \in RegistryState
    BY DEF RegistryInductive
  <2>4. next \in RegistryState
    BY <2>1, <2>2, <2>3, RegistryFields, OpenedIsTyped, <1>2
  <2>. QED BY <2>3, <2>4 DEF RegistryState
<1>4. /\ registry'.active = c
      /\ registry'.epoch = registry.epoch + 1
      /\ registry'.ancestry = <<registry.epoch + 1>>
      /\ registry'.baseline = NoBaseline
  BY <1>1, <1>2 DEF RegistryInductive, RegistryState
<1>5. registry' \in RegistryState
  <2> HIDE DEF next
  <2>. QED BY <1>1, <1>3, RegistryFields, SwappedIsTyped
<1>6. LedgerAgrees'
  BY <1>1, <1>2, <1>4 DEF LedgerAgrees
<1>7. ClosureIsSuffix'
  BY <1>2, <1>4 DEF ClosureIsSuffix
<1>8. ClosureExtends'
  <2>1. ledger'[registry.epoch + 1] = c
    BY <1>1, <1>2
  <2>2. Extends(c, c)
    BY ExtendsReflexive
  <2>. QED BY <1>2, <1>4, <2>1, <2>2 DEF ClosureExtends
<1>9. BaselineIsPlanned'
  BY <1>4 DEF BaselineIsPlanned
<1>10. ReadsAreSnapshots'
  <2> HIDE DEF next
  <2>. QED BY <1>1, <1>3, SwapKeepsReads
<1>. QED BY <1>5, <1>6, <1>7, <1>8, <1>9, <1>10 DEF RegistryInductive

LEMMA RegistryStep == RegistryInductive /\ [Next]_vars => RegistryInductive'
<1> SUFFICES ASSUME RegistryInductive, [Next]_vars PROVE RegistryInductive'
  OBVIOUS
<1>1. CASE UNCHANGED vars
  BY <1>1 DEF vars, RegistryInductive, LedgerAgrees, ClosureIsSuffix, ClosureExtends,
              BaselineIsPlanned, ReadsAreSnapshots, Current
<1>2. ASSUME NEW o \in Operators, Read(o) PROVE RegistryInductive'
  BY <1>2, ReadPreserves
<1>3. ASSUME NEW o \in Operators, NEW c \in Contracts, RegisterCandidate(o, c)
      PROVE  RegistryInductive'
  BY <1>3, RegisterPreserves
<1>4. ASSUME NEW o \in Operators, NEW c \in Contracts, ActivateCarry(o, c)
      PROVE  RegistryInductive'
  BY <1>4, CarryPreserves
<1>5. ASSUME NEW o \in Operators, NEW c \in Contracts, ActivateReset(o, c)
      PROVE  RegistryInductive'
  BY <1>5, ResetPreserves
<1>6. ASSUME NEW o \in Operators, ConfirmBaselineActivation(o) PROVE RegistryInductive'
  BY <1>6, ConfirmPreserves
<1>. QED BY <1>1, <1>2, <1>3, <1>4, <1>5, <1>6 DEF Next

-----------------------------------------------------------------------------
(* The theorems *)

\* The inductive invariant of the migration state machine.
THEOREM RegistryInductiveHolds == Spec => []RegistryInductive
<1>1. Init => RegistryInductive
  BY InitRegistry
<1>2. RegistryInductive /\ [Next]_vars => RegistryInductive'
  BY RegistryStep
<1>. QED BY <1>1, <1>2, PTL DEF Spec

\* After any number of migrations by any number of operators the registry agrees
\* with the activations that were made, the active contract serves the consumers
\* and deliveries of every contract of its closure, and whoever is current acts
\* on the registry itself (activate_contract, confirm_baseline_activation).
THEOREM RegistryIsConsistent == Spec => []RegistryInvariant
<1>1. RegistryInductive => RegistryInvariant
  <2> SUFFICES ASSUME RegistryInductive PROVE RegistryInvariant
    OBVIOUS
  <2>1. RegistryTypeOK
    <3>1. registry.candidate \in Contracts \cup {NoContract}
      BY RegistryFields DEF Digests
    <3>2. Activated <=> registry.epoch > 0
      BY RegistryFields, RegistryParameters DEF Activated, RegistryInductive, LedgerAgrees
    <3>3. Activated => registry.active = ledger[registry.epoch]
      BY DEF Activated, RegistryInductive, LedgerAgrees
    <3>4. registry.ancestry
            = [i \in 1..Len(registry.ancestry) |->
                 registry.epoch - Len(registry.ancestry) + i]
      BY RegistryFields, LenProperties DEF RegistryInductive, ClosureIsSuffix
    <3>. QED BY <3>1, <3>2, <3>3, <3>4
             DEF RegistryTypeOK, RegistryInductive, LedgerAgrees, BaselineIsPlanned
  <2>2. AncestryIsReadable
    BY RegistryFields, ExtendsServes
    DEF AncestryIsReadable, RegistryInductive, ClosureExtends
  <2>. QED BY <2>1, <2>2 DEF RegistryInvariant, RegistryInductive
<1>. QED BY <1>1, RegistryInductiveHolds, PTL

\* A contract replaces another only under a version that states the change
\* between the two, also when the baseline was planned steps before
\* (validate_semver_bump, plan_migration).
THEOREM ActivationFollowsPlan == Spec => ActivationIsPlanned
<1> DEFINE Planned ==
             registry'.active # registry.active /\ Activated =>
               /\ Before(registry.active.version, registry'.active.version)
               /\ (HasMajorChange(registry.active, registry'.active)
                     /\ registry.active.identity = registry'.active.identity) =>
                    registry'.active.version[1] > registry.active.version[1]
               /\ registry'.active = registry.candidate
<1>1. RegistryInductive /\ [Next]_vars => [Planned]_vars
  <2> SUFFICES ASSUME RegistryInductive, Next,
                      registry'.active # registry.active, Activated
               PROVE  /\ PlanMigration(registry.active, registry'.active)
                            \in {"carry", "reset"}
                      /\ registry'.active = registry.candidate
    BY PlannedIsStated DEF Activated
  <2>1. ASSUME NEW o \in Operators, Read(o) PROVE FALSE
    BY <2>1 DEF Read
  <2>2. ASSUME NEW o \in Operators, NEW c \in Contracts, RegisterCandidate(o, c)
        PROVE  FALSE
    BY <2>2 DEF RegisterCandidate, Swap, RegistryInductive, RegistryState
  <2>3. ASSUME NEW o \in Operators, NEW c \in Contracts, ActivateReset(o, c)
        PROVE  FALSE
    BY <2>3 DEF ActivateReset, Swap, RegistryInductive, RegistryState
  <2>4. ASSUME NEW o \in Operators, NEW c \in Contracts, ActivateCarry(o, c)
        PROVE  /\ PlanMigration(registry.active, registry'.active) = "carry"
               /\ registry'.active = registry.candidate
    <3>1. registry'.active = c
      BY <2>4 DEF ActivateCarry, Swap, RegistryInductive, RegistryState
    <3>. QED BY <2>4, <3>1 DEF ActivateCarry
  <2>5. ASSUME NEW o \in Operators, ConfirmBaselineActivation(o)
        PROVE  /\ PlanMigration(registry.active, registry'.active) = "reset"
               /\ registry'.active = registry.candidate
    <3>1. registry'.active = registry.baseline.contract
      BY <2>5 DEF ConfirmBaselineActivation, Swap, RegistryInductive, RegistryState
    <3>2. registry.baseline # NoBaseline
      BY <2>5 DEF ConfirmBaselineActivation
    <3>. QED BY <3>1, <3>2 DEF RegistryInductive, BaselineIsPlanned
  <2>. QED BY <2>1, <2>2, <2>3, <2>4, <2>5 DEF Next
<1>. QED BY <1>1, RegistryInductiveHolds, PTL DEF Spec, ActivationIsPlanned

=============================================================================
