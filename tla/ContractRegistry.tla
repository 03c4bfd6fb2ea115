--------------------------- MODULE ContractRegistry ---------------------------
(***************************************************************************)
(* The migration state machine of ergasterion/source_delivery.py: a contract  *)
(* is registered as the candidate, activated under compare-and-swap, and, when *)
(* the change resets the history, confirmed once its baseline is published.    *)
(*                                                                         *)
(* Operators run concurrently: each acts on the registry it read, however old   *)
(* that has become.  A contract stands for its digest, and a migration is the   *)
(* contracts and epochs it connects.                                         *)
(***************************************************************************)
EXTENDS ContractCompatibility, FiniteSets

CONSTANTS
    Operators,      \* the people and jobs that migrate contracts
    Contracts,      \* the contracts they may declare
    NoContract,     \* None for a contract digest
    MaxAncestry,    \* max_visibility_ancestry_rows
    MaxRevision     \* bound: the revisions of the registry

ASSUME RegistryParameters ==
    /\ NoContract \notin Contracts
    /\ MaxAncestry \in Nat \ {0}
    /\ MaxRevision \in Nat

VARIABLES
    registry,   \* ContractRegistryState
    read,       \* operator -> the registry it acts on
    ledger      \* history: epoch -> the contract whose activation opened it

vars == <<registry, read, ledger>>

NoBaseline == [contract |-> NoContract, epoch |-> 0]

Initial ==
    [active |-> NoContract, activation_state |-> "pending_baseline",
     candidate |-> NoContract, epoch |-> 0, ancestry |-> <<>>, revision |-> 0,
     baseline |-> NoBaseline, from |-> NoContract]

\* plan_migration: the kind of the migration, or "refused" on a version that
\* understates the change.
PlanMigration(prior, candidate) ==
    LET change == IF prior = NoContract THEN "new_product"
                  ELSE ClassifyContractChange(prior, candidate)
    IN  IF prior # NoContract
           /\ ~SemverBumpOK(prior.version, candidate.version, change)
        THEN "refused"
        ELSE RequiredMigrationKind(change)

\* An operator reads the registry.
Read(o) ==
    /\ read[o] # registry
    /\ read' = [read EXCEPT ![o] = registry]
    /\ UNCHANGED <<registry, ledger>>

\* The compare of the compare-and-swap.
Current(o) == read[o].revision = registry.revision

Swap(o, next) ==
    /\ registry.revision < MaxRevision
    /\ registry' = [next EXCEPT !.revision = registry.revision + 1]
    /\ UNCHANGED read

\* register_candidate: one candidate at a time; again the same is accepted.
RegisterCandidate(o, c) ==
    /\ Current(o)
    /\ registry.candidate \in {NoContract, c}
    /\ Swap(o, [registry EXCEPT !.candidate = c])
    /\ UNCHANGED ledger

\* activate_contract that carries: the new epoch extends the closure.
ActivateCarry(o, c) ==
    LET epoch == registry.epoch + 1
        prior == read[o].active
    IN  /\ Current(o)
        /\ prior = registry.active
        /\ registry.candidate = c
        /\ PlanMigration(prior, c) = "carry"
        /\ Len(registry.ancestry) + 1 <= MaxAncestry
        /\ Swap(o, [registry EXCEPT !.active = c, !.activation_state = "active",
                                    !.candidate = NoContract, !.epoch = epoch,
                                    !.ancestry = Append(@, epoch),
                                    !.baseline = NoBaseline, !.from = prior])
        /\ ledger' = Append(ledger, c)

\* activate_contract that resets: the baseline is staged, the active contract
\* and its history stay as they are.
ActivateReset(o, c) ==
    LET prior == read[o].active
    IN  /\ Current(o)
        /\ prior = registry.active
        /\ registry.candidate = c
        /\ PlanMigration(prior, c) = "reset"
        /\ Swap(o, [registry EXCEPT
                      !.activation_state = "pending_baseline",
                      !.baseline = [contract |-> c, epoch |-> registry.epoch + 1]])
        /\ UNCHANGED ledger

\* confirm_baseline_activation: the closure starts at the new epoch.
ConfirmBaselineActivation(o) ==
    /\ Current(o)
    /\ registry.activation_state = "pending_baseline"
    /\ registry.baseline # NoBaseline
    /\ Swap(o, [registry EXCEPT !.active = registry.baseline.contract,
                                !.activation_state = "active",
                                !.candidate = NoContract,
                                !.epoch = registry.baseline.epoch,
                                !.ancestry = <<registry.baseline.epoch>>,
                                !.baseline = NoBaseline,
                                !.from = registry.active])
    /\ ledger' = Append(ledger, registry.baseline.contract)

Init ==
    /\ registry = Initial
    /\ read = [o \in Operators |-> Initial]
    /\ ledger = <<>>

Next ==
    \E o \in Operators :
      \/ Read(o)
      \/ \E c \in Contracts :
           RegisterCandidate(o, c) \/ ActivateCarry(o, c) \/ ActivateReset(o, c)
      \/ ConfirmBaselineActivation(o)

Spec == Init /\ [][Next]_vars

-----------------------------------------------------------------------------
(* Properties *)

Activated == registry.active # NoContract

\* The epoch counts the activations, the active contract opened the latest,
\* and the closure is a run of epochs that ends with it.
RegistryTypeOK ==
    /\ registry.epoch = Len(ledger)
    /\ registry.candidate \in Contracts \cup {NoContract}
    /\ Activated <=> registry.epoch > 0
    /\ Activated => registry.active = ledger[registry.epoch]
    /\ registry.ancestry
         = [i \in 1..Len(registry.ancestry) |->
              registry.epoch - Len(registry.ancestry) + i]
    /\ registry.baseline # NoBaseline =>
         /\ registry.baseline.contract = registry.candidate
         /\ registry.baseline.epoch = registry.epoch + 1

\* What a consumer bound to `old` reads is still published under `new`, and
\* what a source delivers for it is still a delivery of `new`.
Serves(old, new) ==
    /\ old.identity = new.identity
    /\ \A f \in BoundFields : old[f] = new[f]
    /\ \A c \in DOMAIN old.projection :
         /\ c \in DOMAIN new.projection
         /\ new.projection[c].type = old.projection[c].type
         /\ new.projection[c].nullable = old.projection[c].nullable
    /\ \A c \in DOMAIN new.columns :
         c \in DOMAIN old.columns \/ new.columns[c].nullable
    /\ \A c \in DOMAIN old.columns : c \in DOMAIN new.columns

\* The epochs of the closure read as one series: the active contract serves
\* the consumers and the deliveries of every contract that opened one of them,
\* however many small steps lie between the two.
AncestryIsReadable ==
    \A i \in DOMAIN registry.ancestry :
      Serves(ledger[registry.ancestry[i]], registry.active)

\* The compare-and-swap compares what it should: what an operator holds is a
\* registry that was, and the one that is when the revisions agree.
ReadsAreSnapshots ==
    \A o \in Operators :
        /\ read[o].revision \in Nat
        /\ read[o].revision <= registry.revision
        /\ Current(o) => read[o] = registry

\* A contract becomes active only over the contract it was compared with, under
\* a version that states the whole change: a breaking one raises the major
\* number, also when another operator migrated or restaged in between.
ActivationIsPlanned ==
    [][registry'.active # registry.active /\ Activated =>
         /\ Before(registry.active.version, registry'.active.version)
         /\ (HasMajorChange(registry.active, registry'.active)
               /\ registry.active.identity = registry'.active.identity) =>
              registry'.active.version[1] > registry.active.version[1]
         /\ registry'.active = registry.candidate]_vars

\* The registry agrees with the activations that were made, its closure names
\* only the epochs the active contract can still read, and whoever is current
\* acts on the registry itself.
RegistryInvariant ==
    /\ RegistryTypeOK
    /\ AncestryIsReadable
    /\ ReadsAreSnapshots
=============================================================================
