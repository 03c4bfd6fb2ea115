# Ergasterion: TLA+ models of a data-product compiler and its landing runtime

Ergasterion turns product declarations into data products. It has two halves. The
*compiler* (`framework/`, `translators/`, `shapes/`, the emitters and gates) reads
an estate's declarations and renders a dbt project, contracts, descriptors and a
product graph. The *landing ingestion runtime* (`ingestion/`, with the landing
declarations of `source_delivery.py`) receives deliveries, lands, validates and
quarantines their rows, and makes each delivery visible to readers exactly once.
This project models both, model-checks them on small instances and proves the
central safety properties of the runtime, the registry and the emitters for all
instances.

Paths below are relative to `src/ergasterion/`.

## Inventory

| Component | State it keeps | Operations | Correct when |
| --- | --- | --- | --- |
| Ingestion runtime (`ingestion/runtime.py`) | none; the caller holds a `StreamState` and an `Attempt` between calls | submit, land and validate, publish, apply and settle, run due, run scheduled, contract and deployment transitions, release | a delivery is published once, in order, and its attempt says so |
| Operator commands (`ingestion/commands.py`) | none | `ingest file`, `ingest due`, `reconcile`, `contract`, `deployment`, `quarantine`, `local-backup` | each command may stop anywhere and be repeated |
| Delivery state store (`ingestion/sqlite_store.py`) | stream, attempts, intents, outbox, confirmations, candidates | transactions under a state revision, leases | revisions are never lost, settlement never precedes application |
| Projection target (`ingestion/duckdb_projection.py`) | cursor, applied intents, read models | `apply_gap_ordered`, `read_cursor` | intents are applied once, in revision order |
| Landing adapter (`ingestion/duckdb_landing.py`) | preparations, candidates, dispositions, accepted partitions | prepare, page in, materialize, release | every framed row has one disposition |
| Lifecycle sink (`ingestion/duckdb_lifecycle.py`, `reference_runtime.py`) | events by identity and ordinal | project events | ordinals have no gap |
| Remediation repository (`ingestion/duckdb_remediation.py`) | decisions, claims on released rows | record decision | a row is released once |
| Validation (`ingestion/validation.py`, `local_scratch_store.py`) | retained units and tags; scratch scopes | stream frames, spill, sort, merge, decide | the findings do not depend on what fits in memory |
| Raw store, backup (`ingestion/local_raw_store.py`, `local_backup.py`) | payloads, manifests, receipts; fence, archive | preserve; create, restore | a restore puts one moment back |
| Schedules (`source_delivery.py`) | none | boundary arithmetic, catch-up | boundaries increase and none is skipped |
| Landing declarations (`source_delivery.py`) | none | typed loading, digests | a loaded contract means one thing |
| Contract registry (`source_delivery.py`) | candidate, active contract, epoch, ancestry, baseline | register, activate, confirm | consumers can read the whole ancestry |
| Product declarations (`framework/declaration.py`, `rules.py`) | none | layered validation | what is accepted can be bound, stored and rendered |
| Contract pipe (`framework/contract.py`) | none | combine, propagate, resolve, classify changes | what is published as required, typed or compatible is |
| Composition graph (`framework/graph.py`) | none | edges, order, lineage, coverage | a product is built after all it reads |
| Routing and gates (`framework/routing.py`, `structure_gate.py`, `emit_products.py`) | none | plan, route, measure | what is planned is rendered, budgets hold |
| Translator dbt (`translators/dbt_patterns/`) | none; the project it emits has a warehouse | render steps, rules, curation, shapes, publication | the rendered rows are those the declaration means |
| Data vault (`shapes/data_vault/`) | the evolution ledger; the stored satellites | grade, stage, promote, abort | stored history keeps its meaning |
| Emitters (`emit_*.py`) | the generated trees | write, prune, check | exit 0 means the trees are those of the declarations |
| Codecs, attestations, importers, scaffold, lints, conformance suite | none | convert, copy, match text | not modelled, see the end |

How they interact. A runtime command opens a session, reads the store and calls the
runtime, which calls the store (SQLite) and the target (DuckDB) in turn. The two
databases share no transaction, so publication is two-phase: the intent is
*staged* in the store with its outbox entry, *applied* at the target, *settled*
in the store. What interrupts this is repaired by later calls of `ingest due`
(which leases outbox entries) and `reconcile` (which replays unconfirmed intents).
Landing writes pages of frames and dispositions; rejected rows become evaluations
a release may start from; every transition emits a lifecycle event after the fact.
In the compiler, the emitters run one after another over the same declarations:
products are validated, ordered by the graph, their schemas propagated in that
order, routed to a translator, written, gated, and then described. The vault's ledger
is the one thing an emission reads back that an earlier one wrote.

What is hard: a crash between any two port calls; dead letters behind an
unreachable target; leases that outlive their owner; processes acting on a state read
earlier; transitions of a contract amid a delivery; budgets shared by spills;
backups of a root somebody writes; null semantics across three renderings of one
rule; fixed rounds of label propagation; passes that die half written; declarations
edited while a pass reads them. `PROJECT.json` lists the hazards with their lines.

## Modules

Landing runtime:

* `DeliveryStateStore` - one stream of the SQLite store. Each operator is the
  body of one transaction; checks that raise are conjuncts.
* `ProjectionTarget` - the publisher: the sequence of applied intents, from which
  cursor, ledger and status rows follow in the same transaction.
* `LandingRuntime` - extends both. A session (`pc`, `mem`) runs one command; an
  action is one port transaction or one read. `mem` is what the Python frames hold
  between calls. States the properties and the inductive invariant.
* `PublicationLog` - the abstract specification: an append-only log with one entry
  per claim, a published prefix that grows one at a time, acknowledgements of it.
* `LandingTables`, `RemediationRepository`, `LifecycleSink` - three parts of
  the DuckDB file, one operator per port call; `Quarantine` composes them into the
  landing of a delivery and the release of its rejected rows; `QuarantineProofs`.
* `ScratchStore` - scopes under two ceilings; `StreamingValidation` runs
  `validate_frames` over it, two evaluations at a time; `StreamingValidationProofs`.
* `LocalRoot` - the files of the runtime root, their backup and restore;
  `LocalRootProofs`.
* `ContractCompatibility` (pure) and `ContractRegistry` over it.
* `LandingRuntimeProofs` and, on top of it, `LandingAttemptProofs` (attempts and epochs;
  the streams row and the scheduled occurrences), and `ContractRegistryProofs` - theorems
  and proofs.

Compiler:

* `SourceComposition`, `CompositionSteps` - fields and rows of a composition, side by
  side: what the contract pipe publishes and what the rendering returns.
  `RelationRegistry` resolves reads over an estate, `ProductGraph` orders it.
* `Curation`, `ShapeRelations` - the rendered relations of entity resolution,
  dimensions, ods, canonical interfaces and vault.
* `ProductEvidence`, `ProductBuild` - filter logs, quarantine and checked relations of
  one product, and the dbt runs that build and test them.
* `Declarations`, `LandingDeclarations`, `EstateGates` - what the validators, the
  landing loader, the router and the structural gate accept. `Schedule` - the
  boundaries of a schedule over a calendar whose offset changes.
* `VaultEvolution` - declaration, ledger, emitted statements and stored rows;
  `VaultProofs`.
* `Emission` - a pass of the emitters over the generated trees; `EmissionProofs`.
* `CompilerInputs`, `EstateInputs`, `LandingInputs` - the inputs TLC enumerates.

`MCLandingRuntime`, `MCQuarantine`, `MCStreamingValidation`, `MCContractRegistry`,
`MCEstate`, `MCVaultEvolution` and `MCCompiler` give the constants their values.

### Code and actions

| Code | Actions |
| --- | --- |
| `_cmd_ingest_file`, `submit_managed` | `IngestFile`, `SubmitAdmitted`, `SubmitManaged`, `SubmitReplay`, `SubmitRefused` |
| `land_and_validate`, `fail_attempt` | `Prepare`, `Materialize`, `Validate`, `FailAttempt` |
| `publish` | `BeginCommit`, `StagePublication` |
| `_apply_outbox_intent` | `ApplyIntent`, `ApplyOutOfOrder`, `TargetUnavailable`, `CommitAttempt`, `BlockAttempt`, `Settle`, `GiveBack` |
| `run_due` | `Lease`, `NothingDue`, `Resume` |
| `_cmd_ingest_due`, `_stage_heartbeat`, `run_scheduled` | `IngestDue`, `Heartbeat`, `HeartbeatGate`, `StageHeartbeat`, `ReadStatus`, `ReadSince`, `Schedule`, `ScheduleGate`, `StageOccurrence`, `EndSchedule` |
| `_cmd_reconcile` | `Reconcile`, `ReadLog`, `ReplayIntent`, `EndReplay` |
| contract and deployment commands | `ContractCommand`, `Register`, `Activate`, `ActivateRefused`, `DeploymentCommand`, `DeployRegister`, `DeployActivate`, `DeployRefused` |
| `PortError` raised by a transaction | `StaleRevision`, `StageConflict`, `LeaseConflict` |
| the process, the clock | `Crash`, `ExpireLease`, `PassBoundary` |

| `Quarantine` | Code |
| --- | --- |
| `Submit`, `EmitLifecycle`, `SilentTransition` | a transition and the event it emits afterwards, or none |
| `Prepare`, `OpenPreparation`, `ReadRaw`, `Prepared`, `PrepareFails` | preparation, page by page |
| `Materialize`, `OpenMaterialization`, `DispositionsOfPage`, `Materialized` | framing into candidates and dispositions, page by page |
| `Validate`, `Evaluate`, `EmitEvidence`, `Commit`, `Reject` | the decision of `_land_and_validate`, one evaluation per rejected row, the outcome |
| `ReleaseQuarantine`, `ReleaseRows`, `ReleaseRowsRefused`, `BumpAttempt`, `CheckpointRelease` | `quarantine release` and its three writes |
| `Tick`, `Crash` | clock, process |

| `StreamingValidation`, `LocalRoot` | Code |
| --- | --- |
| `Start`, `ValidateFrame`, `DuplicatesInMemory`, `SortTags`, `MergeStep`, `EndPass`, `ScanDuplicates`, `Materialize`, `RaiseError`, `Crash` | the phases of `validate_frames` |
| `OpenSession`, `PreservePayload`, `PreserveManifest`, `PreserveReceipt`, `SubmitAttempt`, `LandRows`, `CommitAttempt`, `CloseSession`, `CrashWriter` | an ingesting process, file by file |
| `BeginBackup`, `CloseForBackup`, `ListFiles`, `HashFile`, `WritePage`, `WriteManifest`, `CopyFile`, `CrashBackup` | `create_backup` |
| `BeginRestore`, `StageFile`, `ReplaceRoot`, `ClearStage` | `restore_backup` |
| `LoseRoot`, `DamageArchive` | the disk |

| `ContractRegistry`, `VaultEvolution`, `Emission`, `ProductBuild` | Code |
| --- | --- |
| `Read`, `RegisterCandidate`, `ActivateCarry`, `ActivateReset`, `ConfirmBaselineActivation` | the functions of `source_delivery.py` on the state an operator read |
| `EditDeclaration`, `Emit`, `EmissionDies`, `Stage`, `Promote`, `Abort`, `Deliver`, `Build` | edits, `grade` within an emission, `evolution.py`, the rendered statements |
| `Begin`, `WriteTree`, `CheckTree`, `StructuralGate`, `ReadForContracts`, `ReadForDescriptors`, `ReadForGraph`, `Die`, `EditProduct`, `EditFile` | `emit-products`, in the order of its `main` |
| the build actions | dbt's runs of one project: nodes in dependency order, skipped below a failure, with the source moving between runs |

`MCCompiler` asks a pure part one input at a time (`Compose`, `Propagate`, `Plan`,
`Place`, `Evolve`, `Resolve`, `Shape`, `Derive`, `Survive`, `Declare`, `Bind`, `Name`,
`Route`, `Measure`, `Land`, `Identify`), records the answer, and each invariant
compares answers with a definition of its own of what they should be.

Ordered checks of the code that return at the first failure are chains of
`IF ... ELSE IF`, so that at most one answer holds for an input.

### Abstractions

* Digests are the documents they are made of, or model values; payload bytes,
  names, instants and counts are kept only where a property tells them apart.
* In `LandingRuntime`, reads that follow each other are one step where no write of
  another session can make a difference the later compare and swap would not
  catch: the reads before `submit_managed`; the reads of a deployment command; the two
  log reads of `reconcile` and of `last_evaluated_occurrence`. The three queries of
  `submit_managed` and its insert are four transactions and four steps, and the gates of
  heartbeats and of `run_scheduled`, which read two databases, are separate too. A taken projection revision always counts as a
  conflict, and the same intent staged again is also allowed.
* One local process is one session, since DuckDB admits one. Two sessions with
  their own lease owners are the adapters the port contract is written for.
* `Quarantine` has publication only as its outcome; `LandingRuntime` has landing only
  as one that succeeds or fails. They meet in the attempt's state.
* A frame's size, parse result and values stand for it in `StreamingValidation`; a
  field check on one value is an operator per kind of rule.
* A file of `LocalRoot` is a set of facts, its digest its content; a damaged file is
  empty. Ranks give the path order the backup lists in. `LiveWork` refuses a backup while
  any attempt is live; `refuse_live_work` looks at the latest attempt and the outbox only,
  which differs once a delivery was submitted after one that died.
* `StreamingValidation` spills tags in the order they were seen, where the code groups them
  by rule; the sort that follows forgets either order.
* A row is a function from column names to small values and Null, with SQL's
  three-valued answers where a predicate is evaluated. A cast keeps its value.
  Rendered SQL is modelled by the relation it returns.
* The text of an artefact is what it was generated from (`Emission`), a fingerprint the
  sequence of values it was computed over. A build of `VaultEvolution` offers one
  curated row of each key; the macros take every distinct row of the history offered.
* The calendar of `Schedule` is small (sizes are constants), and the last month of its year
  lacks a day, so that an expression can name a day that never comes; one change of offset
  moves the clock forward or back within a day.

## Runs

| Run | Instance | Shows |
| --- | --- | --- |
| `Recovery` | 1 session, 1 claim; file, due, reconcile; 3 revisions, 2 faults, 1 crash; fair | types and the inductive invariant; the target holds a prefix of the log; nothing is confirmed before it is applied; reserved revisions and accepted progress are not lost; every staged intent is settled and reaches the target |
| `Delivery` | 1 session, 2 symmetric claims; file, due; 4 revisions, 3 boundaries, 1 occurrence per call | committed means visible, failed means never staged, catch-up is complete and ordered |
| `Submission` | 2 symmetric sessions, 2 symmetric claims of one delivery; file, due, contract, deployment; 1 intent without a claim, commands up to state revision 10, 1 change of deployment | one claim wins, although each session looks for the other in queries before its insert, fenced attempts stay failed, nothing is staged in a closed epoch, an epoch opens only over published deliveries; the runtime implements `PublicationLog` |
| `Remediation` | 3 deliveries (mixed, empty, undecodable), pages of 2 frames, 2 releases, 1 crash, 1 silent transition | no row is accepted twice; committed deliveries were landed whole and evaluated; a checkpoint is the last of its three writes; only a crash loses an event, and it leaves no gap |
| `Validation` | 2 evaluations, up to 4 frames, memory of 4, 5 or 40 bytes, 42 bytes of scratch, 1 restart | spilling changes no finding; the meter counts what is held; ended evaluations leave no scope; the decision meets the policy |
| `LocalBackup` | 1 delivery, pages of 2, 2 backups, 1 restore, 1 fault, 1 lost root | a restore puts back what the root held at one moment; an undisturbed archive is accepted |
| `Activation` | 2 operators over a table of contracts, ancestry up to 3; 2 products, 2 bindings, 2 passes, 1 death, 1 edit | the active contract reads its ancestry, activations are planned, a current operator holds the registry; exit 0 means current trees, passes prune only orphans |
| `Evolution` | 1 satellite of every small section, values 0 and 1, 2 versions, 2 edits, 2 deliveries | stored rows stay, are readable, and changes of recorded columns reach the version in force |
| `Compiler` | every input of the families in the input modules; 2 runs of one project, atomic and incremental | each part against its reference definition |

One revision can be lost, skipped or repeated only relative to a neighbour, so three
(a delivery between a heartbeat and an occurrence) are enough for ordering;
catch-up needs a first boundary, a confirmed one and a gap of one more than the cap.
Two faults exhaust the retries of an entry; one crash falls between any two steps.
Two pages are the least in which a page can be skipped or repeated; four frames
under four bytes make two sorted runs and a merge; two releases can claim one row;
two backups share a destination; two passes are one that leaves something and
one that must see it; a re-baseline needs one version before and one after. The
two machines of `Activation` share no variable, and each moves while the other
rests, so that their states add up.

Sessions of `Submission` stop at a revision and the remaining instances end when their
bounds are used up: these runs do not check deadlock. `Recovery` and `Delivery` do.

Several properties are conjunctions of named parts, each with a comment of its own: a
run names the conjunction, and the module lists the parts. Some parts state their
exceptions, which the code has: `RequiredIsNeverNull` speaks of fields every source
requires; `RerunChangesNothing` of rows that have a key; `ClustersAreChains`
of chains the declared rounds can reach; `ReadOnce` of reads that both name, or both
leave out, their relation; `StoredIsReadable` and `ChangeIsStored` leave out satellites
once taken out of the declaration or built after an emission that died; `CleanIsCurrent`
leaves out ledgers and the graph of an estate without products; `PlannedIsRendered`
leaves out a validation the table gives to the ingestion runtime.

### Where the code does not do what it says

| Run | Sentence | What happens |
| --- | --- | --- |
| `ReconcileCommits` | `ingestion/runtime.py:992`: an occurrence has no attempt; a publication moves *its* attempt | `reconcile` settles every unconfirmed intent for the *latest* attempt: a heartbeat can turn a failed attempt into a committed one |
| `FrozenBasis` | `shapes/data_vault/evolution.py:4` and `:17`: every stored fingerprint was computed over the recorded basis; an extension leaves it frozen | the ledger keeps the recorded basis, the rendered fingerprint covers the declared one |
| `ErrorCeiling` | `docs/architecture/bronze-ingestion.md:61`: valid rows publish up to the declared error-fraction ceiling | the runtime publishes whenever a row was accepted; only the validation engine, which it does not call, knows the ceiling |

Because of the first, `CommittedIsVisible` is checked without `reconcile`, and so is
`OccurrencesInOrder`: a `reconcile` that stops between applying and settling a
dead-lettered occurrence makes the next call project it again. Other places where a
comment promises more than the code keeps are noted with the hazards: a lease that is
passed over, the first page of the log, an attempt interrupted before its intent.

### Fairness

`FairSpec` (in `Recovery`) assumes that a session's own steps go on (a crash is
always possible instead, bounded by `MaxCrashes`), that a lease expires in the end, and
that the orchestrator calls `ingest due` and `reconcile` again and again: strong
fairness, since other commands may keep the session busy at any given moment. This is
what `docs/architecture/bronze-ingestion.md` (Orchestration) asks of it. No fairness is
assumed of deliveries or operators. The liveness properties hold because faults are
finite; a target that is down forever settles every entry as a dead letter.

## Proofs

`PROJECT.json` lists the theorems; each module's lemmas lead to them. The assumptions
are those of the modules (`NoneIsNoValue`, `Parameters`, `RegistryParameters`,
`EmissionParameters`, `TablesAssumption`, `RepositoryAssumption`,
`QuarantineParameters`, `LocalRootParameters`, `ValidationParameters`,
`ValidationInputs`, the three of `VaultEvolution`: absent values are not members,
limits and pages are numbers, every session has an owner, a payload is a sequence of
frames or undecodable, a parsed frame has a value of one ordered kind, or none, in
each field of a unique key) and the hypotheses named below. No theorem fixes the number of
sessions, claims, contracts, operators, products or steps, except where it says so.

`LandingRuntimeProofs`, for any sessions and commands:

* `InvariantHolds`: `Spec => []InductiveInvariant`;
* `TypeCorrect`, `TargetIsPrefix`, `SettlementFollowsTarget`: the types,
  `TargetFollowsLog` and `ConfirmedIsApplied`;
* `ClaimIsPublishedOnce`: a claim is staged at most once;
* `ImplementsPublicationLog`: the runtime implements `PublicationLog`.

`TargetFollowsLog` and `ConfirmedIsApplied` are not inductive: a session applies,
confirms and stages what it *remembers*. `Consistent(pc, mem)` says what a memory
is good for, whatever others did since: an intent in hand past staging is in the log
at its revision; after application it is applied; a held required revision never
exceeds the log. For single publication, one must exclude that two sessions carry
one claim to a staged intent. `Owns(s)` is a session before its staging whose compare
and swap can still succeed; at most one session owns (every transition of an attempt
moves the revision, so another holder of it becomes stale), and an owner's claim is
not yet staged. Staging an intent for a heartbeat does *not* move the revision, which
is why ownership is tied to the revision and conflicts are left to the log's key.
The proof has one lemma per kind of step (a refusal, a read, an attempt
transition, a staging, the application, the settlement, a lifecycle
transition), a lemma that combines what the actor and the other sessions keep
(`StepPreserves`), and the refinement follows from the same case analysis.

`LandingAttemptProofs`, for any sessions:

* `DeliveryIsClaimedOnce`: `OneClaimPerDelivery`. What `submit_managed` read is not
  checked again when it inserts. But every insertion moves the state revision, so a
  session whose compare and swap succeeds is current, and `Consistent` says of a current
  session that what it has read so far still holds: its claim is new, and past its second
  query no other claim of the delivery is accepted (`InsertedIsNew`).
* `DeliveryIsStagedInEpoch`: `StagedInEpoch`, from `EpochInvariant`: a session whose
  revision is current holds the epoch in force, because the epoch moves only with the
  revision, and an intent it has built carries the epoch of the state it holds.
* `CommittedAttemptsAreVisible`, `FailedAttemptsAreInvisible`,
  `TerminalAttemptsAreFinal`, `EpochsOpenQuietly`, where no session reconciles, from
  `AttemptInvariant`. It ties the attempt of a staged claim to its intent
  (`AttemptsAgree`) and each current session to the attempt in hand (`InHand`):
  until staging the attempt is where the session left it; a session dispatches
  for the claim of the intent in hand; at settlement the attempt is committed, at
  give-back blocked, and a target that refuses has not committed it. `reconcile`
  breaks the second of these, since it dispatches for the latest attempt: the
  finding `ReconcileCommits` is the counterexample without the hypothesis.

The same module, for one session, which is the local platform:

* `RevisionsAreReserved` (`RequiredIsLastStaged`) and `ProgressFollowsDeliveries`
  (`ProgressIsLastDelivery`), from `StreamInvariant`: from its read to its last write
  the session holds the row as it is. Two sessions break both: one reads the row
  for a submission, another stages a heartbeat, which leaves the state revision,
  and the first writes the old required revision back.

And for one session, no `reconcile`, and a log no longer than the page of
`last_evaluated_occurrence`:

* `OccurrencesAreInOrder` (`OccurrencesInOrder`), from `ScheduleInvariant`. The
  boundaries a call has read continue the log only if every earlier occurrence is
  confirmed, which nothing in memory says. The two gates together do: an entry the
  outbox gate does not count is complete or a dead letter, a dead letter was never
  applied (`DeadIsUnapplied`, kept because only a refused intent is given back), and
  the cursor gate waits until the target has applied every revision. TLC gives a
  counterexample without any one of the three hypotheses.

`ContractRegistryProofs`, for any contracts and operators:

* `RegistryIsConsistent` (`RegistryInvariant`) and `ActivationFollowsPlan`
  (`ActivationIsPlanned`), from `RegistryInductive`. `Serves` is not transitive (a
  column that exists may have changed its nullability since), so the invariant
  carries `Extends`, which every carried change satisfies and which composes along
  the closure. A staged baseline stays planned because its contract stays the
  candidate, which nobody may replace and whose plan is a reset.

`EmissionProofs`, for any products, texts, bindings, refusals and budgets:

* `CleanTreesAreCurrent` (`TreesAreCurrent`) and `TreesAreRespected`
  (`PassesRespectTrees`), from `EmissionInductive`: an undisturbed pass read the
  estate as it is, every tree behind its stage matches it (`Through`), and behind the
  gate no model breaks a budget. Writing or checking one tree keeps the others
  matching because two writers that share a directory generate different kinds of file.

`QuarantineProofs`, for any deliveries, payloads, page and chunk sizes, and any number
of crashes and releases: the four properties of `Remediation`.

* `RowsAreAcceptedOnce` (`RowAcceptedOnce`) and `CheckpointsAreMaterialized`
  (`CheckpointIsMaterialized`). Rows are only ever appended, so an old row must be
  known by where it came from: `RowsHaveSource` names for each the closed session and
  the frame, an accepted one under the partition of the delivery and a rejected one
  under the partition of its own release. A release keeps to that because a decision is
  only ever about a rejected frame of a closed session (`DecisionsAreAboutRejected`),
  and a closed session's dispositions never change (`ClosedStays`). The claims on
  locators are not needed: the partition, looked up by the release, is what makes a
  repeat harmless.
* `QuarantineIsInvariant` (`QuarantineInvariant`): that a delivery was landed whole
  rests on `SessionsFollowPayload` (the dispositions are those of the frames before the
  session's cursor) and on what each port call finds of the call before
  (`ProcessFollowsTables`: the last page ends at the end of the payload,
  `PageIsDisposed`). An evaluation stays in the page a query of its disposition reads,
  since none of the disposition is earlier than the earliest (`EvaluationIsFound`).
* `EventsAreLostOnlyByCrash` (`EventsLostOnlyByCrash`): the property is not inductive,
  since it does not say that the envelope at hand is among the missing; `LossIsBounded`
  counts the others. The ordinals are the places of the log, so that the sink never
  refuses the wrapper's number (`EmissionStores`).

`VaultProofs`, for any satellites, declarations and values:

* `LedgerDescribesTheStore` (`VaultInvariant`), `HistoryIsNeverRewritten`
  (`StoredHistoryIsKept`) and `ChangeReachesTheVersionInForce` (`ChangeIsStored`), from
  `VaultInductive`. A stored row is described by its record because the *statement* a
  build would run already is (`EmittedIsDescribed`), unless the emission died before
  its ledger; grading, staging and promoting keep every description (`GradeDescribes`,
  `PendingDescribes`, `PromotedDescribes`). No stored row is of a later version than
  the statement, so what a build stores, or finds equal, is in force; equal
  fingerprints over one basis are equal values (`FingerprintsAgree`).
* `RemainingColumns`: what the recursive filter behind a basis computes, for every
  payload. It is proved by a least counterexample: `LeastNatural` draws the
  least-number principle from the library's `WFMin`, which takes a set and not an
  operator, and `KeptExists` shows the recursive function exists.

`LocalRootProofs`, for any deliveries, page size, and any number of backups, restores,
deaths, damages and lost roots:

* `RestoreIsOneMoment` (`RestoredIsOneMoment`) and `LocalRootHolds`
  (`LocalRootInvariant`), from `LocalRootInductive`. While a root lives, the content of a
  file never comes back once it has changed (`PassedStays`): DuckDB's file and log only
  take rows in, the state only moves a delivery from live to accepted, everything else
  is written once. A copy that equals its digest was therefore the content all the way
  from hash to copy. Files are hashed and copied in one order, so after k copies all
  these intervals contain the moment at which the k-th file was hashed (`MomentsWell`);
  the earlier copies an archive holds are of the same life, or damaged (`CopiesWell`).
* That an undisturbed archive is accepted rests on the page chain: `DigestsExist` and
  `LoadedPages` show that a chain which ends in the digest of the manifest is the
  chain that was written, `EntriesAreRead` that reading it page by page gives the
  entries back, for every number of entries and every page size.

`RestoredIsOneMoment` speaks of archives whose backup copied all its files, or of the
first two roots of a destination. Beyond that the promise of
`docs/specifications/landing-product-v1.md:424` (a point-in-time, verified copy) has an
exception that takes 55 steps: a backup copies a mixture amid an ingestion and its root
is lost; a second root is ingested the same way, and its backup hashes the very digests,
writes its manifest over the first and dies before it copies anything; when the
second root is lost too, every object verifies against the new manifest, and the restore
puts back the old mixture, which no root ever held. The history variable `archived`
(the entries of the manifest and how many of them its backup copied) is there to say so.

`StreamingValidationProofs`, for any rules, frames, policies, budgets, page and
scratch ceilings, sizes, and any number of evaluations and crashes:

* `SpillingIsTransparent` (`SpillIsTransparent`) and `ValidationHolds`
  (`ValidationInvariant`), from `ValidationInductive`. The argument follows one set, the
  tags of the frames seen so far (`TagsOf`). Scratch and memory list it between them
  without repetition (`ListsTags`), and list the units in order (`ListsUnits`), through
  every spill. Reading the closed scope page by page gives it back (`ReadAllIsRows`), cutting
  and sorting give ascending runs that split it (`SortedRunsCut`), a merge replaces two
  runs by one and keeps the split (`MergeAscends`, `MergeRunsHolds`), so the last run
  lists the whole set in order. There equal keys stand together, which makes the
  groups the scan sees exactly the duplicates (`ScanIsDuplicated`). The meter is followed
  along: it counts what memory lists and the frame in hand (`Holding`).
* `ValidationsEndClean` (`EndsWithoutScopes`): every scope on disk is one the validation
  found or one its `finally` clauses know (`Well`), whatever call raised; a crash alone
  leaves the others.
* What a recursive function of the model returns (a size, a page read, a cut, a merge,
  a scan) is proved like `RemainingColumns`: `LoopExists` shows by a least counterexample
  that the function exists, and a second least counterexample follows it row by row.

Every inductive invariant was first model-checked as an invariant of the instance of
the run that checks the property: `EpochInvariant` and `AttemptInvariant` on
`Submission`, `Delivery` and `Recovery` without `reconcile`, `StreamInvariant` on
`Recovery`, `ScheduleInvariant` on `Delivery`, `QuarantineInductive` on `Remediation`,
`VaultInductive` on `Evolution`, `LocalRootInductive` on `LocalBackup`, `ValidationInductive`
on `Validation` (over finite sets of tags, without the types of its records), the other
two on `Activation`.

Only model-checked: the liveness properties (fairness and `ENABLED` are beyond the
prover) and the properties of `MCCompiler`. The reference definitions of the compiler's
parts are folds and recursive functions over data: each would need an existence proof and
an induction like those of `RemainingColumns`.

## Plan

Candidates for proof: the parts of the compiler whose answers are sets rather than folds
(`SourceComposition`, `RelationRegistry`), by the means of `StreamingValidationProofs`.

## Not modelled

* `reprocess_whole_delivery`, `rebuild_read_models`, `bind_release_visibility`,
  `cleanup_orphans`: no command calls them. Snapshot baselines and tombstone keysets of
  the store: no command of the local profile writes them.
* The statements that store the hubs and links of a data vault.
* A lost landing store, endpoint layout and settings: file handling.
* `publication.py`: comparisons of digests of one request with its stored records.
* Codecs and attestations: byte formats and cryptography.
* SQL, YAML and manifest text, the semantic layer, the parse gate, JSON-schema shapes of
  declarations and the parsing of cron text and SQL expressions: an expression is
  what it reads and answers. `reconcile_tests` generates a test only.
* Importers, scaffold, lints, and the port conformance suite: one-shot conversions,
  copies, patterns over text, and a test harness.
