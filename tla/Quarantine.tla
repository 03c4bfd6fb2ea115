----------------------------- MODULE Quarantine -----------------------------
(***************************************************************************)
(* Landing a delivery, the quarantine of its rejected rows and their        *)
(* release (ergasterion/ingestion/runtime.py, the quarantine command of     *)
(* ergasterion/ingestion/commands.py), over the landing tables, the          *)
(* remediation repository and the lifecycle log.                            *)
(*                                                                         *)
(* One process runs one command at a time and may die between any two port  *)
(* calls.  Publication is only its outcome here: LandingRuntime has the      *)
(* outbox and the target.                                                   *)
(***************************************************************************)
EXTENDS LandingTables, RemediationRepository, LifecycleSink

CONSTANTS
    PartialPermitted,  \* publication_mode is publish_valid_rows
    MaxErrorPercent,   \* max_error_fraction of the quality policy, in hundredths
    ReadChunk,         \* max_read_chunk of the raw store
    MaxClock,          \* bound: instants at which decisions are taken
    MaxReleases,       \* bound: release commands
    MaxCrashes,        \* bound: processes that die
    MaxSilent          \* bound: transitions that emit no envelope

ASSUME QuarantineParameters ==
    /\ PartialPermitted \in BOOLEAN
    /\ MaxErrorPercent \in 0..99
    /\ ReadChunk \in Nat \ {0}
    /\ {MaxClock, MaxReleases, MaxCrashes, MaxSilent} \subseteq Nat
    /\ "locator" \notin Attempts   \* no disposition has the id of a position
    /\ NoIdentity \notin Attempts \X Nat

VARIABLES
    revision,     \* state_revision of the stream
    attempt,      \* state of each attempt
    checkpoint,   \* remediation_commit_checkpoint of each attempt, or NoIdentity
    pc,           \* the next port call of the process
    work,         \* what the process holds in memory
    clock,        \* clock.now()
    releases,     \* release commands so far
    crashes,      \* processes that died so far
    silent,       \* transitions without an envelope so far
    owed          \* history: the events whose emission began

storeVars == <<revision, attempt, checkpoint>>
boundVars == <<clock, releases, crashes, silent>>
vars == <<tableVars, repositoryVars, events, storeVars, pc, work, boundVars, owed>>

NoWork == [attempt |-> NoIdentity, cursor |-> 0, event |-> NoIdentity,
           then |-> "idle", left |-> {}, decision |-> NoIdentity]

\* The dispositions of the landing tables, by id.
Known == UNION {{<<a, n>> : n \in DOMAIN dispositions[a]} : a \in DOMAIN dispositions}

Rejected(a) == {n \in DOMAIN dispositions[a] : dispositions[a][n] = "rejected"}

\* The publication decision of _land_and_validate.
PublicationDecision(a) ==
    IF DOMAIN dispositions[a] # {} /\ Rejected(a) = {} THEN "publish_all"
    ELSE IF Rejected(a) # DOMAIN dispositions[a] /\ PartialPermitted
         THEN "publish_valid_rows"
    ELSE "reject_delivery"

-----------------------------------------------------------------------------
(* Transitions and their envelopes *)

Event(a, type, rev) == [attempt |-> a, type |-> type, revision |-> rev]

\* The process is to emit event and to go on at the step then.
Emitting(event, then) ==
    /\ pc' = "emit"
    /\ work' = [work EXCEPT !.event = event, !.then = then]
    /\ owed' = owed \cup {event}

\* _transition: the state transaction, then its envelope in a step of its own.
Transition(a, state, then) ==
    /\ revision' = revision + 1
    /\ attempt' = [attempt EXCEPT ![a] = state]
    /\ Emitting(Event(a, state, revision + 1), then)
    /\ UNCHANGED <<tableVars, repositoryVars, events, checkpoint, boundVars>>

EmitLifecycle ==
    /\ pc = "emit"
    /\ ProjectEvents(work.event)
    /\ pc' = work.then
    /\ work' = [work EXCEPT !.event = NoIdentity, !.then = "idle"]
    /\ UNCHANGED <<tableVars, repositoryVars, storeVars, boundVars, owed>>

Goto(step) == pc' = step /\ UNCHANGED <<storeVars, boundVars, events, owed>>

-----------------------------------------------------------------------------
(* ingest file *)

\* submit_managed of a claim no attempt carries.
Submit(a) ==
    /\ pc = "idle"
    /\ attempt[a] = "absent"
    /\ revision' = revision + 1
    /\ attempt' = [attempt EXCEPT ![a] = "received"]
    /\ pc' = "emit"
    /\ work' = [NoWork EXCEPT !.attempt = a, !.then = "prepare",
                              !.event = Event(a, "received", revision + 1)]
    /\ owed' = owed \cup {Event(a, "received", revision + 1)}
    /\ UNCHANGED <<tableVars, repositoryVars, events, checkpoint, boundVars>>

Prepare ==
    /\ pc = "prepare"
    /\ Transition(work.attempt, "preparing", "begin_prepare")

OpenPreparation ==
    /\ pc = "begin_prepare"
    /\ BeginPrepare(work.attempt)
    /\ work' = [work EXCEPT !.cursor = 0]
    /\ Goto("append_raw")
    /\ UNCHANGED repositoryVars

Min2(x, y) == IF x < y THEN x ELSE y

\* read_raw of the next chunk, and append_raw of it.
ReadRaw ==
    LET a == work.attempt
        length == Min2(ReadChunk, Bytes(a) - work.cursor)
        eof == work.cursor + length >= Bytes(a)
    IN  /\ pc = "append_raw"
        /\ AppendRaw(a, work.cursor, length, eof)
        /\ work' = [work EXCEPT !.cursor = @ + length]
        /\ Goto(IF eof THEN "finish_prepare" ELSE "append_raw")
        /\ UNCHANGED repositoryVars

Prepared ==
    /\ pc = "finish_prepare"
    /\ FinishPrepare(work.attempt)
    /\ Goto("materialize")
    /\ UNCHANGED <<repositoryVars, work>>

\* A payload no codec reads fails the attempt where it stands.
PrepareFails ==
    /\ pc = "finish_prepare"
    /\ ~Decodes(work.attempt)
    /\ Transition(work.attempt, "failed", "idle")

Materialize ==
    /\ pc = "materialize"
    /\ Transition(work.attempt, "materializing", "begin_materialization")

OpenMaterialization ==
    /\ pc = "begin_materialization"
    /\ BeginMaterialization(work.attempt)
    /\ work' = [work EXCEPT !.cursor = 0]
    /\ Goto("dispositions")
    /\ UNCHANGED repositoryVars

\* One page of read_candidate, and its dispositions appended.  cursor is one
\* past the last frame read, so that the cursor before the first is 0.
DispositionsOfPage ==
    LET a == work.attempt
        page == ReadCandidate(a, work.cursor - 1)
    IN  /\ pc = "dispositions"
        /\ IF page = {} THEN UNCHANGED tableVars
           ELSE AppendDispositions(a, page)
        /\ work' = [work EXCEPT !.cursor = IF page = {} THEN @ ELSE Last(page) + 1]
        /\ Goto(IF MoreCandidates(a, work.cursor - 1) THEN "dispositions"
                ELSE "finish_materialization")
        /\ UNCHANGED repositoryVars

Materialized ==
    /\ pc = "finish_materialization"
    /\ FinishMaterialization(work.attempt)
    /\ Goto("validate")
    /\ UNCHANGED <<repositoryVars, work>>

Validate ==
    /\ pc = "validate"
    /\ Transition(work.attempt, "validating", "begin_evaluate")

BeginEvaluate ==
    /\ pc = "begin_evaluate"
    /\ work' = [work EXCEPT !.left = Rejected(work.attempt)]
    /\ Goto("evaluate")
    /\ UNCHANGED <<tableVars, repositoryVars>>

Evaluated(a, n) ==
    [kind |-> "evaluated", evaluation |-> <<a, n>>,
     disposition_ids |-> <<<<a, n>>>>, locators |-> {}, decided_at |-> clock]

\* An "evaluated" decision for each rejected disposition, in frame order.
Evaluate ==
    /\ pc = "evaluate"
    /\ work.left # {}
    /\ RecordDecision(Evaluated(work.attempt, First(work.left)), Known)
    /\ work' = [work EXCEPT !.left = @ \ {First(work.left)}]
    /\ Goto("evaluate")
    /\ UNCHANGED tableVars

\* publish of a delivery that may be published, to its end.
Commit ==
    /\ pc = "evaluate"
    /\ work.left = {}
    /\ PublicationDecision(work.attempt) # "reject_delivery"
    /\ Transition(work.attempt, "committing", "applied")

Committed ==
    /\ pc = "applied"
    /\ Transition(work.attempt, "committed", "receipt")

Reject ==
    /\ pc = "evaluate"
    /\ work.left = {}
    /\ PublicationDecision(work.attempt) = "reject_delivery"
    /\ Transition(work.attempt, "failed", "receipt")

After(type) == CASE type = "receipt" -> "quality" [] type = "quality" -> "lineage"
                 [] type = "lineage" -> "metadata" [] OTHER -> "idle"

\* The envelopes ingest file emits once publish has returned.
EmitEvidence ==
    /\ pc \in {"receipt", "quality", "lineage", "metadata"}
    /\ Emitting(Event(work.attempt, pc, revision), After(pc))
    /\ UNCHANGED <<tableVars, repositoryVars, events, storeVars, boundVars>>

-----------------------------------------------------------------------------
(* quarantine release *)

Terminal(a) == attempt[a] \in {"committed", "failed"}

\* The evaluation the command releases: the one of a decision of the
\* disposition without a release, else of any of its decisions.
EvaluationFor(disposition) ==
    LET found == DecisionQuery(disposition)
        open == {d \in found : d.kind = "evaluated"}
    IN  {d.evaluation : d \in IF open # {} THEN open ELSE found}

\* What quarantine release can name: a disposition with a recorded evaluation.
ReleaseTargets == {d \in Known : EvaluationFor(d) # {}}

\* The decision release_quarantine records.  Its disposition ids are digests
\* of the positions of the locators, not the ids of the dispositions.
Released(evaluation, locator) ==
    [kind |-> "released", evaluation |-> evaluation,
     disposition_ids |-> <<<<"locator", 0>>>>, locators |-> {locator},
     decided_at |-> clock]

\* release_quarantine as the command calls it: the decision is recorded.
ReleaseQuarantine(disposition) ==
    /\ pc = "idle"
    /\ disposition \in ReleaseTargets
    /\ releases < MaxReleases
    /\ RecordDecision(Released(disposition, disposition), Known)
    /\ releases' = releases + 1
    /\ pc' = "materialize_release"
    /\ work' = [NoWork EXCEPT !.attempt = disposition[1],
                              !.decision = Released(disposition, disposition)]
    /\ UNCHANGED <<tableVars, events, storeVars, clock, crashes, silent, owed>>

\* Mutant of ReleaseRows: the checkpoint is written first.
CheckpointFirst ==
    /\ pc = "materialize_release"
    /\ revision' = revision + 1
    /\ checkpoint' = [checkpoint EXCEPT ![work.attempt] = work.decision]
    /\ pc' = "idle"
    /\ work' = NoWork
    /\ UNCHANGED <<tableVars, repositoryVars, events, attempt, boundVars, owed>>

\* materialize_release, the first half of _checkpoint_release.
ReleaseRows ==
    /\ pc = "materialize_release"
    /\ MaterializeRelease(work.decision.evaluation, work.attempt,
                          {l[2] : l \in work.decision.locators})
    /\ Goto("bump")
    /\ UNCHANGED <<repositoryVars, work>>

\* A frame without typed fields cannot be released: the command ends with
\* not_found, and the decision stays.
ReleaseRowsRefused ==
    /\ pc = "materialize_release"
    /\ <<"release", work.decision.evaluation>> \notin Partitions
    /\ ~CanMaterializeRelease(work.attempt, {l[2] : l \in work.decision.locators})
    /\ work' = NoWork
    /\ Goto("idle")
    /\ UNCHANGED <<tableVars, repositoryVars>>

\* The transition to the attempt's own state.
BumpAttempt ==
    /\ pc = "bump"
    /\ Transition(work.attempt, attempt[work.attempt], "checkpoint")

\* The second transaction: the checkpoint.
CheckpointRelease ==
    /\ pc = "checkpoint"
    /\ checkpoint' = [checkpoint EXCEPT ![work.attempt] = work.decision]
    /\ pc' = "idle"
    /\ work' = NoWork
    /\ UNCHANGED <<tableVars, repositoryVars, events, revision, attempt,
                   boundVars, owed>>

-----------------------------------------------------------------------------
(* The environment *)

\* A contract or deployment transition: a revision and no envelope.
SilentTransition ==
    /\ pc = "idle"
    /\ silent < MaxSilent
    /\ silent' = silent + 1
    /\ revision' = revision + 1
    /\ UNCHANGED <<tableVars, repositoryVars, events, attempt, checkpoint, pc,
                   work, clock, releases, crashes, owed>>

Tick ==
    /\ clock < MaxClock
    /\ clock' = clock + 1
    /\ UNCHANGED <<tableVars, repositoryVars, events, storeVars, pc, work,
                   releases, crashes, silent, owed>>

\* The process dies; its next one starts with nothing in memory.
Crash ==
    /\ pc # "idle"
    /\ crashes < MaxCrashes
    /\ crashes' = crashes + 1
    /\ pc' = "idle"
    /\ work' = NoWork
    /\ UNCHANGED <<tableVars, repositoryVars, events, storeVars, clock,
                   releases, silent, owed>>

Init ==
    /\ TablesInit
    /\ RepositoryInit
    /\ SinkInit
    /\ revision = 0
    /\ attempt = [a \in Attempts |-> "absent"]
    /\ checkpoint = [a \in Attempts |-> NoIdentity]
    /\ pc = "idle"
    /\ work = NoWork
    /\ clock = 0
    /\ releases = 0
    /\ crashes = 0
    /\ silent = 0
    /\ owed = {}

Landing ==
    \/ Prepare \/ OpenPreparation \/ ReadRaw \/ Prepared \/ PrepareFails
    \/ Materialize \/ OpenMaterialization \/ DispositionsOfPage \/ Materialized
    \/ Validate \/ BeginEvaluate \/ Evaluate \/ Commit \/ Committed \/ Reject
    \/ EmitEvidence

Releasing == ReleaseRows \/ ReleaseRowsRefused \/ BumpAttempt \/ CheckpointRelease

Next ==
    \/ \E a \in Attempts : Submit(a)
    \/ EmitLifecycle
    \/ Landing
    \/ \E d \in Known : ReleaseQuarantine(d)
    \/ Releasing
    \/ SilentTransition
    \/ Tick
    \/ Crash

Spec == Init /\ [][Next]_vars

-----------------------------------------------------------------------------
(* Properties *)

\* Every table, record and counter has its type, and the process holds an
\* attempt while it lands one.
QuarantineTypeOK ==
    /\ TablesTypeOK
    /\ revision \in Nat
    /\ attempt \in [Attempts -> AttemptTypes \cup {"absent"}]
    /\ \A a \in Attempts :
         checkpoint[a] = NoIdentity \/ checkpoint[a].kind = "released"
    /\ pc # "idle" => work.attempt \in Attempts
    /\ work.left \subseteq Nat

\* No row of a delivery is accepted twice: not by its delivery and a release,
\* and not by two releases, whatever is repeated after a crash.
RowAcceptedOnce ==
    \A i, j \in 1..Len(accepted) :
      (/\ accepted[i].attempt = accepted[j].attempt
       /\ accepted[i].frame = accepted[j].frame) => i = j

\* A delivery that reached validation was landed whole: every frame of its
\* payload has one disposition, across the pages it was read in, and exactly
\* the frames without a finding are in its partition.
LandedWhole ==
    \A a \in Attempts :
      attempt[a] \in {"validating", "committing", "committed"} =>
        /\ candidates[a] = Payload[a]
        /\ DOMAIN dispositions[a] = 0..(Len(Payload[a]) - 1)
        /\ \A n \in DOMAIN dispositions[a] :
             (Payload[a][n + 1] = "ok") <=>
               \E i \in 1..Len(accepted) :
                 accepted[i] = [partition |-> <<"delivery", a>>, attempt |-> a,
                                frame |-> n]

\* A committed delivery left none of its rejected rows without the recorded
\* evaluation a release starts from.
CommittedIsEvaluated ==
    \A a \in Attempts :
      attempt[a] \in {"committing", "committed"} =>
        \A n \in Rejected(a) : EvaluationFor(<<a, n>>) # {}

\* A checkpoint names a decision the repository has and a release whose rows
\* are in the landing tables: it is the last of the three writes.
CheckpointIsMaterialized ==
    \A a \in Attempts :
      checkpoint[a] # NoIdentity =>
        /\ \E p \in decisions : p.decision = checkpoint[a]
        /\ <<"release", checkpoint[a].evaluation>> \in Partitions

\* A transition whose envelope is not in the log lost it with a process: the
\* revisions that emit none cost no later envelope its place.
EventsLostOnlyByCrash ==
    Cardinality({e \in owed : ~Stored(e)})
      <= crashes + IF pc = "emit" THEN 1 ELSE 0

\* A committed delivery kept within the declared error-fraction ceiling: the
\* share of its rows that were rejected is at most max_error_fraction.
ErrorCeiling ==
    \A a \in Attempts :
      attempt[a] = "committed" =>
        100 * Cardinality(Rejected(a))
          <= MaxErrorPercent * Cardinality(DOMAIN dispositions[a])

\* A delivery reaches its end by the whole of the work and on the record: every
\* frame landed, every rejected row evaluated, every transition emitted at the
\* next place of the log (runtime.py: _prepare, _materialize, _commit).
QuarantineInvariant ==
    /\ QuarantineTypeOK
    /\ LandedWhole
    /\ CommittedIsEvaluated
    /\ LogIsGapFree
=============================================================================
