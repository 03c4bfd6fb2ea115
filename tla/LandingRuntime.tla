---------------------------- MODULE LandingRuntime ----------------------------
(***************************************************************************)
(* The landing ingestion runtime of one logical stream                     *)
(* (ergasterion/ingestion/runtime.py) driven by the operator commands of    *)
(* ergasterion/ingestion/commands.py, over the delivery state store and the *)
(* projection target.                                                       *)
(*                                                                         *)
(* A session runs one command at a time.  Each of its steps is one port     *)
(* transaction (or one read of a port), and the session may stop between    *)
(* any two of them: the process dies, or an exception leaves the command.   *)
(* What survives is the store and the target, two databases that are never  *)
(* written in one transaction.                                              *)
(*                                                                         *)
(* One session is the local platform (the DuckDB file admits one process);  *)
(* several are runtimes over adapters that admit concurrent processes.      *)
(***************************************************************************)
EXTENDS DeliveryStateStore, ProjectionTarget

CONSTANTS
    Sessions,            \* the processes that run commands
    LeaseOwner,          \* the lease owner of each session
    Commands,            \* the commands operators use
    Deployed,            \* the contract the stream is provisioned for, or None
    MaxAttempts,         \* delivery.retry.max_attempts
    LeaseItemLimit,      \* LEASE_ITEM_LIMIT, the page of last_evaluated_occurrence
    MaxDueTransitions,   \* scheduler.max_due_transitions_per_call
    MaxIntents,          \* bound: revisions staged
    MaxStateRevision,    \* bound: state revision at which commands stop
    MaxDeployments,      \* bound: deployment revision at which deployments stop
    MaxBoundary,         \* bound: scheduled boundaries that pass
    MaxFaults,           \* bound: refusals by an unreachable target
    MaxCrashes           \* bound: sessions that stop before their end

AllCommands ==
    {"ingest_file", "ingest_due", "reconcile", "contract", "deployment"}

ASSUME Parameters ==
    /\ LeaseOwner \in [Sessions -> Owners]
    /\ Commands \subseteq AllCommands
    /\ Deployed \in Contracts \cup {None}
    /\ MaxAttempts \in Nat \ {0}
    /\ LeaseItemLimit \in Nat
    /\ MaxDueTransitions \in Nat
    /\ {MaxIntents, MaxStateRevision, MaxDeployments, MaxBoundary, MaxFaults, MaxCrashes}
         \subseteq Nat

VARIABLES
    pc,         \* the next step of each session
    mem,        \* what each session holds in memory
    boundary,   \* the last scheduled boundary at or before now
    faults,     \* refusals by an unreachable target so far
    crashes     \* sessions that stopped early so far

sessionVars == <<pc, mem>>
envVars == <<boundary, faults, crashes>>
vars == <<storeVars, applied, sessionVars, envVars>>

-----------------------------------------------------------------------------
(* Session memory *)

Steps ==
    {"idle", "submit", "conflict", "predecessor", "insert", "received", "preparing", "materializing", "validating",
     "stage", "apply", "applied", "settle", "refused", "fail", "lease",
     "resume", "heartbeat", "heartbeat_gate", "stage_heartbeat", "status",
     "since", "schedule", "schedule_gate", "stage_occurrence", "log", "replay",
     "register", "activate", "deploy_register", "deploy_activate"}

\* Where a command continues once the intent in hand is settled.
Continuations == {"done", "heartbeat", "since", "schedule", "log", "replay"}

EmptyStream ==
    [state_revision |-> 0, required_projection_revision |-> 0,
     accepted_progress |-> None, active_contract |-> None,
     visibility_epoch |-> 0]

Memory ==
    [claim : Claims \cup {None},       \* the Attempt in hand
     contract : Contracts \cup {None}, \* the compiled contract
     stream : StreamState,             \* the StreamState in hand
     intent : Intent \cup {None},      \* the ProjectionIntent in hand
     dispatch : Nat,                   \* its dispatch_ordinal
     then : Continuations,
     due : Seq(Nat),                   \* boundaries still to project
     required : Nat,                   \* the revision its cursor gate compares
     log : SUBSET Nat,                 \* revisions still to reconcile
     migration : Migration,
     cursor : Nat,                     \* the target cursor in hand
     deployment_revision : Nat]

NoMemory ==
    [claim |-> None, contract |-> None, stream |-> EmptyStream,
     intent |-> None, dispatch |-> 0, then |-> "done", due |-> <<>>,
     required |-> 0, log |-> {}, migration |-> "none", cursor |-> 0,
     deployment_revision |-> 0]

\* The command ends: session_close, or an exception that leaves it.
Close(s) ==
    /\ pc' = [pc EXCEPT ![s] = "idle"]
    /\ mem' = [mem EXCEPT ![s] = NoMemory]

Goto(s, step) == pc' = [pc EXCEPT ![s] = step]

\* A session is free to run the command.
Open(s, command) ==
    /\ pc[s] = "idle"
    /\ command \in Commands
    /\ stream.state_revision < MaxStateRevision

Bumped(state) == [state EXCEPT !.state_revision = @ + 1]

Held(s) == mem[s].stream
Expected(s) == mem[s].stream.state_revision

\* Mutant of BuildIntent: the epoch the stream began with.
BuildInFirstEpoch(s, kind, claim, at) ==
    [projection_revision |-> Held(s).required_projection_revision + 1,
     kind |-> kind, claim |-> claim, visibility_epoch |-> 0,
     scheduled_boundary |-> at, contract |-> mem[s].contract]

\* _build_intent: the revision after the one the held state requires.  Only a
\* delivery has a visibility, in the epoch of the state its session submits
\* it with, and only an occurrence has a scheduled boundary.
BuildIntent(s, kind, claim, at) ==
    [projection_revision |-> Held(s).required_projection_revision + 1,
     kind |-> kind, claim |-> claim,
     visibility_epoch |-> IF claim = None THEN 0 ELSE Held(s).visibility_epoch,
     scheduled_boundary |-> at, contract |-> mem[s].contract]

Reserve(state, intent) ==
    [state EXCEPT !.required_projection_revision = intent.projection_revision]

-----------------------------------------------------------------------------
(* ingest file *)

\* _cmd_ingest_file up to submit_managed.  A claim that already has an attempt
\* is answered with it and nothing is written, so only a new claim, admitted
\* under the active deployment, goes on.
IngestFile(s, c, k) ==
    /\ Open(s, "ingest_file")
    /\ deployment.active_manifest = k
    /\ attempt[c] = "absent"
    /\ Goto(s, "submit")
    /\ mem' = [mem EXCEPT ![s] =
                 [NoMemory EXCEPT !.claim = c, !.contract = k, !.stream = stream]]
    /\ UNCHANGED <<storeVars, applied, envVars>>

\* _conflicting_delivery: another claim over the same delivery.
Conflicts(c) ==
    \E d \in Claims \ {c} : attempt[d] # "absent" /\ Delivery[d] = Delivery[c]

\* _blocking_predecessor.
BlockedBefore(c) == \E d \in Claims \ {c} : attempt[d] = "commit_blocked"

\* submit_managed queries the attempts three times, each in a transaction of
\* its own, and goes on while it finds none of the claim, none of another
\* claim over the delivery, and none that is blocked.  Nothing keeps what it
\* found true until it inserts.
SubmitAdmitted(s) ==
    /\ \/ pc[s] = "submit" /\ attempt[mem[s].claim] = "absent" /\ Goto(s, "conflict")
       \/ pc[s] = "conflict" /\ ~Conflicts(mem[s].claim) /\ Goto(s, "predecessor")
       \/ pc[s] = "predecessor" /\ ~BlockedBefore(mem[s].claim) /\ Goto(s, "insert")
    /\ UNCHANGED <<storeVars, applied, mem, envVars>>

\* submit_managed inserts the attempt: no check of the claim is repeated, only
\* the state revision its caller read is compared.
SubmitManaged(s) ==
    /\ pc[s] = "insert"
    /\ InsertAttempt(Bumped(Held(s)), Expected(s), mem[s].claim)
    /\ Goto(s, "received")
    /\ mem' = [mem EXCEPT ![s].stream = Bumped(@)]
    /\ UNCHANGED <<applied, envVars>>

\* submit_managed finds the attempt another session has inserted meanwhile
\* and the command goes on with it and with the state it read before.
SubmitReplay(s) ==
    /\ pc[s] = "submit"
    /\ attempt[mem[s].claim] # "absent"
    /\ Goto(s, "received")
    /\ UNCHANGED <<storeVars, applied, mem, envVars>>

\* submit_managed raises claim_conflict or inflight_attempt.
SubmitRefused(s) ==
    /\ \/ pc[s] = "conflict" /\ Conflicts(mem[s].claim)
       \/ pc[s] = "predecessor" /\ BlockedBefore(mem[s].claim)
    /\ Close(s)
    /\ UNCHANGED <<storeVars, applied, envVars>>

\* _transition: one state_transaction that moves the attempt in hand.
Transition(s, from, state, to) ==
    /\ pc[s] = from
    /\ SaveAttempt(Bumped(Held(s)), Expected(s), mem[s].claim, state)
    /\ Goto(s, to)
    /\ mem' = [mem EXCEPT ![s].stream = Bumped(@)]
    /\ UNCHANGED <<applied, envVars>>

\* land_and_validate.
Prepare(s) == Transition(s, "received", "preparing", "preparing")
Materialize(s) == Transition(s, "preparing", "materializing", "materializing")
Validate(s) == Transition(s, "materializing", "validating", "validating")

\* Mutant of FailAttempt: a target that refuses fails the attempt.
FailRefused(s) ==
    /\ pc[s] \in {"preparing", "materializing", "validating", "refused"}
    /\ SaveAttempt(Bumped(Held(s)), Expected(s), mem[s].claim, "failed")
    /\ Close(s)
    /\ UNCHANGED <<applied, envVars>>

\* fail_attempt: a port fails during landing, validation rejects the
\* delivery, or the published schema is not ready.
FailAttempt(s) ==
    /\ pc[s] \in {"preparing", "materializing", "validating"}
    /\ SaveAttempt(Bumped(Held(s)), Expected(s), mem[s].claim, "failed")
    /\ Close(s)
    /\ UNCHANGED <<applied, envVars>>

\* Mutant of BeginCommit: progress is accepted before the intent is staged.
AcceptEarly(s) ==
    LET next == [Bumped(Held(s)) EXCEPT !.accepted_progress = mem[s].claim] IN
    /\ pc[s] = "validating"
    /\ SaveAttempt(next, Expected(s), mem[s].claim, "committing")
    /\ Goto(s, "stage")
    /\ mem' = [mem EXCEPT
                 ![s].stream = next,
                 ![s].intent = BuildIntent(s, "delivery_publication", mem[s].claim, 0)]
    /\ UNCHANGED <<applied, envVars>>

\* publish: build the intent, then move the attempt to COMMITTING.
BeginCommit(s) ==
    /\ pc[s] = "validating"
    /\ SaveAttempt(Bumped(Held(s)), Expected(s), mem[s].claim, "committing")
    /\ Goto(s, "stage")
    /\ mem' = [mem EXCEPT
                 ![s].stream = Bumped(@),
                 ![s].intent = BuildIntent(s, "delivery_publication", mem[s].claim, 0)]
    /\ UNCHANGED <<applied, envVars>>

\* publish: phase one, the intent and the accepted progress in one
\* transaction that leaves the state revision where it is.
StagePublication(s) ==
    LET staged == [Reserve(Held(s), mem[s].intent) EXCEPT
                     !.active_contract = mem[s].contract,
                     !.accepted_progress = mem[s].claim]
    IN
    /\ pc[s] = "stage"
    /\ StageIntent(staged, Expected(s), mem[s].claim, "committing", mem[s].intent)
    /\ Goto(s, "apply")
    /\ mem' = [mem EXCEPT ![s].stream = staged, ![s].dispatch = 1]
    /\ UNCHANGED <<applied, envVars>>

-----------------------------------------------------------------------------
(* _apply_outbox_intent, shared by every command *)

\* The target applies the intent in hand, or answers from its confirmation.
ApplyIntent(s) ==
    /\ pc[s] = "apply"
    /\ ApplyGapOrdered(mem[s].intent)
    /\ Goto(s, IF mem[s].claim = None THEN "settle" ELSE "applied")
    /\ UNCHANGED <<storeVars, mem, envVars>>

\* Mutant of ApplyOutOfOrder: a conflict is taken for a replay.
SettleOutOfOrder(s) ==
    /\ pc[s] = "apply"
    /\ ~Accepts(mem[s].intent)
    /\ Goto(s, IF mem[s].claim = None THEN "settle" ELSE "applied")
    /\ UNCHANGED <<storeVars, applied, mem, envVars>>

\* The target refuses it: a gap or a stale revision.
ApplyOutOfOrder(s) ==
    /\ pc[s] = "apply"
    /\ ~Accepts(mem[s].intent)
    /\ Goto(s, IF mem[s].claim = None THEN "fail" ELSE "refused")
    /\ UNCHANGED <<storeVars, applied, mem, envVars>>

\* Mutant of TargetUnavailable: the error is swallowed.
SwallowFault(s) ==
    /\ pc[s] = "apply"
    /\ faults < MaxFaults
    /\ ~AlreadyApplied(mem[s].intent)
    /\ faults' = faults + 1
    /\ Goto(s, IF mem[s].claim = None THEN "fail" ELSE "applied")
    /\ UNCHANGED <<storeVars, applied, mem, boundary, crashes>>

\* The target cannot be reached.  An intent that it has applied is answered
\* from the stored confirmation before a fault is met.  (A lost landing store,
\* which refuses everything until it is restored, is not modelled.)
TargetUnavailable(s) ==
    /\ pc[s] = "apply"
    /\ faults < MaxFaults
    /\ ~AlreadyApplied(mem[s].intent)
    /\ faults' = faults + 1
    /\ Goto(s, IF mem[s].claim = None THEN "fail" ELSE "refused")
    /\ UNCHANGED <<storeVars, applied, mem, boundary, crashes>>

CommitAttempt(s) == Transition(s, "applied", "committed", "settle")

BlockAttempt(s) == Transition(s, "refused", "commit_blocked", "fail")

\* After the intent in hand is settled or given back: run_scheduled stops at
\* the first occurrence that is not confirmed, every other loop goes on.
Continue(s, confirmed) ==
    LET next == mem[s].then IN
    IF next = "done" \/ (next = "schedule" /\ ~confirmed)
    THEN Close(s)
    ELSE /\ Goto(s, IF next = "heartbeat" THEN next ELSE "status")
         /\ UNCHANGED mem

\* The settlement: complete the outbox entry and record the confirmation.
Settle(s) ==
    /\ pc[s] = "settle"
    /\ CompleteOutbox(Held(s), Expected(s), mem[s].claim, "committed",
                      mem[s].intent.projection_revision, LeaseOwner[s])
    /\ Continue(s, TRUE)
    /\ UNCHANGED <<applied, envVars>>

\* The failure: retryable, or a dead letter at the last dispatch.
GiveBack(s) ==
    LET status == IF mem[s].dispatch >= MaxAttempts THEN "dead_letter"
                                                    ELSE "retryable"
    IN
    /\ pc[s] = "fail"
    /\ FailOutbox(Held(s), Expected(s), mem[s].claim, "commit_blocked",
                  mem[s].intent.projection_revision, LeaseOwner[s], status)
    /\ Continue(s, FALSE)
    /\ UNCHANGED <<applied, envVars>>

-----------------------------------------------------------------------------
(* run_due: lease the lowest due entry and replay its intent *)

\* _cmd_ingest_due and _cmd_reconcile begin with run_due.
IngestDue(s, k) ==
    /\ Open(s, "ingest_due")
    /\ Goto(s, "lease")
    /\ mem' = [mem EXCEPT ![s] =
                 [NoMemory EXCEPT !.contract = k, !.then = "heartbeat"]]
    /\ UNCHANGED <<storeVars, applied, envVars>>

Reconcile(s, k) ==
    /\ Open(s, "reconcile")
    /\ Goto(s, "lease")
    /\ mem' = [mem EXCEPT ![s] =
                 [NoMemory EXCEPT !.contract = k, !.then = "log"]]
    /\ UNCHANGED <<storeVars, applied, envVars>>

Lease(s) ==
    /\ pc[s] = "lease"
    /\ \E r \in Leasable :
         /\ LeaseOutbox(r, LeaseOwner[s])
         /\ mem' = [mem EXCEPT ![s].intent = intents[r],
                               ![s].dispatch = outbox[r].dispatch_ordinal]
    /\ Goto(s, "resume")
    /\ UNCHANGED <<applied, envVars>>

NothingDue(s) ==
    /\ pc[s] = "lease"
    /\ Leasable = {}
    /\ Goto(s, IF mem[s].then = "heartbeat" THEN "heartbeat" ELSE "status")
    /\ UNCHANGED <<storeVars, applied, mem, envVars>>

\* _attempt_for_intent and the status read before the replay.
Resume(s) ==
    /\ pc[s] = "resume"
    /\ Goto(s, "apply")
    /\ mem' = [mem EXCEPT ![s].claim = mem[s].intent.claim, ![s].stream = stream]
    /\ UNCHANGED <<storeVars, applied, envVars>>

-----------------------------------------------------------------------------
(* Heartbeats and scheduled occurrences *)

\* Bound on the revisions staged without a claim.
Room == Len(intents) < MaxIntents

\* _stage_heartbeat: the status, and the gate on the outbox.  A closed gate
\* skips the heartbeat and goes on to the schedule.
Heartbeat(s) ==
    /\ pc[s] = "heartbeat"
    /\ IF ~HasIncompleteOutbox /\ Room
       THEN /\ Goto(s, "heartbeat_gate")
            /\ mem' = [mem EXCEPT ![s].stream = stream, ![s].claim = None]
       ELSE /\ Goto(s, "status")
            /\ mem' = [mem EXCEPT ![s].then = "since"]
    /\ UNCHANGED <<storeVars, applied, envVars>>

\* _stage_heartbeat: the gate on the target cursor.
HeartbeatGate(s) ==
    /\ pc[s] = "heartbeat_gate"
    /\ IF Held(s).required_projection_revision <= Cursor
       THEN Goto(s, "stage_heartbeat") /\ UNCHANGED mem
       ELSE /\ Goto(s, "status")
            /\ mem' = [mem EXCEPT ![s].then = "since"]
    /\ UNCHANGED <<storeVars, applied, envVars>>

\* Mutant of StageScheduled: the revision is not reserved.
StageUnreserved(s, intent, next, due) ==
    /\ StageIntent(Held(s), Expected(s), None, "absent", intent)
    /\ Goto(s, "apply")
    /\ mem' = [mem EXCEPT ![s].intent = intent,
                          ![s].dispatch = 1, ![s].then = next, ![s].due = due]
    /\ UNCHANGED <<applied, envVars>>

\* Stage an intent that belongs to no attempt: the state revision stays.
StageScheduled(s, intent, next, due) ==
    LET staged == Reserve(Held(s), intent) IN
    /\ StageIntent(staged, Expected(s), None, "absent", intent)
    /\ Goto(s, "apply")
    /\ mem' = [mem EXCEPT ![s].stream = staged, ![s].intent = intent,
                          ![s].dispatch = 1, ![s].then = next, ![s].due = due]
    /\ UNCHANGED <<applied, envVars>>

StageHeartbeat(s) ==
    /\ pc[s] = "stage_heartbeat"
    /\ StageScheduled(s, BuildIntent(s, "heartbeat", None, 0), "since", <<>>)

\* status_query before run_scheduled, before each of its occurrences but the
\* first, and around each intent of a reconcile, which acts for the latest
\* attempt.
ReadStatus(s) ==
    /\ pc[s] = "status"
    /\ Goto(s, mem[s].then)
    /\ mem' = [mem EXCEPT
                 ![s].stream = stream,
                 ![s].claim = IF mem[s].then \in {"log", "replay"}
                              THEN LatestAttempt ELSE None]
    /\ UNCHANGED <<storeVars, applied, envVars>>

\* last_evaluated_occurrence: the confirmed boundaries on the first page.
EvaluatedBoundaries ==
    {intents[r].scheduled_boundary : r \in
        {q \in confirmations \cap 1..Len(intents) :
            q <= LeaseItemLimit /\ intents[q].kind = "timeliness"}}

\* Mutant of OccurrencesAfter: the cap keeps the newest boundaries.
NewestOccurrencesAfter(since) ==
    LET late == boundary - since
        due == IF late < MaxDueTransitions THEN late ELSE MaxDueTransitions
    IN  [n \in 1..due |-> boundary - due + n]

\* scheduled_occurrences after a boundary: in order, capped per call.
OccurrencesAfter(since) ==
    LET late == boundary - since
        due == IF late < MaxDueTransitions THEN late ELSE MaxDueTransitions
    IN  [n \in 1..due |-> since + n]

\* The current boundary of a stream never evaluated, every boundary after the
\* last evaluated one otherwise.
ReadSince(s) ==
    /\ pc[s] = "since"
    /\ Goto(s, "schedule")
    /\ \/ /\ EvaluatedBoundaries = {}
          /\ mem' = [mem EXCEPT ![s].due =
                       IF boundary = 0 THEN <<>> ELSE <<boundary>>]
       \/ \E since \in EvaluatedBoundaries :
            /\ \A b \in EvaluatedBoundaries : b <= since
            /\ mem' = [mem EXCEPT ![s].due = OccurrencesAfter(since)]
    /\ UNCHANGED <<storeVars, applied, envVars>>

\* run_scheduled: the status before an occurrence, and the gate on the outbox.
Schedule(s) ==
    /\ pc[s] = "schedule"
    /\ mem[s].due # <<>>
    /\ ~HasIncompleteOutbox /\ Room
    /\ Goto(s, "schedule_gate")
    /\ mem' = [mem EXCEPT ![s].required = stream.required_projection_revision]
    /\ UNCHANGED <<storeVars, applied, envVars>>

\* run_scheduled: the gate on the target cursor.
ScheduleGate(s) ==
    /\ pc[s] = "schedule_gate"
    /\ mem[s].required <= Cursor
    /\ Goto(s, "stage_occurrence")
    /\ UNCHANGED <<storeVars, applied, mem, envVars>>

\* run_scheduled: one occurrence, from the state held before the gates.
StageOccurrence(s) ==
    /\ pc[s] = "stage_occurrence"
    /\ StageScheduled(s, BuildIntent(s, "timeliness", None, Head(mem[s].due)),
                      "schedule", Tail(mem[s].due))

\* run_scheduled ends: nothing is due, or a gate is closed.
EndSchedule(s) ==
    /\ \/ /\ pc[s] = "schedule"
          /\ mem[s].due = <<>> \/ HasIncompleteOutbox \/ ~Room
       \/ pc[s] = "schedule_gate" /\ mem[s].required > Cursor
    /\ Close(s)
    /\ UNCHANGED <<storeVars, applied, envVars>>

-----------------------------------------------------------------------------
(* reconcile *)

ReadLog(s) ==
    /\ pc[s] = "log"
    /\ Goto(s, "replay")
    /\ mem' = [mem EXCEPT ![s].log = UnconfirmedRevisions, ![s].then = "replay"]
    /\ UNCHANGED <<storeVars, applied, envVars>>

ReplayIntent(s) ==
    /\ pc[s] = "replay"
    /\ \E r \in mem[s].log :
         /\ \A q \in mem[s].log : r <= q
         /\ mem' = [mem EXCEPT ![s].intent = intents[r], ![s].log = @ \ {r},
                               ![s].dispatch = 1]
    /\ Goto(s, "apply")
    /\ UNCHANGED <<storeVars, applied, envVars>>

EndReplay(s) ==
    /\ pc[s] = "replay"
    /\ mem[s].log = {}
    /\ Close(s)
    /\ UNCHANGED <<storeVars, applied, envVars>>

-----------------------------------------------------------------------------
(* Contract and deployment lifecycle *)

\* _cmd_contract_register (migration "none") and _cmd_contract_activate.
ContractCommand(s, k, migration) ==
    /\ Open(s, "contract")
    /\ Goto(s, "register")
    /\ mem' = [mem EXCEPT ![s] =
                 [NoMemory EXCEPT !.contract = k, !.stream = stream,
                                  !.migration = migration]]
    /\ UNCHANGED <<storeVars, applied, envVars>>

Register(s) ==
    /\ pc[s] = "register"
    /\ RegisterContract(Expected(s), mem[s].contract, mem[s].migration)
    /\ IF mem[s].migration = "none"
       THEN Close(s)
       ELSE /\ Goto(s, "activate")
            /\ mem' = [mem EXCEPT ![s].stream = stream']
    /\ UNCHANGED <<applied, envVars>>

Activate(s) ==
    /\ pc[s] = "activate"
    /\ ActivateContract(Expected(s), mem[s].contract, mem[s].migration)
    /\ Close(s)
    /\ UNCHANGED <<applied, envVars>>

ActivateRefused(s) ==
    /\ pc[s] = "activate"
    /\ ~CanFence
    /\ Close(s)
    /\ UNCHANGED <<storeVars, applied, envVars>>

\* _cmd_deployment_register and _cmd_deployment_activate read the deployment,
\* the status and the target cursor, then call the store once.
DeploymentCommand(s, k, step) ==
    /\ Open(s, "deployment")
    /\ deployment.deployment_revision < MaxDeployments
    /\ step \in {"deploy_register", "deploy_activate"}
    /\ step = "deploy_activate" => deployment.candidate_manifest = k
    /\ Goto(s, step)
    /\ mem' = [mem EXCEPT ![s] =
                 [NoMemory EXCEPT
                    !.contract = k, !.stream = stream, !.cursor = Cursor,
                    !.deployment_revision = deployment.deployment_revision]]
    /\ UNCHANGED <<storeVars, applied, envVars>>

DeployRegister(s) ==
    /\ pc[s] = "deploy_register"
    /\ RegisterDeployment(Expected(s), mem[s].deployment_revision,
                          mem[s].contract)
    /\ Close(s)
    /\ UNCHANGED <<applied, envVars>>

DeployActivate(s) ==
    /\ pc[s] = "deploy_activate"
    /\ ActivateDeployment(Expected(s), mem[s].deployment_revision,
                          mem[s].contract, mem[s].cursor)
    /\ Close(s)
    /\ UNCHANGED <<applied, envVars>>

DeployRefused(s) ==
    /\ pc[s] = "deploy_activate"
    /\ ~CanFence \/ mem[s].cursor # AuthoritativeCursor
    /\ Close(s)
    /\ UNCHANGED <<storeVars, applied, envVars>>

-----------------------------------------------------------------------------
(* Refusals by the store, crashes, time *)

TransactionSteps ==
    {"insert", "received", "preparing", "materializing", "validating", "stage",
     "applied", "settle", "refused", "fail", "stage_heartbeat",
     "stage_occurrence", "register", "activate", "deploy_register",
     "deploy_activate"}

\* The store raises stale_revision and the command ends.
StaleRevision(s) ==
    /\ pc[s] \in TransactionSteps
    /\ ~CheckRevision(Expected(s))
    /\ Close(s)
    /\ UNCHANGED <<storeVars, applied, envVars>>

\* The store raises intent_conflict: the revision is another intent's.
StageConflict(s) ==
    /\ \/ pc[s] = "stage" /\ IntentConflict(mem[s].intent)
       \/ /\ pc[s] \in {"stage_heartbeat", "stage_occurrence"}
          /\ IntentConflict(BuildIntent(s, "heartbeat", None, 0))
    /\ Close(s)
    /\ UNCHANGED <<storeVars, applied, envVars>>

\* The store raises integrity_error or concurrency_conflict: another owner
\* leases the entry.
LeaseConflict(s) ==
    LET r == mem[s].intent.projection_revision IN
    /\ \/ pc[s] = "settle" /\ ~CanComplete(r, LeaseOwner[s])
       \/ pc[s] = "fail" /\ ~CanFail(r, LeaseOwner[s])
    /\ Close(s)
    /\ UNCHANGED <<storeVars, applied, envVars>>

\* The process stops, or an exception the runtime does not handle leaves the
\* command (raw preservation and the lifecycle sink raise such exceptions).
Crash(s) ==
    /\ pc[s] # "idle"
    /\ crashes < MaxCrashes
    /\ crashes' = crashes + 1
    /\ Close(s)
    /\ UNCHANGED <<storeVars, applied, boundary, faults>>

ExpireLease(r) ==
    /\ LeaseExpires(r)
    /\ UNCHANGED <<applied, sessionVars, envVars>>

PassBoundary ==
    /\ boundary < MaxBoundary
    /\ boundary' = boundary + 1
    /\ UNCHANGED <<storeVars, applied, sessionVars, faults, crashes>>

-----------------------------------------------------------------------------
(* Specification *)

\* A fresh stream, or one the operator has provisioned as the runbook says:
\* contract register and activate, then deployment register and activate.
Init ==
    /\ stream = [EmptyStream EXCEPT
                   !.active_contract = Deployed,
                   !.state_revision = IF Deployed = None THEN 0 ELSE 5]
    /\ candidate = [contract |-> None, migration |-> "none"]
    /\ deployment = [candidate_manifest |-> None, active_manifest |-> Deployed,
                     deployment_revision |-> IF Deployed = None THEN 0 ELSE 2]
    /\ attempt = [c \in Claims |-> "absent"]
    /\ ordinals = <<>>
    /\ intents = <<>>
    /\ outbox = <<>>
    /\ confirmations = {}
    /\ applied = <<>>
    /\ pc = [s \in Sessions |-> "idle"]
    /\ mem = [s \in Sessions |-> NoMemory]
    /\ boundary = 0
    /\ faults = 0
    /\ crashes = 0

\* The operator starts a command.
Start(s) ==
    \/ \E c \in Claims, k \in Contracts : IngestFile(s, c, k)
    \/ \E k \in Contracts : IngestDue(s, k)
    \/ \E k \in Contracts : Reconcile(s, k)
    \/ \E k \in Contracts, m \in Migration : ContractCommand(s, k, m)
    \/ \E k \in Contracts, step \in {"deploy_register", "deploy_activate"} :
         DeploymentCommand(s, k, step)

\* The delivery of a file, up to its staged intent.
Deliver(s) ==
    \/ SubmitAdmitted(s)
    \/ SubmitManaged(s)
    \/ SubmitReplay(s)
    \/ SubmitRefused(s)
    \/ Prepare(s)
    \/ Materialize(s)
    \/ Validate(s)
    \/ FailAttempt(s)
    \/ BeginCommit(s)
    \/ StagePublication(s)

\* The application of the staged intent in hand.
Apply(s) ==
    \/ ApplyIntent(s)
    \/ ApplyOutOfOrder(s)
    \/ TargetUnavailable(s)
    \/ CommitAttempt(s)
    \/ BlockAttempt(s)
    \/ Settle(s)
    \/ GiveBack(s)

\* Due evaluation and reconciliation.
Evaluate(s) ==
    \/ Lease(s)
    \/ NothingDue(s)
    \/ Resume(s)
    \/ Heartbeat(s)
    \/ HeartbeatGate(s)
    \/ StageHeartbeat(s)
    \/ ReadStatus(s)
    \/ ReadSince(s)
    \/ Schedule(s)
    \/ ScheduleGate(s)
    \/ StageOccurrence(s)
    \/ EndSchedule(s)
    \/ ReadLog(s)
    \/ ReplayIntent(s)
    \/ EndReplay(s)

\* Contract and deployment transitions.
Administer(s) ==
    \/ Register(s)
    \/ Activate(s)
    \/ ActivateRefused(s)
    \/ DeployRegister(s)
    \/ DeployActivate(s)
    \/ DeployRefused(s)

Refuse(s) == StaleRevision(s) \/ StageConflict(s) \/ LeaseConflict(s)

Step(s) == Deliver(s) \/ Apply(s) \/ Evaluate(s) \/ Administer(s) \/ Refuse(s)

Next ==
    \/ \E s \in Sessions : Start(s) \/ Step(s) \/ Crash(s)
    \/ \E r \in 1..Len(outbox) : ExpireLease(r)
    \/ PassBoundary

Spec == Init /\ [][Next]_vars

\* A session runs to its end, leases expire, and the orchestrator calls
\* `ingest due`, and `reconcile` where operators use it, again and again
\* whenever the session is free.
Fairness ==
    /\ \A s \in Sessions : WF_vars(Step(s))
    /\ \A s \in Sessions, k \in Contracts :
         SF_vars(IngestDue(s, k)) /\ SF_vars(Reconcile(s, k))
    /\ WF_vars(\E r \in 1..Len(outbox) : ExpireLease(r))

FairSpec == Spec /\ Fairness

-----------------------------------------------------------------------------
(* Properties *)

\* Every variable has its type.
TypeOK ==
    /\ StoreTypeOK
    /\ applied \in Seq(Intent)
    /\ pc \in [Sessions -> Steps]
    /\ mem \in [Sessions -> Memory]
    /\ boundary \in Nat
    /\ faults \in Nat
    /\ crashes \in Nat

\* The target has applied a prefix of the staged log, revision by revision:
\* whatever crashes, retries and replays did, nothing is skipped, reordered,
\* applied twice or applied without having been staged.
TargetFollowsLog ==
    /\ \A r \in 1..Len(intents) : intents[r].projection_revision = r
    /\ Len(applied) <= Len(intents)
    /\ \A r \in 1..Len(applied) : applied[r] = intents[r]

\* The store confirms a revision, and completes its outbox entry, only once
\* the target has applied it: settlement never runs ahead of the target.
ConfirmedIsApplied ==
    /\ \A r \in confirmations : r \in 1..Len(applied)
    /\ \A r \in 1..Len(outbox) :
         outbox[r].status = "complete" => r \in confirmations

Published(c) == \E r \in 1..Len(applied) : applied[r].claim = c

\* A delivery is accepted under one claim, whatever sessions race to submit it.
OneClaimPerDelivery ==
    \A c, d \in Claims :
        attempt[c] # "absent" /\ attempt[d] # "absent" /\ Delivery[c] = Delivery[d]
            => c = d

\* An attempt the store reports as committed is visible at the target.
CommittedIsVisible ==
    \A c \in Claims : attempt[c] = "committed" => Published(c)

\* A visible delivery is never reported as failed: the operator is not told
\* to send again what consumers already read.
FailedIsInvisible ==
    \A c \in Claims : attempt[c] = "failed"
        => \A r \in 1..Len(intents) : intents[r].claim # c

\* A terminal attempt stays as it is, whatever session, retry or activation
\* still holds it.
TerminalIsFinal ==
    [][\A c \in Claims : attempt[c] \in Terminal => attempt'[c] = attempt[c]]_vars

\* The store reserves revisions without loss: the revision a stream requires
\* is the last one it staged, so the next intent never meets a taken one.
RequiredIsLastStaged == stream.required_projection_revision = Len(intents)

\* The accepted progress is that of the last delivery staged (or none, after
\* a reset): progress and intent land together.
ProgressIsLastDelivery ==
    stream.accepted_progress # None =>
        \E r \in 1..Len(intents) :
            /\ intents[r].claim = stream.accepted_progress
            /\ \A q \in r+1..Len(intents) : intents[q].claim = None

\* A delivery is staged in the visibility epoch in force: an activation that
\* opens a new epoch fences the sessions that read the old one.
StagedInEpoch ==
    [][Len(intents') > Len(intents) /\ intents'[Len(intents')].claim # None =>
         intents'[Len(intents')].visibility_epoch = stream.visibility_epoch]_vars

\* A contract activation does not overtake a publication: when a new epoch
\* opens, every delivery staged in an earlier one is visible.
EpochOpensQuietly ==
    [][stream'.visibility_epoch # stream.visibility_epoch =>
         \A r \in 1..Len(intents) :
            intents[r].claim # None => Published(intents[r].claim)]_vars

Timely(r) == intents[r].kind = "timeliness"

\* Catch-up projects every scheduled boundary once and in order: after the
\* first, no boundary is skipped or projected again.
OccurrencesInOrder ==
    \A q, r \in 1..Len(intents) :
            q < r /\ Timely(q) /\ Timely(r) /\ (\A p \in q+1..r-1 : ~Timely(p))
        =>  intents[r].scheduled_boundary = intents[q].scheduled_boundary + 1

\* Every staged intent is settled in the end: completed, or given up as a
\* dead letter after the declared number of dispatches.
StagedIsSettled ==
    \A n \in 1..MaxIntents :
        Len(outbox) >= n ~>
            Len(outbox) >= n /\ outbox[n].status \in {"complete", "dead_letter"}

\* Every staged intent reaches the target in the end, dead letters included,
\* where operators reconcile.
StagedIsApplied ==
    \A n \in 1..MaxIntents : Len(intents) >= n ~> Len(applied) >= n

-----------------------------------------------------------------------------
(* The inductive invariant *)

SubmitSteps == {"submit", "conflict", "predecessor", "insert"}
StagedSteps == {"resume", "apply", "applied", "settle", "refused", "fail"}
OwningSteps == {"received", "preparing", "materializing", "validating", "stage"}

Accepted(c) == attempt[c] # "absent"

Staged(c) == \E r \in 1..Len(intents) : intents[r].claim = c

\* What a session at step p with memory m may rely on, whatever the others
\* have done since it read the store: the intent in hand is in the log at its
\* revision, and applied when the session believes so; the claim in hand has
\* been accepted; and while its compare and swap can still succeed, the claim
\* it submits is new, no other claim has taken the delivery since it looked,
\* and the claim it carries is not staged.
Consistent(p, m) ==
    LET r == m.intent.projection_revision
        current == m.stream.state_revision = stream.state_revision
    IN
    /\ m.stream.required_projection_revision <= Len(intents)
    /\ m.stream.state_revision <= stream.state_revision
    /\ m.log \subseteq 1..Len(intents)
    /\ p # "idle" => m.contract \in Contracts
    /\ p \in SubmitSteps => m.claim \in Claims /\ (current => ~Accepted(m.claim))
    /\ p \in {"predecessor", "insert"} => (current => ~Conflicts(m.claim))
    /\ p \notin {"idle"} \cup SubmitSteps => m.claim = None \/ Accepted(m.claim)
    /\ p \in {"status", "lease"} => m.then # "done"
    /\ p \in {"schedule_gate", "stage_occurrence"} => m.due # <<>>
    /\ p = "stage" =>
         m.intent \in Intent /\ m.intent.claim = m.claim /\ r <= Len(intents) + 1
    /\ p \in StagedSteps =>
         m.intent \in Intent /\ r <= Len(intents) /\ m.intent = intents[r]
    /\ p \in {"applied", "settle"} => r <= Len(applied)
    /\ p \in OwningSteps => m.claim \in Claims /\ (current => ~Staged(m.claim))

\* The tables of the store agree with each other.
TablesAgree ==
    /\ Len(outbox) = Len(intents)
    /\ stream.required_projection_revision <= Len(intents)
    /\ \A n \in 1..Len(ordinals) : Accepted(ordinals[n])
    /\ \A r \in 1..Len(intents) :
         intents[r].claim = None \/ Accepted(intents[r].claim)

\* A session that may still carry its attempt to a staged intent.
Owns(s) == pc[s] \in OwningSteps /\ Expected(s) = stream.state_revision

\* A claim is staged for publication at most once, however often its file is
\* submitted and its publication is resumed.
PublishedOnce ==
    \A q, r \in 1..Len(intents) :
        intents[q].claim = intents[r].claim /\ intents[q].claim # None => q = r

\* What every step preserves.  It holds the sessions to the store they read:
\* at most one of them owns the stream's next publication, and a session that
\* replays a submission, or read the stream too early, is stale.
InductiveInvariant ==
    /\ TypeOK
    /\ TargetFollowsLog
    /\ ConfirmedIsApplied
    /\ PublishedOnce
    /\ TablesAgree
    /\ \A s \in Sessions : Consistent(pc[s], mem[s])
    /\ \A s, t \in Sessions : Owns(s) /\ Owns(t) => s = t

-----------------------------------------------------------------------------
(* Implementation of the abstract specification *)

\* The runtime implements the publication log: the staged intents are its log,
\* the applied ones are published, the confirmed ones acknowledged.
Log == INSTANCE PublicationLog WITH
    log <- intents, published <- applied, acknowledged <- confirmations

PublicationIsOrdered == Log!LogSpec

=============================================================================
