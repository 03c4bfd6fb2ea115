-------------------------- MODULE DeliveryStateStore --------------------------
(***************************************************************************)
(* The delivery state store of one logical stream                          *)
(* (ergasterion/ingestion/sqlite_store.py).  Every operation below is the   *)
(* body of one SQLite transaction: it happens entirely or, when one of its  *)
(* checks raises PortError, not at all.                                     *)
(*                                                                         *)
(* A stream's projection intents and their outbox entries share one key,    *)
(* the projection revision: an outbox identifier is the digest of its       *)
(* intent and the store keeps one intent per revision.  Both tables are     *)
(* therefore sequences, in the order staged; LandingRuntime shows that the  *)
(* position of an intent is its revision.                                   *)
(***************************************************************************)
EXTENDS Integers, Sequences

CONSTANTS
    Claims,      \* delivery claims (digests of delivery manifests)
    Delivery,    \* the delivery_id a claim carries
    Contracts,   \* landing contracts (digests)
    Owners,      \* lease owners
    None         \* the absent value

ASSUME NoneIsNoValue == None \notin Claims \cup Contracts \cup Owners

VARIABLES
    stream,         \* the streams row: StreamState
    candidate,      \* candidate_contract_digest and candidate_migration_json
    deployment,     \* deployment_json and deployment_revision
    attempt,        \* the attempts table: state of the attempt of each claim
    ordinals,       \* the claims in attempt_ordinal order
    intents,        \* projection_intents, by revision
    outbox,         \* outbox, by revision
    confirmations   \* revisions recorded in projection_confirmations

storeVars ==
    <<stream, candidate, deployment, attempt, ordinals, intents, outbox,
      confirmations>>

-----------------------------------------------------------------------------
(* Records *)

PreIntent == {"received", "preparing", "materializing", "validating"}
PostIntent == {"committing", "commit_blocked"}
Terminal == {"committed", "failed"}
AttemptState == PreIntent \cup PostIntent \cup Terminal

StreamState ==
    [state_revision : Nat, required_projection_revision : Nat,
     accepted_progress : Claims \cup {None},
     active_contract : Contracts \cup {None}, visibility_epoch : Nat]

Migration == {"none", "carry", "reset"}

Intent ==
    [projection_revision : Nat \ {0},
     kind : {"delivery_publication", "timeliness", "heartbeat"},
     claim : Claims \cup {None}, visibility_epoch : Nat,
     scheduled_boundary : Nat, contract : Contracts]

OutboxStatus == {"pending", "leased", "retryable", "complete", "dead_letter"}

OutboxEntry ==
    [status : OutboxStatus, dispatch_ordinal : Nat \ {0},
     lease_owner : Owners \cup {None}, lease_expired : BOOLEAN]

\* Mutant of Pending: dispatches counted from zero.
PendingFromZero ==
    [status |-> "pending", dispatch_ordinal |-> 0, lease_owner |-> None,
     lease_expired |-> FALSE]

Pending ==
    [status |-> "pending", dispatch_ordinal |-> 1, lease_owner |-> None,
     lease_expired |-> FALSE]

StoreTypeOK ==
    /\ stream \in StreamState
    /\ candidate \in [contract : Contracts \cup {None}, migration : Migration]
    /\ deployment \in
         [candidate_manifest : Contracts \cup {None},
          active_manifest : Contracts \cup {None},
          deployment_revision : Nat]
    /\ attempt \in [Claims -> AttemptState \cup {"absent"}]
    /\ ordinals \in Seq(Claims)
    /\ intents \in Seq(Intent)
    /\ outbox \in Seq(OutboxEntry)
    /\ confirmations \subseteq Nat

-----------------------------------------------------------------------------
(* Queries *)

\* status_query: the attempt with the highest ordinal, if there is one.
LatestAttempt == IF ordinals = <<>> THEN None ELSE ordinals[Len(ordinals)]

\* status_query: incomplete_outbox_count > 0.  A dead letter is not counted.
HasIncompleteOutbox ==
    \E r \in 1..Len(outbox) :
        outbox[r].status \in {"pending", "leased", "retryable"}

\* The authoritative cursor: the highest confirmed revision, 0 if none.
AuthoritativeCursor ==
    CHOOSE r \in confirmations \cup {0} : \A q \in confirmations : q <= r

\* Mutant of UnconfirmedRevisions: the queue is read instead of the log.
QueuedRevisions ==
    {r \in 1..Len(outbox) : outbox[r].status \notin {"complete", "dead_letter"}}

\* projection_log minus projection_confirmation_log.
UnconfirmedRevisions == (1..Len(intents)) \ confirmations

-----------------------------------------------------------------------------
(* Parts of transactions *)

\* Mutant of CheckRevision: the last writer wins.
IgnoreRevision(expected) == expected \in Nat

\* _check_revision: compare and swap on the stream's state revision.
CheckRevision(expected) == stream.state_revision = expected

\* _put_attempt: write the attempt of claim c, when the caller holds one.
PutAttempt(c, state) ==
    attempt' = IF c = None THEN attempt ELSE [attempt EXCEPT ![c] = state]

\* _enqueue and _record_intent: an intent whose revision is already taken by
\* another intent raises intent_conflict, the intent already staged is left
\* alone, and a new one is logged and queued for its first dispatch.  Intents
\* that differ in nothing the model keeps may still differ in their instant.
IntentConflict(intent) ==
    \E r \in 1..Len(intents) :
        intents[r].projection_revision = intent.projection_revision

AlreadyStaged(intent) == \E r \in 1..Len(intents) : intents[r] = intent

\* Mutant of Enqueue: the intent is logged and never queued.
LogOnly(intent) ==
    /\ ~IntentConflict(intent)
    /\ intents' = Append(intents, intent)
    /\ UNCHANGED outbox

Enqueue(intent) ==
    \/ /\ ~IntentConflict(intent)
       /\ intents' = Append(intents, intent)
       /\ outbox' = Append(outbox, Pending)
    \/ /\ AlreadyStaged(intent)
       /\ UNCHANGED <<intents, outbox>>

\* The completion loop of state_transaction: a complete entry is left alone,
\* an entry another owner leases is an integrity error.
CanComplete(r, owner) ==
    outbox[r].status = "leased" => outbox[r].lease_owner = owner

\* Mutant of Complete: the entry is queued again.
Requeue(r) ==
    outbox' = [outbox EXCEPT
                 ![r].status = "retryable",
                 ![r].lease_owner = None, ![r].lease_expired = FALSE]

Complete(r) ==
    outbox' = [outbox EXCEPT
                 ![r].status = "complete",
                 ![r].lease_owner = None, ![r].lease_expired = FALSE]

\* _record_confirmation.
RecordConfirmation(r) == confirmations' = confirmations \cup {r}

\* Mutant of CanFence: a committing attempt is not seen.
CanFenceCommitting == \A c \in Claims : attempt[c] # "commit_blocked"

\* _fence_attempts: an attempt past its intent forbids the transition, an
\* attempt before it is failed.
CanFence == \A c \in Claims : attempt[c] \notin PostIntent

FenceAttempts ==
    attempt' = [c \in Claims |->
                  IF attempt[c] \in PreIntent THEN "failed" ELSE attempt[c]]

-----------------------------------------------------------------------------
(* Transactions.  next is the caller's whole next StreamState: the store   *)
(* saves it as given once the revision check passes.                       *)

\* state_transaction with one attempt update and nothing else.
SaveAttempt(next, expected, c, state) ==
    /\ CheckRevision(expected)
    /\ PutAttempt(c, state)
    /\ stream' = next
    /\ UNCHANGED <<candidate, deployment, ordinals, intents, outbox,
                   confirmations>>

\* state_transaction that inserts the attempt of a new claim.
InsertAttempt(next, expected, c) ==
    /\ CheckRevision(expected)
    /\ PutAttempt(c, "received")
    /\ ordinals' = Append(ordinals, c)
    /\ stream' = next
    /\ UNCHANGED <<candidate, deployment, intents, outbox, confirmations>>

\* state_transaction that stages a projection intent.
StageIntent(next, expected, c, state, intent) ==
    /\ CheckRevision(expected)
    /\ PutAttempt(c, state)
    /\ Enqueue(intent)
    /\ stream' = next
    /\ UNCHANGED <<candidate, deployment, ordinals, confirmations>>

\* state_transaction that completes an outbox entry with its confirmation.
CompleteOutbox(next, expected, c, state, r, owner) ==
    /\ CheckRevision(expected)
    /\ CanComplete(r, owner)
    /\ PutAttempt(c, state)
    /\ Complete(r)
    /\ RecordConfirmation(r)
    /\ stream' = next
    /\ UNCHANGED <<candidate, deployment, ordinals, intents>>

\* fail_outbox: an unexpired lease of another owner is a concurrency
\* conflict; otherwise the entry is released, one dispatch later.
CanFail(r, owner) ==
    outbox[r].status = "leased"
        => outbox[r].lease_owner \in {None, owner} \/ outbox[r].lease_expired

FailOutbox(next, expected, c, state, r, owner, status) ==
    /\ CheckRevision(expected)
    /\ CanFail(r, owner)
    /\ PutAttempt(c, state)
    /\ outbox' = [outbox EXCEPT
                    ![r] = [status |-> status,
                            dispatch_ordinal |-> @.dispatch_ordinal + 1,
                            lease_owner |-> None, lease_expired |-> FALSE]]
    /\ stream' = next
    /\ UNCHANGED <<candidate, deployment, ordinals, intents, confirmations>>

\* lease_outbox over projection entries.  A failed entry's next_not_before is
\* the instant of the failure, so an unleased entry is always due.
Leasable ==
    {r \in 1..Len(outbox) :
        \/ outbox[r].status \in {"pending", "retryable"}
        \/ outbox[r].status = "leased" /\ outbox[r].lease_expired}

LeaseOutbox(r, owner) ==
    /\ r \in Leasable
    /\ \A q \in Leasable : r <= q
    /\ outbox' = [outbox EXCEPT
                    ![r].status = "leased", ![r].lease_owner = owner,
                    ![r].lease_expired = FALSE]
    /\ UNCHANGED <<stream, candidate, deployment, attempt, ordinals, intents,
                   confirmations>>

\* lease_expires_at passes.
LeaseExpires(r) ==
    /\ outbox[r].status = "leased"
    /\ ~outbox[r].lease_expired
    /\ outbox' = [outbox EXCEPT ![r].lease_expired = TRUE]
    /\ UNCHANGED <<stream, candidate, deployment, attempt, ordinals, intents,
                   confirmations>>

\* contract_lifecycle, REGISTER.
RegisterContract(expected, contract, migration) ==
    /\ CheckRevision(expected)
    /\ candidate' = [contract |-> contract, migration |-> migration]
    /\ stream' = [stream EXCEPT !.state_revision = @ + 1]
    /\ UNCHANGED <<deployment, attempt, ordinals, intents, outbox,
                   confirmations>>

\* contract_lifecycle, ACTIVATE.
ActivateContract(expected, contract, migration) ==
    /\ CheckRevision(expected)
    /\ candidate = [contract |-> contract, migration |-> migration]
    /\ CanFence
    /\ FenceAttempts
    /\ candidate' = [contract |-> None, migration |-> "none"]
    /\ stream' = [stream EXCEPT
                    !.active_contract = contract,
                    !.state_revision = @ + 1,
                    !.visibility_epoch = IF migration = "reset" THEN @ + 1 ELSE @,
                    !.accepted_progress = IF migration = "reset" THEN None ELSE @]
    /\ UNCHANGED <<deployment, ordinals, intents, outbox, confirmations>>

\* deployment_lifecycle, REGISTER.
RegisterDeployment(expected, deploymentRevision, manifest) ==
    /\ CheckRevision(expected)
    /\ deployment.deployment_revision = deploymentRevision
    /\ deployment' = [deployment EXCEPT
                        !.candidate_manifest = manifest,
                        !.deployment_revision = @ + 1]
    /\ stream' = [stream EXCEPT !.state_revision = @ + 1]
    /\ UNCHANGED <<candidate, attempt, ordinals, intents, outbox,
                   confirmations>>

\* deployment_lifecycle, ACTIVATE: the target cursor the caller read must be
\* the authoritative cursor (_check_catchup).
ActivateDeployment(expected, deploymentRevision, manifest, catchup) ==
    /\ CheckRevision(expected)
    /\ deployment.deployment_revision = deploymentRevision
    /\ catchup = AuthoritativeCursor
    /\ CanFence
    /\ FenceAttempts
    /\ deployment' = [candidate_manifest |-> None,
                      active_manifest |-> manifest,
                      deployment_revision |-> deploymentRevision + 1]
    /\ stream' = [stream EXCEPT !.state_revision = @ + 1]
    /\ UNCHANGED <<candidate, ordinals, intents, outbox, confirmations>>

=============================================================================
