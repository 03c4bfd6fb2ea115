------------------------- MODULE LandingAttemptProofs -------------------------
(***************************************************************************)
(* What an attempt and an epoch mean, proved for LandingRuntime with any    *)
(* number of sessions, claims and contracts, and any bounds: a delivery is  *)
(* accepted under one claim, a delivery is staged in the epoch in force,    *)
(* and, where no session reconciles, an attempt's state tells the operator  *)
(* the truth about what consumers can read.                                 *)
(*                                                                         *)
(* Then what the streams row and the scheduled occurrences promise on the   *)
(* local platform, where the DuckDB file admits one process: with one       *)
(* session and any number of claims and contracts.  With several, one can   *)
(* put back the row it read before another reserved a revision in it, since *)
(* staging leaves the state revision where it is.                           *)
(***************************************************************************)
EXTENDS LandingRuntimeProofs

\* The steps of a session that write neither the store nor the target.
Reads(s) ==
    \/ Start(s) \/ Refuse(s) \/ Crash(s)
    \/ SubmitAdmitted(s) \/ SubmitReplay(s) \/ SubmitRefused(s)
    \/ ApplyOutOfOrder(s) \/ TargetUnavailable(s)
    \/ NothingDue(s) \/ Resume(s) \/ Heartbeat(s) \/ HeartbeatGate(s)
    \/ ReadStatus(s) \/ ReadSince(s) \/ Schedule(s) \/ ScheduleGate(s) \/ EndSchedule(s)
    \/ ReadLog(s) \/ ReplayIntent(s) \/ EndReplay(s)
    \/ ActivateRefused(s) \/ DeployRefused(s)

\* The transactions that move the attempt in hand to a state.
Moved(s, state) ==
    \/ Prepare(s) /\ state = "preparing"
    \/ Materialize(s) /\ state = "materializing"
    \/ Validate(s) /\ state = "validating"
    \/ FailAttempt(s) /\ state = "failed"
    \/ BeginCommit(s) /\ state = "committing"
    \/ CommitAttempt(s) /\ state = "committed"
    \/ BlockAttempt(s) /\ state = "commit_blocked"

\* The transactions that carry the attempt in hand along unmoved.
Carried(s, state) ==
    \/ StagePublication(s) /\ state = "committing"
    \/ Settle(s) /\ state = "committed"
    \/ GiveBack(s) /\ state = "commit_blocked"

LEMMA ReadsWriteNothing ==
    ASSUME NEW s \in Sessions, Reads(s)
    PROVE  UNCHANGED <<stream, candidate, deployment, attempt, ordinals, intents, outbox,
                       confirmations, applied>>
<1>1. CASE Start(s)
  BY <1>1 DEF Start, IngestFile, IngestDue, Reconcile, ContractCommand, DeploymentCommand,
              storeVars
<1>2. CASE Refuse(s) \/ Crash(s) \/ SubmitAdmitted(s) \/ SubmitReplay(s) \/ SubmitRefused(s)
             \/ ApplyOutOfOrder(s) \/ TargetUnavailable(s)
  BY <1>2 DEF Refuse, StaleRevision, StageConflict, LeaseConflict, Crash, SubmitAdmitted,
              SubmitReplay, SubmitRefused, ApplyOutOfOrder, TargetUnavailable, storeVars
<1>3. CASE NothingDue(s) \/ Resume(s) \/ Heartbeat(s) \/ HeartbeatGate(s)
             \/ ReadStatus(s) \/ ReadSince(s) \/ Schedule(s)
  BY <1>3 DEF NothingDue, Resume, Heartbeat, HeartbeatGate, ReadStatus, ReadSince, Schedule,
              storeVars
<1>4. CASE ScheduleGate(s) \/ EndSchedule(s) \/ ReadLog(s) \/ ReplayIntent(s) \/ EndReplay(s)
             \/ ActivateRefused(s) \/ DeployRefused(s)
  BY <1>4 DEF ScheduleGate, EndSchedule, ReadLog, ReplayIntent, EndReplay, ActivateRefused,
              DeployRefused, storeVars
<1>. QED BY <1>1, <1>2, <1>3, <1>4 DEF Reads

\* Every step is one of a session's reads or of its transactions, or of time.
LEMMA StepKinds ==
    ASSUME [Next]_vars
    PROVE  \/ \E s \in Sessions :
                \/ Reads(s) \/ SubmitManaged(s) \/ ApplyIntent(s) \/ Lease(s)
                \/ StageHeartbeat(s) \/ StageOccurrence(s)
                \/ \E state \in AttemptState : Moved(s, state) \/ Carried(s, state)
                \/ Register(s) \/ Activate(s) \/ DeployRegister(s) \/ DeployActivate(s)
           \/ \E r \in 1..Len(outbox) : ExpireLease(r)
           \/ PassBoundary
           \/ UNCHANGED vars
<1>1. {"preparing", "materializing", "validating", "failed", "committing", "committed",
       "commit_blocked"} \subseteq AttemptState
  BY DEF AttemptState, PreIntent, PostIntent, Terminal
<1>2. ASSUME NEW s \in Sessions, Deliver(s)
      PROVE  \/ Reads(s) \/ SubmitManaged(s)
             \/ \E state \in AttemptState : Moved(s, state) \/ Carried(s, state)
  BY <1>1, <1>2 DEF Deliver, Reads, Moved, Carried
<1>3. ASSUME NEW s \in Sessions, Apply(s)
      PROVE  \/ Reads(s) \/ ApplyIntent(s)
             \/ \E state \in AttemptState : Moved(s, state) \/ Carried(s, state)
  BY <1>1, <1>3 DEF Apply, Reads, Moved, Carried
<1>4. ASSUME NEW s \in Sessions, Evaluate(s)
      PROVE  Reads(s) \/ Lease(s) \/ StageHeartbeat(s) \/ StageOccurrence(s)
  BY <1>4 DEF Evaluate, Reads
<1>5. ASSUME NEW s \in Sessions, Administer(s)
      PROVE  Reads(s) \/ Register(s) \/ Activate(s) \/ DeployRegister(s) \/ DeployActivate(s)
  BY <1>5 DEF Administer, Reads
<1>6. ASSUME NEW s \in Sessions, Start(s) \/ Refuse(s) \/ Crash(s) PROVE Reads(s)
  BY <1>6 DEF Reads
<1>. QED BY <1>2, <1>3, <1>4, <1>5, <1>6 DEF Next, Step

\* What a move writes: the attempt in hand, and the state revision after it.
LEMMA MovedWrites ==
    ASSUME InductiveInvariant, NEW s \in Sessions, NEW state \in AttemptState, Moved(s, state)
    PROVE  /\ Expected(s) = stream.state_revision
           /\ stream' = Bumped(Held(s))
           /\ stream'.state_revision = stream.state_revision + 1
           /\ stream'.visibility_epoch = Held(s).visibility_epoch
           /\ PutAttempt(mem[s].claim, state)
           /\ UNCHANGED <<candidate, deployment, ordinals, intents, outbox, confirmations, applied>>
           /\ pc[s] \in (OwningSteps \ {"stage"}) \cup {"applied", "refused"}
<1>1. /\ SaveAttempt(Bumped(Held(s)), Expected(s), mem[s].claim, state)
      /\ UNCHANGED applied
      /\ pc[s] \in (OwningSteps \ {"stage"}) \cup {"applied", "refused"}
  BY DEF Moved, Prepare, Materialize, Validate, FailAttempt, BeginCommit, CommitAttempt,
         BlockAttempt, Transition, OwningSteps
<1>2. /\ Expected(s) = stream.state_revision /\ stream' = Bumped(Held(s))
      /\ PutAttempt(mem[s].claim, state)
      /\ UNCHANGED <<candidate, deployment, ordinals, intents, outbox, confirmations>>
  BY <1>1 DEF SaveAttempt, CheckRevision
<1>3. Held(s) \in StreamState
  BY HeldStream
<1>. QED BY <1>1, <1>2, <1>3, HeldStream DEF Bumped, StreamState

\* What the settlement, the failure and the staging of the attempt in hand
\* write: the state revision stays where it is.
LEMMA CarriedWrites ==
    ASSUME InductiveInvariant, NEW s \in Sessions, NEW state \in AttemptState,
           Carried(s, state)
    PROVE  /\ Expected(s) = stream.state_revision
           /\ stream'.state_revision = stream.state_revision
           /\ stream'.visibility_epoch = Held(s).visibility_epoch
           /\ PutAttempt(mem[s].claim, state)
           /\ UNCHANGED applied
           /\ pc[s] \in {"stage", "settle", "fail"}
<1>0. Held(s) \in StreamState /\ Held(s).state_revision = Expected(s)
  BY HeldStream
<1>1. CASE StagePublication(s) /\ state = "committing"
  <2>1. /\ Expected(s) = stream.state_revision
        /\ stream' = [Reserve(Held(s), mem[s].intent) EXCEPT
                        !.active_contract = mem[s].contract,
                        !.accepted_progress = mem[s].claim]
        /\ PutAttempt(mem[s].claim, state) /\ UNCHANGED applied /\ pc[s] = "stage"
    BY <1>1 DEF StagePublication, StageIntent, CheckRevision
  <2>. QED BY <1>0, <2>1 DEF Reserve, StreamState
<1>2. CASE Settle(s) /\ state = "committed"
  BY <1>0, <1>2 DEF Settle, CompleteOutbox, CheckRevision
<1>3. CASE GiveBack(s) /\ state = "commit_blocked"
  BY <1>0, <1>3 DEF GiveBack, FailOutbox, CheckRevision
<1>. QED BY <1>1, <1>2, <1>3 DEF Carried

\* Staging for no claim moves no attempt.
LEMMA ScheduledWrites ==
    ASSUME InductiveInvariant, NEW s \in Sessions, StageHeartbeat(s) \/ StageOccurrence(s)
    PROVE  /\ Expected(s) = stream.state_revision
           /\ stream'.state_revision = stream.state_revision
           /\ stream'.visibility_epoch = Held(s).visibility_epoch
           /\ UNCHANGED <<attempt, applied>>
<1>0. Held(s) \in StreamState /\ Held(s).state_revision = Expected(s)
  BY HeldStream
<1>1. PICK i : /\ stream' = Reserve(Held(s), i) /\ Expected(s) = stream.state_revision
               /\ PutAttempt(None, "absent") /\ UNCHANGED applied
  BY DEF StageHeartbeat, StageOccurrence, StageScheduled, StageIntent, CheckRevision
<1>. QED BY <1>0, <1>1 DEF Reserve, StreamState, PutAttempt

\* The attempts after a write of the attempt in hand.
LEMMA PutAttemptWrites ==
    ASSUME InductiveInvariant, NEW c \in Claims \cup {None}, NEW state, PutAttempt(c, state)
    PROVE  /\ c = None => attempt' = attempt
           /\ c # None => c \in Claims /\ attempt'[c] = state
           /\ \A d \in Claims : d # c => attempt'[d] = attempt[d]
<1>1. attempt \in [Claims -> AttemptState \cup {"absent"}]
  BY DEF InductiveInvariant, TypeOK, StoreTypeOK
<1>. QED BY <1>1 DEF PutAttempt

-----------------------------------------------------------------------------
(* One claim for each delivery *)

\* Only submit_managed accepts a claim.
LEMMA AcceptedBySubmit ==
    ASSUME InductiveInvariant, [Next]_vars
    PROVE  \/ \A c \in Claims : Accepted(c)' => Accepted(c)
           \/ \E s \in Sessions : SubmitManaged(s)
<1>1. ASSUME NEW s \in Sessions, NEW state \in AttemptState, Moved(s, state) \/ Carried(s, state),
             NEW c \in Claims, Accepted(c)'
      PROVE  Accepted(c)
  <2>1. /\ PutAttempt(mem[s].claim, state)
        /\ pc[s] \in OwningSteps \cup {"applied", "refused", "settle", "fail"}
    BY <1>1, MovedWrites, CarriedWrites DEF OwningSteps
  <2>2. /\ mem[s].claim \in Claims \cup {None}
        /\ mem[s].claim = None \/ Accepted(mem[s].claim)
    BY <2>1, Types DEF Consistent, Memory, OwningSteps, SubmitSteps
  <2>. QED BY <1>1, <2>1, <2>2, PutAttemptWrites DEF Accepted
<1>2. ASSUME NEW s \in Sessions, Activate(s) \/ DeployActivate(s), NEW c \in Claims, Accepted(c)'
      PROVE  Accepted(c)
  <2>1. FenceAttempts
    BY <1>2 DEF Activate, ActivateContract, DeployActivate, ActivateDeployment
  <2>2. "absent" \notin PreIntent
    BY DEF PreIntent
  <2>. QED BY <1>2, <2>1, <2>2 DEF FenceAttempts, Accepted
<1>3. ASSUME NEW s \in Sessions,
             Reads(s) \/ ApplyIntent(s) \/ Lease(s) \/ StageHeartbeat(s) \/ StageOccurrence(s)
               \/ Register(s) \/ DeployRegister(s)
      PROVE  UNCHANGED attempt
  BY <1>3, ReadsWriteNothing, ScheduledWrites
  DEF ApplyIntent, Lease, LeaseOutbox, Register, RegisterContract, DeployRegister,
      RegisterDeployment, storeVars
<1>4. ASSUME (\E r \in 1..Len(outbox) : ExpireLease(r)) \/ PassBoundary \/ UNCHANGED vars
      PROVE  UNCHANGED attempt
  BY <1>4 DEF ExpireLease, LeaseExpires, PassBoundary, vars, storeVars
<1>. QED BY <1>1, <1>2, <1>3, <1>4, StepKinds DEF Accepted

\* When submit_managed inserts, its compare and swap has just succeeded, so
\* what it found when it looked still holds: no attempt has been accepted since.
LEMMA InsertedIsNew ==
    ASSUME InductiveInvariant, NEW s \in Sessions, SubmitManaged(s)
    PROVE  /\ mem[s].claim \in Claims
           /\ ~Accepted(mem[s].claim)
           /\ ~Conflicts(mem[s].claim)
           /\ PutAttempt(mem[s].claim, "received")
<1>1. pc[s] = "insert" /\ mem[s].stream.state_revision = stream.state_revision
  BY DEF SubmitManaged, InsertAttempt, CheckRevision, Expected
<1>2. /\ mem[s].claim \in Claims /\ ~Accepted(mem[s].claim)
      /\ ~Conflicts(mem[s].claim)
  BY <1>1, Types DEF Consistent, SubmitSteps
<1>. QED BY <1>2 DEF SubmitManaged, InsertAttempt

\* Of two sessions that found a delivery free, the second to insert is stale.
LEMMA OneClaimStep ==
    ASSUME InductiveInvariant, OneClaimPerDelivery, [Next]_vars
    PROVE  OneClaimPerDelivery'
<1>1. CASE \A c \in Claims : Accepted(c)' => Accepted(c)
  BY <1>1 DEF OneClaimPerDelivery, Accepted
<1>2. ASSUME NEW s \in Sessions, SubmitManaged(s) PROVE OneClaimPerDelivery'
  <2>1. PICK c : c = mem[s].claim
    OBVIOUS
  <2>2. c \in Claims /\ ~Conflicts(c) /\ PutAttempt(c, "received")
    BY <1>2, <2>1, InsertedIsNew
  <2>3. \A d \in Claims \ {c} : attempt'[d] = attempt[d]
    BY <2>2, PutAttemptWrites
  <2>4. \A d \in Claims \ {c} : Delivery[d] = Delivery[c] => attempt'[d] = "absent"
    BY <2>2, <2>3 DEF Conflicts
  <2>5. ASSUME NEW d \in Claims, NEW e \in Claims, attempt'[d] # "absent", attempt'[e] # "absent",
               Delivery[d] = Delivery[e]
        PROVE  d = e
    BY <2>3, <2>4, <2>5 DEF OneClaimPerDelivery
  <2>. QED BY <2>5 DEF OneClaimPerDelivery
<1>. QED BY <1>1, <1>2, AcceptedBySubmit

\* submit_managed accepts a delivery under one claim, whatever sessions race
\* to submit it, whatever they insert or activate between the reads of another
\* and its insertion, and whatever state the attempt has reached.
THEOREM DeliveryIsClaimedOnce == Spec => []OneClaimPerDelivery
<1>1. Init => OneClaimPerDelivery
  BY DEF Init, OneClaimPerDelivery
<1>2. InductiveInvariant /\ OneClaimPerDelivery /\ [Next]_vars => OneClaimPerDelivery'
  BY OneClaimStep
<1>. QED BY <1>1, <1>2, InvariantHolds, PTL DEF Spec

-----------------------------------------------------------------------------
(* Visibility epochs *)

\* A session whose compare and swap can still succeed holds the epoch in
\* force, and the intent it is about to stage was built in the epoch it holds.
InEpoch(p, m) ==
    /\ m.stream.state_revision = stream.state_revision
         => m.stream.visibility_epoch = stream.visibility_epoch
    /\ p = "stage" => m.intent.visibility_epoch = m.stream.visibility_epoch

\* The epoch changes only with the state revision, so a session of an earlier
\* epoch is stale.  The first conjunct is for a session that has read nothing.
EpochInvariant ==
    /\ stream.state_revision = 0 => stream.visibility_epoch = 0
    /\ \A s \in Sessions : InEpoch(pc[s], mem[s])

\* The stream a session holds after a step: what it held, what it has read or
\* written, or nothing.
LEMMA StreamInHand ==
    ASSUME InductiveInvariant, NEW s \in Sessions,
           \/ Reads(s) \/ SubmitManaged(s) \/ ApplyIntent(s) \/ Lease(s)
           \/ StageHeartbeat(s) \/ StageOccurrence(s)
           \/ \E state \in AttemptState : Moved(s, state) \/ Carried(s, state)
           \/ Register(s) \/ Activate(s) \/ DeployRegister(s) \/ DeployActivate(s)
    PROVE  /\ \A t \in Sessions \ {s} : pc'[t] = pc[t] /\ mem'[t] = mem[t]
           /\ mem'[s].stream \in {mem[s].stream, stream', EmptyStream}
           /\ pc'[s] = "stage" => BeginCommit(s)
<1> DEFINE Goal == /\ \A t \in Sessions \ {s} : pc'[t] = pc[t] /\ mem'[t] = mem[t]
                   /\ mem'[s].stream \in {mem[s].stream, stream', EmptyStream}
                   /\ pc'[s] = "stage" => BeginCommit(s)
<1> SUFFICES Goal
  OBVIOUS
<1>0. pc \in [Sessions -> Steps] /\ mem \in [Sessions -> Memory] /\ NoMemory.stream = EmptyStream
  BY DEF InductiveInvariant, TypeOK, NoMemory
<1>1. CASE Close(s)
  BY <1>0, <1>1 DEF Close
<1>2. CASE Start(s)
  <2>1. ASSUME NEW c \in Claims, NEW k \in Contracts, IngestFile(s, c, k) PROVE Goal
    BY <1>0, <2>1 DEF IngestFile, Goto, NoMemory, storeVars
  <2>2. ASSUME NEW k \in Contracts, IngestDue(s, k) PROVE Goal
    BY <1>0, <2>2 DEF IngestDue, Goto, NoMemory, storeVars
  <2>3. ASSUME NEW k \in Contracts, Reconcile(s, k) PROVE Goal
    BY <1>0, <2>3 DEF Reconcile, Goto, NoMemory, storeVars
  <2>4. ASSUME NEW k \in Contracts, NEW g \in Migration, ContractCommand(s, k, g) PROVE Goal
    BY <1>0, <2>4 DEF ContractCommand, Goto, NoMemory, storeVars
  <2>5. ASSUME NEW k \in Contracts, NEW step \in {"deploy_register", "deploy_activate"},
               DeploymentCommand(s, k, step)
        PROVE  Goal
    BY <1>0, <2>5 DEF DeploymentCommand, Goto, NoMemory, storeVars
  <2>. HIDE DEF Goal
  <2>. QED BY <1>2, <2>1, <2>2, <2>3, <2>4, <2>5 DEF Start
<1>3. CASE SubmitAdmitted(s) \/ SubmitReplay(s) \/ ApplyOutOfOrder(s) \/ TargetUnavailable(s)
             \/ NothingDue(s) \/ ApplyIntent(s) \/ ScheduleGate(s)
  BY <1>0, <1>3 DEF SubmitAdmitted, SubmitReplay, ApplyOutOfOrder, TargetUnavailable, NothingDue, ApplyIntent,
     ScheduleGate, Goto
<1>4. CASE Resume(s) \/ Heartbeat(s) \/ HeartbeatGate(s) \/ ReadSince(s) \/ Schedule(s)
             \/ ReadLog(s) \/ ReplayIntent(s) \/ Lease(s)
  <2>0. mem[s] \in Memory
    BY <1>0
  <2>1. CASE Resume(s)
    BY <1>0, <2>0, <2>1 DEF Resume, Goto, Memory, storeVars
  <2>2. CASE Heartbeat(s)
    BY <1>0, <2>0, <2>2 DEF Heartbeat, Goto, Memory, storeVars
  <2>3. CASE HeartbeatGate(s)
    BY <1>0, <2>0, <2>3 DEF HeartbeatGate, Goto, Memory, storeVars
  <2>4. CASE ReadSince(s)
    BY <1>0, <2>0, <2>4 DEF ReadSince, Goto, Memory, storeVars
  <2>5. CASE Schedule(s)
    BY <1>0, <2>0, <2>5 DEF Schedule, Goto, Memory, storeVars
  <2>6. CASE ReadLog(s)
    BY <1>0, <2>0, <2>6 DEF ReadLog, Goto, Memory, storeVars
  <2>7. CASE ReplayIntent(s)
    BY <1>0, <2>0, <2>7 DEF ReplayIntent, Goto, Memory, storeVars
  <2>8. CASE Lease(s)
    <3>1. PICK i, d : mem' = [mem EXCEPT ![s].intent = i, ![s].dispatch = d]
      BY <2>8 DEF Lease
    <3>2. pc' = [pc EXCEPT ![s] = "resume"]
      BY <2>8 DEF Lease, Goto
    <3>. QED BY <1>0, <2>0, <3>1, <3>2 DEF Memory
  <2>. QED BY <1>4, <2>1, <2>2, <2>3, <2>4, <2>5, <2>6, <2>7, <2>8
<1>5. CASE ReadStatus(s)
  <2>1. mem[s] \in Memory /\ mem[s].then # "stage"
    BY <1>0 DEF Memory, Continuations
  <2>. QED BY <1>0, <1>5, <2>1 DEF ReadStatus, Goto, Memory, storeVars
<1>6. CASE StageHeartbeat(s) \/ StageOccurrence(s)
  <2>1. mem[s] \in Memory
    BY <1>0
  <2>2. ASSUME NEW i, NEW n, NEW d, StageScheduled(s, i, n, d) PROVE Goal
    <3>1. /\ stream' = Reserve(Held(s), i)
          /\ pc' = [pc EXCEPT ![s] = "apply"]
          /\ mem' = [mem EXCEPT ![s].stream = Reserve(Held(s), i), ![s].intent = i,
                                ![s].dispatch = 1, ![s].then = n, ![s].due = d]
      BY <2>2 DEF StageScheduled, StageIntent, Goto
    <3>2. PICK h : h = Reserve(Held(s), i)
      OBVIOUS
    <3>. QED BY <1>0, <2>1, <3>1, <3>2 DEF Memory
  <2>. HIDE DEF Goal
  <2>. QED BY <1>6, <2>2 DEF StageHeartbeat, StageOccurrence
<1>7. CASE SubmitManaged(s) \/ Prepare(s) \/ Materialize(s) \/ Validate(s) \/ CommitAttempt(s)
             \/ BlockAttempt(s)
  <2>1. mem[s] \in Memory
    BY <1>0
  <2>. QED BY <1>0, <1>7, <2>1 DEF SubmitManaged, InsertAttempt, Prepare, Materialize, Validate,
     CommitAttempt, BlockAttempt, Transition, SaveAttempt, Goto, Memory, Held
<1>8. CASE BeginCommit(s)
  <2>1. mem[s] \in Memory
    BY <1>0
  <2>. QED BY <1>0, <1>8, <2>1 DEF BeginCommit, SaveAttempt, Goto, Memory, Held
<1>9. CASE StagePublication(s)
  <2>1. mem[s] \in Memory
    BY <1>0
  <2>2. PICK m : m = [mem[s] EXCEPT !.stream = stream', !.dispatch = 1]
    OBVIOUS
  <2>3. /\ mem' = [mem EXCEPT ![s] = m] /\ m.stream = stream'
        /\ pc' = [pc EXCEPT ![s] = "apply"]
    BY <1>9, <2>1, <2>2 DEF StagePublication, StageIntent, Goto, Memory
  <2>. QED BY <1>0, <2>3
<1>10. CASE Settle(s) \/ GiveBack(s)
  BY <1>0, <1>1, <1>10 DEF Settle, GiveBack, Continue, Goto
<1>11. CASE Register(s)
  <2>1. mem[s] \in Memory
    BY <1>0
  <2>. QED BY <1>0, <1>1, <1>11, <2>1 DEF Register, Goto, Memory
<1>12. Refuse(s) \/ Crash(s) \/ SubmitRefused(s) \/ EndSchedule(s) \/ EndReplay(s)
         \/ ActivateRefused(s) \/ DeployRefused(s) \/ FailAttempt(s) \/ Activate(s)
         \/ DeployRegister(s) \/ DeployActivate(s) => Close(s)
  BY DEF Refuse, StaleRevision, StageConflict, LeaseConflict, Crash, SubmitRefused,
         EndSchedule, EndReplay, ActivateRefused, DeployRefused, FailAttempt, Activate,
         DeployRegister, DeployActivate
<1>. HIDE DEF Goal
<1>13. CASE Reads(s)
  BY <1>1, <1>2, <1>3, <1>4, <1>5, <1>12, <1>13 DEF Reads
<1>14. CASE \E state \in AttemptState : Moved(s, state) \/ Carried(s, state)
  BY <1>1, <1>7, <1>8, <1>9, <1>10, <1>12, <1>14 DEF Moved, Carried
<1>. QED
  BY <1>1, <1>3, <1>4, <1>6, <1>7, <1>11, <1>12, <1>13, <1>14

\* A step leaves the state revision and the epoch, or passes the revision.
LEMMA RevisionGuardsEpoch ==
    ASSUME InductiveInvariant, EpochInvariant, [Next]_vars
    PROVE  \/ /\ stream'.state_revision = stream.state_revision
              /\ stream'.visibility_epoch = stream.visibility_epoch
           \/ stream'.state_revision > stream.state_revision
<1>0. stream \in StreamState
  BY DEF InductiveInvariant, TypeOK, StoreTypeOK
<1>1. ASSUME NEW s \in Sessions, Expected(s) = stream.state_revision
      PROVE  Held(s).visibility_epoch = stream.visibility_epoch
  BY <1>1 DEF EpochInvariant, InEpoch, Held, Expected
<1>2. ASSUME NEW s \in Sessions, NEW state \in AttemptState, Moved(s, state)
      PROVE  stream'.state_revision > stream.state_revision
  BY <1>0, <1>2, MovedWrites DEF StreamState
<1>3. ASSUME NEW s \in Sessions, NEW state \in AttemptState, Carried(s, state)
      PROVE  /\ stream'.state_revision = stream.state_revision
             /\ stream'.visibility_epoch = stream.visibility_epoch
  BY <1>1, <1>3, CarriedWrites
<1>4. ASSUME NEW s \in Sessions, StageHeartbeat(s) \/ StageOccurrence(s)
      PROVE  /\ stream'.state_revision = stream.state_revision
             /\ stream'.visibility_epoch = stream.visibility_epoch
  BY <1>1, <1>4, ScheduledWrites
<1>5. ASSUME NEW s \in Sessions, SubmitManaged(s)
      PROVE  stream'.state_revision > stream.state_revision
  <2>1. stream' = Bumped(Held(s)) /\ Expected(s) = stream.state_revision
    BY <1>5 DEF SubmitManaged, InsertAttempt, CheckRevision
  <2>. QED BY <1>0, <2>1, HeldStream DEF StreamState
<1>6. ASSUME NEW s \in Sessions,
             Register(s) \/ Activate(s) \/ DeployRegister(s) \/ DeployActivate(s)
      PROVE  stream'.state_revision > stream.state_revision
  <2>1. stream.state_revision \in Nat /\ stream.state_revision + 1 > stream.state_revision
    BY <1>0 DEF StreamState
  <2>. QED BY <1>0, <1>6, <2>1
       DEF Register, RegisterContract, Activate, ActivateContract, DeployRegister,
           RegisterDeployment, DeployActivate, ActivateDeployment, StreamState
<1>7. ASSUME NEW s \in Sessions, Reads(s) \/ ApplyIntent(s) \/ Lease(s)
      PROVE  stream' = stream
  BY <1>7, ReadsWriteNothing DEF ApplyIntent, Lease, LeaseOutbox, storeVars
<1>8. ASSUME (\E r \in 1..Len(outbox) : ExpireLease(r)) \/ PassBoundary \/ UNCHANGED vars
      PROVE  stream' = stream
  BY <1>8 DEF ExpireLease, LeaseExpires, PassBoundary, vars, storeVars
<1>. QED BY <1>2, <1>3, <1>4, <1>5, <1>6, <1>7, <1>8, StepKinds

LEMMA EpochStep ==
    ASSUME InductiveInvariant, EpochInvariant, [Next]_vars
    PROVE  EpochInvariant'
<1>0. /\ stream \in StreamState /\ stream.state_revision \in Nat
      /\ stream' \in StreamState /\ stream'.state_revision \in Nat
      /\ EmptyStream.state_revision = 0 /\ EmptyStream.visibility_epoch = 0
  <2>1. InductiveInvariant'
    BY NextPreserves
  <2>. QED BY <2>1 DEF InductiveInvariant, TypeOK, StoreTypeOK, StreamState, EmptyStream
<1>1. stream'.state_revision = 0 => stream'.visibility_epoch = 0
  BY <1>0, RevisionGuardsEpoch DEF EpochInvariant
<1>2. \A s \in Sessions : mem[s].stream.state_revision \in Nat
                          /\ mem[s].stream.state_revision <= stream.state_revision
                          /\ mem[s] \in Memory
  BY Types DEF Consistent, Memory, StreamState
\* Whatever a session held, it holds the epoch in force or is stale.
<1>3. ASSUME NEW s \in Sessions, mem'[s].stream \in {mem[s].stream, stream', EmptyStream},
             mem'[s].stream.state_revision = stream'.state_revision
      PROVE  mem'[s].stream.visibility_epoch = stream'.visibility_epoch
  <2>1. CASE mem'[s].stream = mem[s].stream
    BY <1>0, <1>2, <1>3, <2>1, RevisionGuardsEpoch DEF EpochInvariant, InEpoch
  <2>2. CASE mem'[s].stream = EmptyStream
    BY <1>0, <1>1, <1>3, <2>2
  <2>. QED BY <1>3, <2>1, <2>2
<1>4. ASSUME NEW s \in Sessions, mem'[s] = mem[s], pc'[s] = pc[s]
      PROVE  InEpoch(pc[s], mem[s])'
  BY <1>3, <1>4 DEF EpochInvariant, InEpoch
<1>5. ASSUME NEW s \in Sessions,
             \/ Reads(s) \/ SubmitManaged(s) \/ ApplyIntent(s) \/ Lease(s)
             \/ StageHeartbeat(s) \/ StageOccurrence(s)
             \/ \E state \in AttemptState : Moved(s, state) \/ Carried(s, state)
             \/ Register(s) \/ Activate(s) \/ DeployRegister(s) \/ DeployActivate(s)
      PROVE  EpochInvariant'
  <2>1. /\ \A t \in Sessions \ {s} : pc'[t] = pc[t] /\ mem'[t] = mem[t]
        /\ mem'[s].stream \in {mem[s].stream, stream', EmptyStream}
        /\ pc'[s] = "stage" => BeginCommit(s)
    BY <1>5, StreamInHand
  <2>2. ASSUME BeginCommit(s)
        PROVE  mem'[s].intent.visibility_epoch = mem'[s].stream.visibility_epoch
    <3>1. PICK i : i = BuildIntent(s, "delivery_publication", mem[s].claim, 0)
      OBVIOUS
    <3>2. pc[s] = "validating" /\ mem' = [mem EXCEPT ![s].stream = Bumped(@), ![s].intent = i]
      BY <2>2, <3>1 DEF BeginCommit
    <3>3. mem[s].claim \in Claims
      BY <3>2, Types DEF Consistent, OwningSteps
    <3>4. i.visibility_epoch = mem[s].stream.visibility_epoch
      BY <3>1, <3>3, NoneIsNoValue DEF BuildIntent, Held
    <3>5. mem \in [Sessions -> Memory]
      BY DEF InductiveInvariant, TypeOK
    <3>6. PICK m : m = [mem[s] EXCEPT !.stream = Bumped(@), !.intent = i]
      OBVIOUS
    <3>7. mem'[s] = m
      BY <3>2, <3>5, <3>6
    <3>8. m.intent = i /\ m.stream = Bumped(mem[s].stream)
      BY <1>2, <3>6 DEF Memory
    <3>9. mem[s].stream \in StreamState
      BY <1>2 DEF Memory
    <3>10. Bumped(mem[s].stream).visibility_epoch = mem[s].stream.visibility_epoch
      BY <3>9 DEF Bumped, StreamState
    <3>. QED BY <3>4, <3>7, <3>8, <3>10
  <2>3. ASSUME NEW t \in Sessions PROVE InEpoch(pc[t], mem[t])'
    <3>1. CASE t = s
      BY <1>3, <2>1, <2>2, <3>1 DEF InEpoch
    <3>2. CASE t # s
      BY <1>4, <2>1, <3>2
    <3>. QED BY <3>1, <3>2
  <2>. QED BY <1>1, <2>3 DEF EpochInvariant
<1>6. ASSUME (\E r \in 1..Len(outbox) : ExpireLease(r)) \/ PassBoundary \/ UNCHANGED vars
      PROVE  EpochInvariant'
  <2>1. pc' = pc /\ mem' = mem
    BY <1>6 DEF ExpireLease, PassBoundary, sessionVars, vars
  <2>. QED BY <1>1, <1>4, <2>1 DEF EpochInvariant
<1>. QED BY <1>5, <1>6, StepKinds

\* A session that stages a delivery holds the epoch in force.
LEMMA StagesInEpoch ==
    ASSUME InductiveInvariant, EpochInvariant, [Next]_vars,
           Len(intents') > Len(intents), intents'[Len(intents')].claim # None
    PROVE  intents'[Len(intents')].visibility_epoch = stream.visibility_epoch
<1>0. intents \in Seq(Intent) /\ Len(intents) \in Nat
  BY DEF InductiveInvariant, TypeOK, StoreTypeOK
<1>1. PICK s \in Sessions : StagePublication(s) \/ StageHeartbeat(s) \/ StageOccurrence(s)
  <2>1. ASSUME NEW s \in Sessions,
               Reads(s) \/ SubmitManaged(s) \/ ApplyIntent(s) \/ Lease(s) \/ Settle(s)
                 \/ GiveBack(s) \/ Register(s) \/ Activate(s) \/ DeployRegister(s)
                 \/ DeployActivate(s)
        PROVE  intents' = intents
    BY <2>1, ReadsWriteNothing
    DEF SubmitManaged, InsertAttempt, ApplyIntent, Lease, LeaseOutbox, Settle, CompleteOutbox,
        GiveBack, FailOutbox, Register, RegisterContract, Activate, ActivateContract,
        DeployRegister, RegisterDeployment, DeployActivate, ActivateDeployment, storeVars
  <2>2. ASSUME NEW s \in Sessions, NEW state \in AttemptState, Moved(s, state)
        PROVE  intents' = intents
    BY <2>2, MovedWrites
  <2>3. ASSUME (\E r \in 1..Len(outbox) : ExpireLease(r)) \/ PassBoundary \/ UNCHANGED vars
        PROVE  intents' = intents
    BY <2>3 DEF ExpireLease, LeaseExpires, PassBoundary, vars, storeVars
  <2>. QED BY <1>0, <2>1, <2>2, <2>3, StepKinds DEF Carried
<1>2. CASE StagePublication(s)
  <2>1. Enqueue(mem[s].intent) /\ Expected(s) = stream.state_revision /\ pc[s] = "stage"
    BY <1>2 DEF StagePublication, StageIntent, CheckRevision
  <2>2. intents' = Append(intents, mem[s].intent)
    BY <1>0, <2>1 DEF Enqueue
  <2>3. intents'[Len(intents')] = mem[s].intent
    BY <1>0, <2>2
  <2>. QED BY <2>1, <2>3 DEF EpochInvariant, InEpoch, Expected
<1>3. CASE StageHeartbeat(s) \/ StageOccurrence(s)
  <2>1. PICK i : Enqueue(i) /\ i.claim = None
    <3> DEFINE heartbeat == BuildIntent(s, "heartbeat", None, 0)
               occurrence == BuildIntent(s, "timeliness", None, Head(mem[s].due))
    <3>1. heartbeat.claim = None /\ occurrence.claim = None
      BY DEF BuildIntent
    <3>2. Enqueue(heartbeat) \/ Enqueue(occurrence)
      BY <1>3 DEF StageHeartbeat, StageOccurrence, StageScheduled, StageIntent
    <3>. HIDE DEF heartbeat, occurrence
    <3>. QED BY <3>1, <3>2
  <2>2. intents' = Append(intents, i)
    BY <1>0, <2>1 DEF Enqueue
  <2>3. intents'[Len(intents')] = i
    BY <1>0, <2>2
  <2>. QED BY <2>1, <2>3
<1>. QED BY <1>1, <1>2, <1>3

\* publish stages a delivery in the visibility epoch in force, whatever
\* contract another session activates meanwhile: the activation moves the state
\* revision, so a session that built its intent in the old epoch is stale.
THEOREM DeliveryIsStagedInEpoch == Spec => StagedInEpoch
<1>1. Init => EpochInvariant
  BY DEF Init, EpochInvariant, InEpoch, NoMemory, EmptyStream
<1>2. InductiveInvariant /\ EpochInvariant /\ [Next]_vars => EpochInvariant'
  BY EpochStep
<1>3. InductiveInvariant /\ EpochInvariant /\ [Next]_vars =>
        [Len(intents') > Len(intents) /\ intents'[Len(intents')].claim # None =>
           intents'[Len(intents')].visibility_epoch = stream.visibility_epoch]_vars
  BY StagesInEpoch
<1>. QED BY <1>1, <1>2, <1>3, InvariantHolds, PTL DEF Spec, StagedInEpoch

-----------------------------------------------------------------------------
(* What an attempt's state tells *)

\* The steps at which a session acts for the claim of the intent in hand, and
\* those at which it acts for no claim.
DispatchSteps == {"apply", "applied", "settle", "refused", "fail"}
ClaimlessSteps ==
    {"heartbeat_gate", "stage_heartbeat", "since", "schedule", "schedule_gate",
     "stage_occurrence"}

\* What a session knows of the attempt in hand while its compare and swap can
\* still succeed: until the publication is staged the attempt is where the
\* session left it, it is committed when the session settles it and blocked
\* when the session gives it back, and a target that refuses the publication
\* has not committed it.
InHand(p, m) ==
    /\ p \notin {"log", "replay"} /\ m.then \notin {"log", "replay"}
    /\ p \in DispatchSteps => m.claim = m.intent.claim
    /\ p \in ClaimlessSteps => m.claim = None
    /\ m.stream.state_revision = stream.state_revision =>
         /\ p \in OwningSteps => attempt[m.claim] = IF p = "stage" THEN "committing" ELSE p
         /\ m.claim # None =>
              /\ p = "settle" => attempt[m.claim] = "committed"
              /\ p = "fail" => attempt[m.claim] = "commit_blocked"
              /\ p = "refused" => attempt[m.claim] # "committed"

\* The attempt of a staged claim is past its intent and has not failed, and the
\* target has the claim of a committed attempt.
AttemptsAgree ==
    /\ \A c \in Claims : Staged(c) => attempt[c] \in PostIntent \cup {"committed"}
    /\ \A c \in Claims : attempt[c] = "committed" => Published(c)

AttemptInvariant ==
    /\ AttemptsAgree
    /\ \A s \in Sessions : InHand(pc[s], mem[s])

\* The claim a session dispatches for is staged.
LEMMA DispatchedIsStaged ==
    ASSUME InductiveInvariant, NEW s \in Sessions, InHand(pc[s], mem[s]),
           pc[s] \in DispatchSteps, mem[s].claim # None
    PROVE  /\ mem[s].claim \in Claims
           /\ Staged(mem[s].claim)
           /\ pc[s] \in {"applied", "settle"} => Published(mem[s].claim)
<1>1. PICK r : r = mem[s].intent.projection_revision
  OBVIOUS
<1>2. /\ mem[s].intent \in Intent /\ mem[s].intent = intents[r] /\ r <= Len(intents)
      /\ pc[s] \in {"applied", "settle"} => r <= Len(applied)
  BY <1>1, Types DEF Consistent, DispatchSteps, StagedSteps
<1>3. r \in Nat \ {0}
  BY <1>1, <1>2 DEF Intent
<1>4. r \in 1..Len(intents) /\ (r <= Len(applied) => r \in 1..Len(applied))
  BY <1>2, <1>3, Types
<1>5. mem[s].claim = intents[r].claim /\ mem[s].claim \in Claims
  BY <1>2, Types DEF InHand, Memory
<1>. QED BY <1>2, <1>4, <1>5 DEF Staged, Published, InductiveInvariant, TargetFollowsLog

\* The staging, the settlement and the failure find the attempt where they put it.
LEMMA CarriedKeeps ==
    ASSUME InductiveInvariant, AttemptInvariant, NEW s \in Sessions,
           NEW state \in AttemptState, Carried(s, state)
    PROVE  attempt' = attempt
<1>1. /\ Expected(s) = stream.state_revision /\ PutAttempt(mem[s].claim, state)
  BY CarriedWrites
<1>2. /\ InHand(pc[s], mem[s]) /\ mem[s].claim \in Claims \cup {None}
      /\ attempt \in [Claims -> AttemptState \cup {"absent"}]
  BY Types DEF AttemptInvariant, Memory, InductiveInvariant, TypeOK, StoreTypeOK
<1>3. mem[s].claim # None => attempt[mem[s].claim] = state
  BY <1>1, <1>2 DEF Carried, StagePublication, Settle, GiveBack, InHand, OwningSteps, Expected
<1>. QED BY <1>1, <1>2, <1>3 DEF PutAttempt

\* A terminal attempt is not moved.
LEMMA MovedIsLive ==
    ASSUME InductiveInvariant, AttemptInvariant, NEW s \in Sessions,
           NEW state \in AttemptState, Moved(s, state),
           mem[s].claim # None, attempt[mem[s].claim] \in Terminal
    PROVE  attempt[mem[s].claim] = "committed" /\ state = "committed"
<1>1. /\ Expected(s) = stream.state_revision
      /\ pc[s] \in (OwningSteps \ {"stage"}) \cup {"applied", "refused"}
  BY MovedWrites
<1>2. InHand(pc[s], mem[s])
  BY DEF AttemptInvariant
<1>3. pc[s] \notin OwningSteps
  BY <1>1, <1>2 DEF InHand, OwningSteps, Terminal, Expected
<1>4. pc[s] \in DispatchSteps
  BY <1>1, <1>3 DEF DispatchSteps
<1>5. attempt[mem[s].claim] \in PostIntent \cup {"committed"}
  BY <1>2, <1>4, DispatchedIsStaged DEF AttemptInvariant, AttemptsAgree
<1>6. attempt[mem[s].claim] = "committed"
  BY <1>5 DEF PostIntent, Terminal
<1>7. pc[s] # "refused"
  BY <1>1, <1>2, <1>6 DEF InHand, Expected
<1>8. CommitAttempt(s) /\ state = "committed"
  BY <1>3, <1>7 DEF Moved, Prepare, Materialize, Validate, FailAttempt, BeginCommit, BlockAttempt,
     Transition, OwningSteps
<1>. QED BY <1>6, <1>8

\* No step takes a terminal attempt elsewhere.
LEMMA TerminalStep ==
    ASSUME InductiveInvariant, AttemptInvariant, [Next]_vars, NEW c \in Claims,
           attempt[c] \in Terminal
    PROVE  attempt'[c] = attempt[c]
<1>1. ASSUME NEW s \in Sessions, NEW state \in AttemptState, Moved(s, state)
      PROVE  attempt'[c] = attempt[c]
  <2>1. PutAttempt(mem[s].claim, state) /\ mem[s].claim \in Claims \cup {None}
    BY <1>1, MovedWrites, Types DEF Memory
  <2>. QED BY <1>1, <2>1, MovedIsLive, PutAttemptWrites
<1>2. ASSUME NEW s \in Sessions, NEW state \in AttemptState, Carried(s, state)
      PROVE  attempt'[c] = attempt[c]
  BY <1>2, CarriedKeeps
<1>3. ASSUME NEW s \in Sessions, SubmitManaged(s) PROVE attempt'[c] = attempt[c]
  <2>1. PutAttempt(mem[s].claim, "received") /\ attempt[mem[s].claim] = "absent"
        /\ mem[s].claim \in Claims
    BY <1>3, InsertedIsNew DEF Accepted
  <2>. QED BY <2>1, PutAttemptWrites DEF Terminal
<1>4. ASSUME NEW s \in Sessions, Activate(s) \/ DeployActivate(s)
      PROVE  attempt'[c] = attempt[c]
  BY <1>4 DEF Activate, ActivateContract, DeployActivate, ActivateDeployment, FenceAttempts,
     PreIntent, Terminal
<1>5. ASSUME NEW s \in Sessions,
             Reads(s) \/ ApplyIntent(s) \/ Lease(s) \/ StageHeartbeat(s) \/ StageOccurrence(s)
               \/ Register(s) \/ DeployRegister(s)
      PROVE  UNCHANGED attempt
  BY <1>5, ReadsWriteNothing, ScheduledWrites
  DEF ApplyIntent, Lease, LeaseOutbox, Register, RegisterContract, DeployRegister,
      RegisterDeployment, storeVars
<1>6. ASSUME (\E r \in 1..Len(outbox) : ExpireLease(r)) \/ PassBoundary \/ UNCHANGED vars
      PROVE  UNCHANGED attempt
  BY <1>6 DEF ExpireLease, LeaseExpires, PassBoundary, vars, storeVars
<1>. QED BY <1>1, <1>2, <1>3, <1>4, <1>5, <1>6, StepKinds

\* An epoch opens only by an activation, which waits for what is staged.
LEMMA EpochOpens ==
    ASSUME InductiveInvariant, EpochInvariant, AttemptInvariant, [Next]_vars,
           stream'.visibility_epoch # stream.visibility_epoch,
           NEW r \in 1..Len(intents), intents[r].claim # None
    PROVE  Published(intents[r].claim)
<1>0. stream \in StreamState
  BY DEF InductiveInvariant, TypeOK, StoreTypeOK
<1>1. ASSUME NEW s \in Sessions, Expected(s) = stream.state_revision
      PROVE  Held(s).visibility_epoch = stream.visibility_epoch
  BY <1>1 DEF EpochInvariant, InEpoch, Held, Expected
<1>2. ASSUME NEW s \in Sessions PROVE ~SubmitManaged(s)
  <2> SUFFICES ASSUME SubmitManaged(s) PROVE FALSE
    OBVIOUS
  <2>1. stream' = Bumped(Held(s)) /\ Expected(s) = stream.state_revision
    BY DEF SubmitManaged, InsertAttempt, CheckRevision
  <2>2. Held(s) \in StreamState
    BY HeldStream
  <2>3. stream'.visibility_epoch = Held(s).visibility_epoch
    BY <2>1, <2>2 DEF Bumped, StreamState
  <2>. QED BY <1>1, <2>1, <2>3
<1>3. ASSUME NEW s \in Sessions,
             Reads(s) \/ ApplyIntent(s) \/ Lease(s) \/ Register(s) \/ DeployRegister(s)
               \/ DeployActivate(s)
      PROVE  stream'.visibility_epoch = stream.visibility_epoch
  BY <1>0, <1>3, ReadsWriteNothing
  DEF ApplyIntent, Lease, LeaseOutbox, Register, RegisterContract, DeployRegister,
      RegisterDeployment, DeployActivate, ActivateDeployment, storeVars, StreamState
<1>4. ASSUME (\E q \in 1..Len(outbox) : ExpireLease(q)) \/ PassBoundary \/ UNCHANGED vars
      PROVE  UNCHANGED stream
  BY <1>4 DEF ExpireLease, LeaseExpires, PassBoundary, vars, storeVars
<1>5. PICK s \in Sessions : Activate(s)
  <2>1. ASSUME NEW s \in Sessions, NEW state \in AttemptState, Moved(s, state) \/ Carried(s, state)
        PROVE  FALSE
    BY <1>1, <2>1, MovedWrites, CarriedWrites
  <2>2. ASSUME NEW s \in Sessions, StageHeartbeat(s) \/ StageOccurrence(s) PROVE FALSE
    BY <1>1, <2>2, ScheduledWrites
  <2>3. PICK s \in Sessions :
          \/ Reads(s) \/ ApplyIntent(s) \/ Lease(s) \/ Register(s) \/ DeployRegister(s)
          \/ DeployActivate(s) \/ Activate(s)
    BY <1>2, <1>4, <2>1, <2>2, StepKinds
  <2>. QED BY <1>3, <2>3
<1>6. intents[r].claim \in Claims /\ Staged(intents[r].claim)
  <2>1. intents[r] \in Intent
    BY DEF InductiveInvariant, TypeOK, StoreTypeOK
  <2>. QED BY <2>1 DEF Intent, Staged
<1>7. attempt[intents[r].claim] = "committed"
  BY <1>5, <1>6 DEF Activate, ActivateContract, CanFence, AttemptInvariant, AttemptsAgree
<1>. QED BY <1>6, <1>7 DEF AttemptInvariant, AttemptsAgree

\* Another session knows what it knew: an attempt moves only with the state
\* revision.
LEMMA AttemptStep ==
    ASSUME InductiveInvariant, AttemptInvariant, NEW s \in Sessions,
           \A t \in Sessions \ {s} : pc'[t] = pc[t] /\ mem'[t] = mem[t],
           \/ stream'.state_revision = stream.state_revision /\ attempt' = attempt
           \/ stream'.state_revision > stream.state_revision,
           stream'.state_revision \in Nat,
           AttemptsAgree', InHand(pc[s], mem[s])'
    PROVE  AttemptInvariant'
<1>1. ASSUME NEW t \in Sessions PROVE InHand(pc[t], mem[t])'
  <2>1. CASE t = s
    BY <2>1
  <2>2. CASE t # s
    <3>1. /\ InHand(pc[t], mem[t]) /\ Consistent(pc[t], mem[t])
          /\ mem[t].stream.state_revision \in Nat /\ stream.state_revision \in Nat
      BY Types DEF AttemptInvariant, Memory, StreamState
    <3>2. mem[t].stream.state_revision = stream'.state_revision =>
            /\ mem[t].stream.state_revision = stream.state_revision
            /\ attempt' = attempt
      BY <3>1 DEF Consistent
    <3>. QED BY <2>2, <3>1, <3>2 DEF InHand
  <2>. QED BY <2>1, <2>2
<1>. QED BY <1>1 DEF AttemptInvariant

\* The attempts and the logs agree after a step that touches neither.
LEMMA AgreeAlone ==
    ASSUME AttemptInvariant, UNCHANGED <<attempt, intents, applied>>
    PROVE  AttemptsAgree'
BY DEF AttemptInvariant, AttemptsAgree, Staged, Published

\* A session that has closed its command knows nothing.
LEMMA ClosedInHand ==
    ASSUME InductiveInvariant, NEW s \in Sessions, Close(s)
    PROVE  InHand(pc[s], mem[s])'
<1>1. pc'[s] = "idle" /\ mem'[s] = NoMemory
  BY DEF Close, InductiveInvariant, TypeOK
<1>. QED
  BY <1>1 DEF InHand, NoMemory, DispatchSteps, ClaimlessSteps, OwningSteps

\* The target refuses only a publication it has not applied.
LEMMA RefusedIsNotCommitted ==
    ASSUME InductiveInvariant, AttemptInvariant, NEW s \in Sessions, pc[s] = "apply",
           ~AlreadyApplied(mem[s].intent), mem[s].claim # None
    PROVE  attempt[mem[s].claim] # "committed"
<1> SUFFICES ASSUME attempt[mem[s].claim] = "committed" PROVE FALSE
  OBVIOUS
<1>1. /\ InHand(pc[s], mem[s]) /\ mem[s].claim = mem[s].intent.claim
      /\ mem[s].claim \in Claims
  BY Types DEF AttemptInvariant, InHand, DispatchSteps, Memory
<1>2. PICK q \in 1..Len(applied) : applied[q].claim = mem[s].claim
  BY <1>1 DEF AttemptInvariant, AttemptsAgree, Published
<1>3. PICK r : r = mem[s].intent.projection_revision
  OBVIOUS
<1>4. /\ mem[s].intent \in Intent /\ mem[s].intent = intents[r] /\ r <= Len(intents)
  BY <1>3, Types DEF Consistent, StagedSteps
<1>5. r \in 1..Len(intents)
  <2>1. r \in Nat \ {0}
    BY <1>3, <1>4 DEF Intent
  <2>. QED BY <1>4, <2>1, Types
<1>6. q \in 1..Len(intents) /\ applied[q] = intents[q]
  BY Types DEF InductiveInvariant, TargetFollowsLog
<1>7. q = r
  BY <1>1, <1>2, <1>4, <1>5, <1>6 DEF InductiveInvariant, PublishedOnce
<1>. QED BY <1>4, <1>6, <1>7 DEF AlreadyApplied

\* What a session knows after a read.
LEMMA ReadsInHand ==
    ASSUME InductiveInvariant, AttemptInvariant, "reconcile" \notin Commands,
           NEW s \in Sessions, Reads(s)
    PROVE  InHand(pc[s], mem[s])'
<1> DEFINE Goal == InHand(pc[s], mem[s])'
<1> SUFFICES Goal
  OBVIOUS
<1>0. /\ pc \in [Sessions -> Steps] /\ mem \in [Sessions -> Memory] /\ mem[s] \in Memory
      /\ InHand(pc[s], mem[s]) /\ Consistent(pc[s], mem[s])
      /\ attempt' = attempt /\ stream' = stream
  BY Types, ReadsWriteNothing DEF InductiveInvariant, TypeOK, AttemptInvariant
<1>1. CASE Close(s)
  BY <1>1, ClosedInHand
<1>2. CASE Start(s)
  <2>1. ASSUME NEW c \in Claims, NEW k \in Contracts, IngestFile(s, c, k) PROVE Goal
    <3>1. pc'[s] = "submit" /\ mem'[s].then = "done"
      BY <1>0, <2>1 DEF IngestFile, Goto, NoMemory
    <3>. QED BY <3>1 DEF InHand, DispatchSteps, ClaimlessSteps, OwningSteps
  <2>2. ASSUME NEW k \in Contracts, IngestDue(s, k) PROVE Goal
    <3>1. pc'[s] = "lease" /\ mem'[s].then = "heartbeat"
      BY <1>0, <2>2 DEF IngestDue, Goto, NoMemory
    <3>. QED BY <3>1 DEF InHand, DispatchSteps, ClaimlessSteps, OwningSteps
  <2>3. ASSUME NEW k \in Contracts, Reconcile(s, k) PROVE Goal
    BY <2>3 DEF Reconcile, Open
  <2>4. ASSUME NEW k \in Contracts, NEW g \in Migration, ContractCommand(s, k, g) PROVE Goal
    <3>1. pc'[s] = "register" /\ mem'[s].then = "done"
      BY <1>0, <2>4 DEF ContractCommand, Goto, NoMemory
    <3>. QED BY <3>1 DEF InHand, DispatchSteps, ClaimlessSteps, OwningSteps
  <2>5. ASSUME NEW k \in Contracts, NEW step \in {"deploy_register", "deploy_activate"},
               DeploymentCommand(s, k, step)
        PROVE  Goal
    <3>1. pc'[s] = step /\ mem'[s].then = "done"
      BY <1>0, <2>5 DEF DeploymentCommand, Goto, NoMemory
    <3>. QED BY <3>1 DEF InHand, DispatchSteps, ClaimlessSteps, OwningSteps
  <2>. HIDE DEF Goal
  <2>. QED BY <1>2, <2>1, <2>2, <2>3, <2>4, <2>5 DEF Start
<1>3. CASE SubmitReplay(s)
  <2>1. /\ pc'[s] = "received" /\ mem'[s] = mem[s]
        /\ mem[s].stream.state_revision # stream.state_revision
    BY <1>0, <1>3 DEF SubmitReplay, Goto, Consistent, SubmitSteps, Accepted
  <2>. QED BY <1>0, <2>1 DEF InHand, DispatchSteps, ClaimlessSteps
<1>4. CASE ApplyOutOfOrder(s) \/ TargetUnavailable(s)
  <2>1. /\ pc[s] = "apply" /\ mem'[s] = mem[s]
        /\ pc'[s] = IF mem[s].claim = None THEN "fail" ELSE "refused"
        /\ ~AlreadyApplied(mem[s].intent)
    BY <1>0, <1>4 DEF ApplyOutOfOrder, TargetUnavailable, Accepts, Goto
  <2>2. mem[s].claim # None => attempt[mem[s].claim] # "committed"
    BY <2>1, RefusedIsNotCommitted
  <2>. QED BY <1>0, <2>1, <2>2 DEF InHand, DispatchSteps, ClaimlessSteps, OwningSteps
<1>5. CASE NothingDue(s)
  <2>1. pc'[s] \in {"heartbeat", "status"} /\ mem'[s] = mem[s]
    BY <1>0, <1>5 DEF NothingDue, Goto
  <2>. QED BY <1>0, <2>1 DEF InHand, DispatchSteps, ClaimlessSteps, OwningSteps
<1>6. CASE Resume(s)
  <2>1. /\ pc'[s] = "apply" /\ mem'[s].then = mem[s].then
        /\ mem'[s].claim = mem[s].intent.claim /\ mem'[s].intent = mem[s].intent
    BY <1>0, <1>6 DEF Resume, Goto, Memory
  <2>. QED BY <1>0, <2>1 DEF InHand, DispatchSteps, ClaimlessSteps, OwningSteps
<1>7. CASE Heartbeat(s)
  <2>1. \/ pc'[s] = "heartbeat_gate" /\ mem'[s].then = mem[s].then /\ mem'[s].claim = None
        \/ pc'[s] = "status" /\ mem'[s].then = "since"
    BY <1>0, <1>7 DEF Heartbeat, Goto, Memory
  <2>. QED BY <1>0, <2>1 DEF InHand, DispatchSteps, ClaimlessSteps, OwningSteps
<1>8. CASE HeartbeatGate(s)
  <2>1. \/ pc'[s] = "stage_heartbeat" /\ mem'[s] = mem[s] /\ mem[s].claim = None
        \/ pc'[s] = "status" /\ mem'[s].then = "since"
    BY <1>0, <1>8 DEF HeartbeatGate, Goto, Memory, InHand, ClaimlessSteps
  <2>. QED BY <1>0, <2>1 DEF InHand, DispatchSteps, ClaimlessSteps, OwningSteps
<1>9. CASE ReadStatus(s)
  <2>1. mem[s].then \in {"heartbeat", "since", "schedule"}
    BY <1>0, <1>9 DEF ReadStatus, InHand, Consistent, Memory, Continuations
  <2>2. pc'[s] = mem[s].then /\ mem'[s].then = mem[s].then /\ mem'[s].claim = None
    BY <1>0, <1>9, <2>1 DEF ReadStatus, Goto, Memory
  <2>. QED BY <2>1, <2>2 DEF InHand, DispatchSteps, ClaimlessSteps, OwningSteps
<1>10. CASE ReadSince(s)
  <2>1. pc[s] = "since" /\ pc'[s] = "schedule"
        /\ mem'[s].then = mem[s].then /\ mem'[s].claim = mem[s].claim
    BY <1>0, <1>10 DEF ReadSince, Goto, Memory
  <2>. QED BY <1>0, <2>1 DEF InHand, DispatchSteps, ClaimlessSteps, OwningSteps
<1>11. CASE Schedule(s)
  <2>1. pc[s] = "schedule" /\ pc'[s] = "schedule_gate"
        /\ mem'[s].then = mem[s].then /\ mem'[s].claim = mem[s].claim
    BY <1>0, <1>11 DEF Schedule, Goto, Memory
  <2>. QED BY <1>0, <2>1 DEF InHand, DispatchSteps, ClaimlessSteps, OwningSteps
<1>12. CASE ScheduleGate(s)
  <2>1. pc[s] = "schedule_gate" /\ pc'[s] = "stage_occurrence" /\ mem'[s] = mem[s]
    BY <1>0, <1>12 DEF ScheduleGate, Goto
  <2>. QED BY <1>0, <2>1 DEF InHand, DispatchSteps, ClaimlessSteps, OwningSteps
<1>13. ~ReadLog(s) /\ ~ReplayIntent(s)
  BY <1>0 DEF ReadLog, ReplayIntent, InHand
<1>14. Refuse(s) \/ Crash(s) \/ SubmitRefused(s) \/ EndSchedule(s) \/ EndReplay(s)
         \/ ActivateRefused(s) \/ DeployRefused(s) => Close(s)
  BY DEF Refuse, StaleRevision, StageConflict, LeaseConflict, Crash, SubmitRefused,
         EndSchedule, EndReplay, ActivateRefused, DeployRefused
<1>15. CASE SubmitAdmitted(s)
  <2>1. pc'[s] \in {"conflict", "predecessor", "insert"} /\ mem'[s] = mem[s]
    BY <1>0, <1>15 DEF SubmitAdmitted, Goto
  <2>. QED BY <1>0, <2>1 DEF InHand, DispatchSteps, ClaimlessSteps, OwningSteps
<1>. HIDE DEF Goal
<1>. QED
  BY <1>1, <1>2, <1>3, <1>4, <1>5, <1>6, <1>7, <1>8, <1>9, <1>10, <1>11, <1>12, <1>13, <1>14,
     <1>15
  DEF Reads

\* A move of the attempt in hand.
LEMMA MovedInHand ==
    ASSUME InductiveInvariant, AttemptInvariant, NEW s \in Sessions,
           NEW state \in AttemptState, Moved(s, state)
    PROVE  AttemptsAgree' /\ InHand(pc[s], mem[s])'
<1>0. /\ pc \in [Sessions -> Steps] /\ mem \in [Sessions -> Memory] /\ mem[s] \in Memory
      /\ InHand(pc[s], mem[s]) /\ Consistent(pc[s], mem[s])
  BY Types DEF InductiveInvariant, TypeOK, AttemptInvariant
<1>1. /\ Expected(s) = stream.state_revision
      /\ UNCHANGED <<intents, applied>>
      /\ PutAttempt(mem[s].claim, state)
      /\ pc[s] \in (OwningSteps \ {"stage"}) \cup {"applied", "refused"}
  BY MovedWrites
<1>2. /\ mem[s].claim \in Claims \cup {None}
      /\ mem[s].claim = None => attempt' = attempt
      /\ mem[s].claim # None => mem[s].claim \in Claims /\ attempt'[mem[s].claim] = state
      /\ \A d \in Claims : d # mem[s].claim => attempt'[d] = attempt[d]
  BY <1>0, <1>1, PutAttemptWrites DEF Memory
<1>3. pc[s] \in OwningSteps => mem[s].claim \in Claims /\ ~Staged(mem[s].claim)
  BY <1>0, <1>1 DEF Consistent, Expected
<1>4. AttemptsAgree'
  <2>1. ASSUME NEW c \in Claims, Staged(c) PROVE attempt'[c] \in PostIntent \cup {"committed"}
    <3>1. CASE c # mem[s].claim \/ mem[s].claim = None
      BY <1>2, <2>1, <3>1 DEF AttemptInvariant, AttemptsAgree
    <3>2. CASE c = mem[s].claim /\ mem[s].claim # None
      <4>1. pc[s] \in {"applied", "refused"}
        BY <1>1, <1>3, <2>1, <3>2
      <4>2. state \in {"committed", "commit_blocked"}
        BY <4>1 DEF Moved, Prepare, Materialize, Validate, FailAttempt, BeginCommit,
           CommitAttempt, BlockAttempt, Transition
      <4>. QED BY <1>2, <3>2, <4>2 DEF PostIntent
    <3>. QED BY <3>1, <3>2
  <2>2. ASSUME NEW c \in Claims, attempt'[c] = "committed" PROVE Published(c)
    <3>1. CASE c # mem[s].claim \/ mem[s].claim = None
      BY <1>2, <2>2, <3>1 DEF AttemptInvariant, AttemptsAgree
    <3>2. CASE c = mem[s].claim /\ mem[s].claim # None
      <4>1. state = "committed"
        BY <1>2, <2>2, <3>2
      <4>2. pc[s] = "applied"
        BY <4>1 DEF Moved, CommitAttempt, Transition
      <4>. QED BY <1>0, <3>2, <4>2, DispatchedIsStaged DEF DispatchSteps
    <3>. QED BY <3>1, <3>2
  <2>. QED BY <1>1, <2>1, <2>2 DEF AttemptsAgree, Staged, Published
<1>5. InHand(pc[s], mem[s])'
  <2>1. ASSUME NEW from \in OwningSteps \ {"stage"}, Transition(s, from, state, state),
               state \in {"preparing", "materializing", "validating"}
        PROVE  InHand(pc[s], mem[s])'
    <3>1. /\ pc[s] \in OwningSteps /\ pc'[s] = state
          /\ mem'[s].claim = mem[s].claim /\ mem'[s].then = mem[s].then
      BY <1>0, <2>1 DEF Transition, Goto, Memory
    <3>. QED BY <1>0, <1>2, <1>3, <2>1, <3>1, NoneIsNoValue
             DEF InHand, DispatchSteps, ClaimlessSteps, OwningSteps
  <2>2. CASE FailAttempt(s)
    BY <2>2, ClosedInHand DEF FailAttempt
  <2>3. CASE BeginCommit(s) /\ state = "committing"
    <3>1. /\ pc[s] = "validating" /\ pc'[s] = "stage"
      BY <1>0, <2>3 DEF BeginCommit, Goto
    <3>2. mem'[s].claim = mem[s].claim /\ mem'[s].then = mem[s].then
      BY <1>0, <2>3 DEF BeginCommit, Memory
    <3>. QED BY <1>0, <1>2, <1>3, <2>3, <3>1, <3>2, NoneIsNoValue
             DEF InHand, DispatchSteps, ClaimlessSteps, OwningSteps
  <2>4. CASE CommitAttempt(s) /\ state = "committed"
    <3>1. /\ pc[s] = "applied" /\ pc'[s] = "settle" /\ mem'[s].intent = mem[s].intent
          /\ mem'[s].claim = mem[s].claim /\ mem'[s].then = mem[s].then
      BY <1>0, <2>4 DEF CommitAttempt, Transition, Goto, Memory
    <3>. QED BY <1>0, <1>2, <2>4, <3>1 DEF InHand, DispatchSteps, ClaimlessSteps, OwningSteps
  <2>5. CASE BlockAttempt(s) /\ state = "commit_blocked"
    <3>1. /\ pc[s] = "refused" /\ pc'[s] = "fail" /\ mem'[s].intent = mem[s].intent
          /\ mem'[s].claim = mem[s].claim /\ mem'[s].then = mem[s].then
      BY <1>0, <2>5 DEF BlockAttempt, Transition, Goto, Memory
    <3>. QED BY <1>0, <1>2, <2>5, <3>1 DEF InHand, DispatchSteps, ClaimlessSteps, OwningSteps
  <2>6. /\ Prepare(s) => Transition(s, "received", "preparing", "preparing")
        /\ Materialize(s) => Transition(s, "preparing", "materializing", "materializing")
        /\ Validate(s) => Transition(s, "materializing", "validating", "validating")
        /\ {"received", "preparing", "materializing"} \subseteq OwningSteps \ {"stage"}
    BY DEF Prepare, Materialize, Validate, OwningSteps
  <2>. QED BY <2>1, <2>2, <2>3, <2>4, <2>5, <2>6 DEF Moved
<1>. QED BY <1>4, <1>5

\* A transaction that carries the attempt in hand along.
LEMMA CarriedInHand ==
    ASSUME InductiveInvariant, AttemptInvariant, NEW s \in Sessions,
           NEW state \in AttemptState, Carried(s, state)
    PROVE  AttemptsAgree' /\ InHand(pc[s], mem[s])'
<1>0. /\ pc \in [Sessions -> Steps] /\ mem \in [Sessions -> Memory] /\ mem[s] \in Memory
      /\ InHand(pc[s], mem[s]) /\ Consistent(pc[s], mem[s])
      /\ attempt' = attempt /\ applied' = applied
  BY Types, CarriedKeeps, CarriedWrites DEF InductiveInvariant, TypeOK, AttemptInvariant
<1>1. CASE StagePublication(s)
  <2>1. /\ pc[s] = "stage" /\ Expected(s) = stream.state_revision
        /\ Enqueue(mem[s].intent)
        /\ pc'[s] = "apply" /\ mem'[s].claim = mem[s].claim
        /\ mem'[s].then = mem[s].then /\ mem'[s].intent = mem[s].intent
    BY <1>0, <1>1 DEF StagePublication, StageIntent, CheckRevision, Goto, Memory
  <2>2. /\ mem[s].claim = mem[s].intent.claim /\ mem[s].claim \in Claims
        /\ attempt[mem[s].claim] = "committing"
    BY <1>0, <2>1 DEF InHand, Consistent, OwningSteps, Expected
  <2>3. intents \in Seq(Intent) /\ mem[s].intent \in Intent
    BY <1>0, <2>1 DEF Consistent, InductiveInvariant, TypeOK, StoreTypeOK
  <2>4. \A c \in Claims : Staged(c)' => Staged(c) \/ c = mem[s].claim
    <3>1. CASE intents' = Append(intents, mem[s].intent)
      BY <2>2, <2>3, <3>1 DEF Staged
    <3>2. CASE intents' = intents
      BY <3>2 DEF Staged
    <3>. QED BY <2>1, <3>1, <3>2 DEF Enqueue
  <2>5. AttemptsAgree'
    BY <1>0, <2>2, <2>4 DEF AttemptInvariant, AttemptsAgree, Published, PostIntent
  <2>. QED BY <1>0, <2>1, <2>2, <2>5 DEF InHand, DispatchSteps, ClaimlessSteps, OwningSteps
<1>2. CASE Settle(s) \/ GiveBack(s)
  <2>1. AttemptsAgree'
    BY <1>0, <1>2, AgreeAlone DEF Settle, CompleteOutbox, GiveBack, FailOutbox
  <2>2. CASE Close(s)
    BY <2>1, <2>2, ClosedInHand
  <2>3. CASE ~Close(s)
    <3>1. pc'[s] \in {"heartbeat", "status"} /\ mem'[s] = mem[s]
      BY <1>0, <1>2, <2>3 DEF Settle, GiveBack, Continue, Goto
    <3>. QED BY <1>0, <2>1, <3>1 DEF InHand, DispatchSteps, ClaimlessSteps, OwningSteps
  <2>. QED BY <2>2, <2>3
<1>. QED BY <1>1, <1>2 DEF Carried

\* The first attempt of a claim.
LEMMA SubmitInHand ==
    ASSUME InductiveInvariant, AttemptInvariant, NEW s \in Sessions, SubmitManaged(s)
    PROVE  AttemptsAgree' /\ InHand(pc[s], mem[s])'
<1>0. /\ pc \in [Sessions -> Steps] /\ mem \in [Sessions -> Memory] /\ mem[s] \in Memory
      /\ InHand(pc[s], mem[s]) /\ intents \in Seq(Intent)
  BY Types DEF InductiveInvariant, TypeOK, AttemptInvariant, SubmitManaged
<1>1. /\ mem[s].claim \in Claims /\ attempt[mem[s].claim] = "absent"
      /\ PutAttempt(mem[s].claim, "received") /\ UNCHANGED <<intents, applied>>
      /\ pc'[s] = "received" /\ mem'[s].claim = mem[s].claim /\ mem'[s].then = mem[s].then
  BY <1>0, InsertedIsNew DEF SubmitManaged, InsertAttempt, Goto, Memory, Accepted
<1>2. /\ attempt'[mem[s].claim] = "received"
      /\ \A d \in Claims : d # mem[s].claim => attempt'[d] = attempt[d]
  BY <1>1, NoneIsNoValue, PutAttemptWrites
<1>3. ~Staged(mem[s].claim)
  <2>1. mem[s].claim # None
    BY <1>1, NoneIsNoValue
  <2>. QED BY <1>1, <2>1 DEF Staged, InductiveInvariant, TablesAgree, Accepted
<1>4. AttemptsAgree'
  <2>1. ASSUME NEW c \in Claims, Staged(c) PROVE attempt'[c] \in PostIntent \cup {"committed"}
    BY <1>2, <1>3, <2>1 DEF AttemptInvariant, AttemptsAgree
  <2>2. ASSUME NEW c \in Claims, attempt'[c] = "committed" PROVE Published(c)
    BY <1>2, <2>2 DEF AttemptInvariant, AttemptsAgree
  <2>. QED BY <1>1, <2>1, <2>2 DEF AttemptsAgree, Staged, Published
<1>. QED BY <1>0, <1>1, <1>2, <1>4 DEF InHand, DispatchSteps, ClaimlessSteps, OwningSteps

\* The target applies the publication in hand.
LEMMA AppliedInHand ==
    ASSUME InductiveInvariant, AttemptInvariant, NEW s \in Sessions, ApplyIntent(s)
    PROVE  AttemptsAgree' /\ InHand(pc[s], mem[s])'
<1>0. /\ pc \in [Sessions -> Steps] /\ mem \in [Sessions -> Memory] /\ mem[s] \in Memory
      /\ InHand(pc[s], mem[s]) /\ applied \in Seq(Intent)
      /\ attempt' = attempt /\ intents' = intents /\ stream' = stream
  BY Types DEF InductiveInvariant, TypeOK, AttemptInvariant, ApplyIntent, storeVars
<1>1. /\ pc[s] = "apply" /\ mem'[s] = mem[s] /\ ApplyGapOrdered(mem[s].intent)
      /\ pc'[s] = IF mem[s].claim = None THEN "settle" ELSE "applied"
  BY <1>0 DEF ApplyIntent, Goto
<1>2. \A c \in Claims : Published(c) => Published(c)'
  <2>1. mem[s].intent \in Intent
    BY <1>1, Types DEF Consistent, StagedSteps
  <2>. QED BY <1>0, <1>1, <2>1 DEF ApplyGapOrdered, Published
<1>3. AttemptsAgree'
  BY <1>0, <1>2 DEF AttemptInvariant, AttemptsAgree, Staged
<1>. QED BY <1>0, <1>1, <1>3 DEF InHand, DispatchSteps, ClaimlessSteps, OwningSteps

\* A lease, and the staging of an intent that belongs to no attempt.
LEMMA LeasedInHand ==
    ASSUME InductiveInvariant, AttemptInvariant, NEW s \in Sessions, Lease(s)
    PROVE  AttemptsAgree' /\ InHand(pc[s], mem[s])'
<1>0. /\ pc \in [Sessions -> Steps] /\ mem \in [Sessions -> Memory] /\ mem[s] \in Memory
      /\ InHand(pc[s], mem[s])
  BY Types DEF InductiveInvariant, TypeOK, AttemptInvariant
<1>1. /\ UNCHANGED <<attempt, intents, applied>> /\ pc'[s] = "resume"
      /\ \E i, d : mem' = [mem EXCEPT ![s].intent = i, ![s].dispatch = d]
  BY <1>0 DEF Lease, LeaseOutbox, Goto
<1>2. mem'[s].then = mem[s].then
  BY <1>0, <1>1 DEF Memory
<1>. QED
  BY <1>0, <1>1, <1>2, AgreeAlone DEF InHand, DispatchSteps, ClaimlessSteps, OwningSteps

LEMMA ScheduledInHand ==
    ASSUME InductiveInvariant, AttemptInvariant, NEW s \in Sessions,
           StageHeartbeat(s) \/ StageOccurrence(s)
    PROVE  AttemptsAgree' /\ InHand(pc[s], mem[s])'
<1>0. /\ pc \in [Sessions -> Steps] /\ mem \in [Sessions -> Memory] /\ mem[s] \in Memory
      /\ InHand(pc[s], mem[s]) /\ intents \in Seq(Intent)
      /\ UNCHANGED <<attempt, applied>>
  BY Types, ScheduledWrites DEF InductiveInvariant, TypeOK, AttemptInvariant
<1>1. mem[s].claim = None
  BY <1>0 DEF StageHeartbeat, StageOccurrence, InHand, ClaimlessSteps
<1>2. PICK i, due, then :
        /\ StageScheduled(s, i, then, due) /\ then \in {"since", "schedule"}
        /\ i.claim = None
  BY DEF StageHeartbeat, StageOccurrence, BuildIntent
<1>3. PICK h : h = Reserve(Held(s), i)
  OBVIOUS
<1>4. /\ Enqueue(i) /\ pc' = [pc EXCEPT ![s] = "apply"]
      /\ mem' = [mem EXCEPT ![s].stream = h, ![s].intent = i,
                            ![s].dispatch = 1, ![s].then = then, ![s].due = due]
  BY <1>2, <1>3 DEF StageScheduled, StageIntent, Goto
<1>5. /\ pc'[s] = "apply" /\ mem'[s].then = then /\ mem'[s].intent = i
      /\ mem'[s].claim = mem[s].claim
  BY <1>0, <1>4 DEF Memory
<1>6. \A c \in Claims : Staged(c)' => Staged(c)
  <2>1. CASE intents' = Append(intents, i)
    <3> SUFFICES ASSUME NEW c \in Claims, NEW r \in 1..Len(intents'), intents'[r].claim = c
                 PROVE  Staged(c)
      BY DEF Staged
    <3>1. (r \in 1..Len(intents) /\ intents'[r] = intents[r]) \/ intents'[r] = i
      BY <1>0, <2>1
    <3>2. intents'[r] # i
      BY <1>2, NoneIsNoValue
    <3>. QED BY <3>1, <3>2 DEF Staged
  <2>2. CASE intents' = intents
    BY <2>2 DEF Staged
  <2>. QED BY <1>4, <2>1, <2>2 DEF Enqueue
<1>7. AttemptsAgree'
  BY <1>0, <1>6 DEF AttemptInvariant, AttemptsAgree, Published
<1>. QED
  BY <1>1, <1>2, <1>5, <1>7 DEF InHand, DispatchSteps, ClaimlessSteps, OwningSteps

\* Contract and deployment transitions fence only attempts that are not staged.
LEMMA AdministeredInHand ==
    ASSUME InductiveInvariant, AttemptInvariant, NEW s \in Sessions,
           Register(s) \/ Activate(s) \/ DeployRegister(s) \/ DeployActivate(s)
    PROVE  AttemptsAgree' /\ InHand(pc[s], mem[s])'
<1>0. /\ pc \in [Sessions -> Steps] /\ mem \in [Sessions -> Memory] /\ mem[s] \in Memory
      /\ InHand(pc[s], mem[s]) /\ attempt \in [Claims -> AttemptState \cup {"absent"}]
  BY Types DEF InductiveInvariant, TypeOK, StoreTypeOK, AttemptInvariant
<1>1. /\ UNCHANGED <<intents, applied>>
      /\ attempt' = attempt \/ FenceAttempts
  BY DEF Register, RegisterContract, Activate, ActivateContract, DeployRegister,
         RegisterDeployment, DeployActivate, ActivateDeployment
<1>2. AttemptsAgree'
  <2>1. \A c \in Claims : attempt[c] \in PostIntent \cup {"committed"} => attempt'[c] = attempt[c]
    BY <1>1 DEF FenceAttempts, PreIntent, PostIntent
  <2>2. \A c \in Claims : attempt'[c] = "committed" => attempt[c] = "committed"
    BY <1>1 DEF FenceAttempts
  <2>. QED BY <1>1, <2>1, <2>2 DEF AttemptInvariant, AttemptsAgree, Staged, Published
<1>3. CASE Close(s)
  BY <1>2, <1>3, ClosedInHand
<1>4. CASE ~Close(s)
  <2>1. Register(s)
    BY <1>4 DEF Activate, DeployRegister, DeployActivate
  <2>2. pc'[s] = "activate" /\ mem'[s].then = mem[s].then
    BY <1>0, <1>4, <2>1 DEF Register, Goto, Memory
  <2>. QED BY <1>0, <1>2, <2>2 DEF InHand, DispatchSteps, ClaimlessSteps, OwningSteps
<1>. QED BY <1>3, <1>4

LEMMA AttemptsStep ==
    ASSUME InductiveInvariant, EpochInvariant, AttemptInvariant,
           "reconcile" \notin Commands, [Next]_vars
    PROVE  AttemptInvariant'
<1>0. stream.state_revision \in Nat /\ stream'.state_revision \in Nat
  <2>1. InductiveInvariant'
    BY NextPreserves
  <2>. QED BY <2>1 DEF InductiveInvariant, TypeOK, StoreTypeOK, StreamState
<1>1. ASSUME NEW s \in Sessions,
             \/ Reads(s) \/ SubmitManaged(s) \/ ApplyIntent(s) \/ Lease(s)
             \/ StageHeartbeat(s) \/ StageOccurrence(s)
             \/ \E state \in AttemptState : Moved(s, state) \/ Carried(s, state)
             \/ Register(s) \/ Activate(s) \/ DeployRegister(s) \/ DeployActivate(s)
      PROVE  AttemptInvariant'
  <2>1. \A t \in Sessions \ {s} : pc'[t] = pc[t] /\ mem'[t] = mem[t]
    BY <1>1, StreamInHand
  <2>2. AttemptsAgree' /\ InHand(pc[s], mem[s])'
    <3>1. CASE Reads(s)
      BY <3>1, ReadsInHand, ReadsWriteNothing, AgreeAlone
    <3>2. CASE \E state \in AttemptState : Moved(s, state) \/ Carried(s, state)
      BY <3>2, MovedInHand, CarriedInHand
    <3>. QED BY <1>1, <3>1, <3>2, SubmitInHand, AppliedInHand, LeasedInHand, ScheduledInHand,
                AdministeredInHand
  <2>3. \/ stream'.state_revision = stream.state_revision /\ attempt' = attempt
        \/ stream'.state_revision > stream.state_revision
    <3>1. CASE \E state \in AttemptState : Moved(s, state) \/ Carried(s, state)
      BY <1>0, <3>1, MovedWrites, CarriedWrites, CarriedKeeps
    <3>2. CASE SubmitManaged(s)
      <4>1. stream' = Bumped(Held(s)) /\ Expected(s) = stream.state_revision
        BY <3>2 DEF SubmitManaged, InsertAttempt, CheckRevision
      <4>. QED BY <1>0, <4>1, HeldStream
    <3>3. CASE Register(s) \/ Activate(s) \/ DeployRegister(s) \/ DeployActivate(s)
      <4>1. stream \in StreamState
        BY DEF InductiveInvariant, TypeOK, StoreTypeOK
      <4>2. stream'.state_revision = stream.state_revision + 1
        BY <3>3, <4>1 DEF Register, RegisterContract, Activate, ActivateContract,
           DeployRegister, RegisterDeployment, DeployActivate, ActivateDeployment, StreamState
      <4>. QED BY <1>0, <4>2
    <3>4. CASE Reads(s) \/ ApplyIntent(s) \/ Lease(s)
      BY <3>4, ReadsWriteNothing DEF ApplyIntent, Lease, LeaseOutbox, storeVars
    <3>. QED BY <1>1, <3>1, <3>2, <3>3, <3>4, ScheduledWrites
  <2>. QED BY <1>0, <2>1, <2>2, <2>3, AttemptStep
<1>2. ASSUME (\E r \in 1..Len(outbox) : ExpireLease(r)) \/ PassBoundary \/ UNCHANGED vars
      PROVE  AttemptInvariant'
  <2>1. UNCHANGED <<stream, attempt, intents, applied, pc, mem>>
    BY <1>2 DEF ExpireLease, LeaseExpires, PassBoundary, sessionVars, vars, storeVars
  <2>. QED BY <2>1, AgreeAlone DEF AttemptInvariant, InHand
<1>. QED BY <1>1, <1>2, StepKinds

LEMMA AttemptsInit ==
    ASSUME Init
    PROVE  AttemptInvariant
<1>1. \A c \in Claims : ~Staged(c) /\ attempt[c] = "absent"
  <2>1. intents = <<>> /\ attempt = [c \in Claims |-> "absent"]
    BY DEF Init
  <2>2. 1..Len(intents) = {}
    BY <2>1
  <2>. QED BY <2>1, <2>2 DEF Staged
<1>2. \A s \in Sessions : pc[s] = "idle" /\ mem[s].then = "done"
  BY DEF Init, NoMemory
<1>. QED
  BY <1>1, <1>2 DEF AttemptInvariant, AttemptsAgree, InHand, DispatchSteps, ClaimlessSteps,
                    OwningSteps

\* What the theorems below rest on, in one inductive invariant: it needs the
\* sessions' claims to be those of their intents, which reconcile breaks when it
\* replays an intent for the latest attempt.
THEOREM AttemptInvariantHolds ==
    ASSUME "reconcile" \notin Commands
    PROVE  Spec => [](EpochInvariant /\ AttemptInvariant)
<1>1. Init => EpochInvariant /\ AttemptInvariant
  BY AttemptsInit DEF Init, EpochInvariant, InEpoch, NoMemory, EmptyStream
<1>2. InductiveInvariant /\ (EpochInvariant /\ AttemptInvariant) /\ [Next]_vars
        => (EpochInvariant /\ AttemptInvariant)'
  BY EpochStep, AttemptsStep
<1>3. Spec => [](EpochInvariant /\ AttemptInvariant)
  BY <1>1, <1>2, InvariantHolds, PTL DEF Spec
<1>. QED BY <1>3

\* Where no session reconciles, an attempt the store reports as committed is
\* one consumers can read: _apply_outbox_intent commits an attempt only after
\* the target's confirmation of that attempt's own intent.
THEOREM CommittedAttemptsAreVisible ==
    ASSUME "reconcile" \notin Commands
    PROVE  Spec => []CommittedIsVisible
<1>1. AttemptInvariant => CommittedIsVisible
  BY DEF AttemptInvariant, AttemptsAgree, CommittedIsVisible
<1>. QED BY <1>1, AttemptInvariantHolds, PTL

\* Where no session reconciles, a delivery reported as failed was never staged:
\* fail_attempt and _fence_attempts fail only an attempt before its intent.
THEOREM FailedAttemptsAreInvisible ==
    ASSUME "reconcile" \notin Commands
    PROVE  Spec => []FailedIsInvisible
<1>1. AttemptInvariant => FailedIsInvisible
  BY DEF AttemptInvariant, AttemptsAgree, FailedIsInvisible, Staged, PostIntent
<1>. QED BY <1>1, AttemptInvariantHolds, PTL

\* Where no session reconciles, a terminal attempt is final: every session
\* that still holds it is stale, or writes what is there.
THEOREM TerminalAttemptsAreFinal ==
    ASSUME "reconcile" \notin Commands
    PROVE  Spec => TerminalIsFinal
<1>1. InductiveInvariant /\ AttemptInvariant /\ [Next]_vars =>
        [\A c \in Claims : attempt[c] \in Terminal => attempt'[c] = attempt[c]]_vars
  BY TerminalStep
<1>. QED BY <1>1, InvariantHolds, AttemptInvariantHolds, PTL DEF Spec, TerminalIsFinal

\* Where no session reconciles, an activation that opens a visibility epoch
\* finds every delivery staged before it at the target: _fence_attempts refuses
\* while an attempt is past its intent and not committed.
THEOREM EpochsOpenQuietly ==
    ASSUME "reconcile" \notin Commands
    PROVE  Spec => EpochOpensQuietly
<1>1. InductiveInvariant /\ EpochInvariant /\ AttemptInvariant /\ [Next]_vars =>
        [stream'.visibility_epoch # stream.visibility_epoch =>
           \A r \in 1..Len(intents) :
              intents[r].claim # None => Published(intents[r].claim)]_vars
  BY EpochOpens
<1>. QED BY <1>1, InvariantHolds, AttemptInvariantHolds, PTL DEF Spec, EpochOpensQuietly

-----------------------------------------------------------------------------
(* The local platform *)

\* One process holds the DuckDB file.
OneSession == \A s, t \in Sessions : s = t

-----------------------------------------------------------------------------
(* Revisions and progress *)

\* The steps at which the session has read the stream, or written it, since
\* it took its last intent in hand.
HoldingSteps == Steps \ {"idle", "lease", "resume", "heartbeat", "status"}

\* A single session holds the stream as it is, so the revision it stages is
\* the next one and the progress it writes back is the progress in force.
StreamInvariant ==
    /\ RequiredIsLastStaged
    /\ ProgressIsLastDelivery
    /\ \A s \in Sessions :
         /\ pc[s] \in HoldingSteps => mem[s].stream = stream
         /\ pc[s] = "stage" => mem[s].intent.projection_revision = Len(intents) + 1

\* After a read the session holds what it held or the stream.
LEMMA ReadsHold ==
    ASSUME InductiveInvariant, NEW s \in Sessions, Reads(s), pc'[s] \in HoldingSteps
    PROVE  mem'[s].stream = stream \/ (pc[s] \in HoldingSteps /\ mem'[s].stream = mem[s].stream)
<1> DEFINE Goal ==
      mem'[s].stream = stream \/ (pc[s] \in HoldingSteps /\ mem'[s].stream = mem[s].stream)
<1> SUFFICES Goal
  OBVIOUS
<1>0. pc \in [Sessions -> Steps] /\ mem \in [Sessions -> Memory] /\ mem[s] \in Memory
  BY Types DEF InductiveInvariant, TypeOK
<1>1. ~Close(s)
  BY <1>0 DEF Close, HoldingSteps
<1>2. CASE Start(s)
  <2>1. ASSUME NEW c \in Claims, NEW k \in Contracts, IngestFile(s, c, k) PROVE Goal
    BY <1>0, <2>1 DEF IngestFile, NoMemory
  <2>2. ASSUME NEW k \in Contracts, IngestDue(s, k) \/ Reconcile(s, k) PROVE Goal
    BY <1>0, <2>2 DEF IngestDue, Reconcile, Goto, HoldingSteps
  <2>3. ASSUME NEW k \in Contracts, NEW g \in Migration, ContractCommand(s, k, g) PROVE Goal
    BY <1>0, <2>3 DEF ContractCommand, NoMemory
  <2>4. ASSUME NEW k \in Contracts, NEW step \in {"deploy_register", "deploy_activate"},
               DeploymentCommand(s, k, step)
        PROVE  Goal
    BY <1>0, <2>4 DEF DeploymentCommand, NoMemory
  <2>. HIDE DEF Goal
  <2>. QED BY <1>2, <2>1, <2>2, <2>3, <2>4 DEF Start
<1>3. CASE SubmitAdmitted(s) \/ SubmitReplay(s) \/ ApplyOutOfOrder(s) \/ TargetUnavailable(s)
             \/ ScheduleGate(s)
  BY <1>0, <1>3 DEF SubmitAdmitted, SubmitReplay, ApplyOutOfOrder, TargetUnavailable,
     ScheduleGate, HoldingSteps, Steps
<1>4. CASE NothingDue(s)
  BY <1>0, <1>4 DEF NothingDue, Goto, HoldingSteps
<1>5. CASE Resume(s) \/ ReadStatus(s)
  BY <1>0, <1>5 DEF Resume, ReadStatus, Memory
<1>6. CASE Heartbeat(s)
  BY <1>0, <1>6 DEF Heartbeat, Goto, Memory, HoldingSteps
<1>7. CASE HeartbeatGate(s)
  BY <1>0, <1>7 DEF HeartbeatGate, Goto, Memory, HoldingSteps, Steps
<1>8. CASE ReadSince(s) \/ Schedule(s)
  BY <1>0, <1>8 DEF ReadSince, Schedule, Memory, HoldingSteps, Steps
<1>9. CASE ReadLog(s) \/ ReplayIntent(s)
  <2>1. pc[s] \in {"log", "replay"}
    BY <1>9 DEF ReadLog, ReplayIntent
  <2>2. CASE ReadLog(s)
    BY <1>0, <2>2 DEF ReadLog, Memory, HoldingSteps, Steps
  <2>3. CASE ReplayIntent(s)
    <3>1. PICK r \in mem[s].log :
            mem' = [mem EXCEPT ![s].intent = intents[r], ![s].log = @ \ {r}, ![s].dispatch = 1]
      BY <2>3 DEF ReplayIntent
    <3>2. mem'[s].stream = mem[s].stream
      BY <1>0, <3>1 DEF Memory
    <3>. QED BY <2>1, <3>2 DEF HoldingSteps, Steps
  <2>. QED BY <1>9, <2>2, <2>3
<1>10. Refuse(s) \/ Crash(s) \/ SubmitRefused(s) \/ EndSchedule(s) \/ EndReplay(s)
         \/ ActivateRefused(s) \/ DeployRefused(s) => Close(s)
  BY DEF Refuse, StaleRevision, StageConflict, LeaseConflict, Crash, SubmitRefused,
         EndSchedule, EndReplay, ActivateRefused, DeployRefused
<1>. HIDE DEF Goal
<1>. QED
  BY <1>1, <1>2, <1>3, <1>4, <1>5, <1>6, <1>7, <1>8, <1>9, <1>10 DEF Reads

\* After a transaction the session holds the stream it has written.
LEMMA WritesHold ==
    ASSUME InductiveInvariant, StreamInvariant, NEW s \in Sessions,
           \/ SubmitManaged(s) \/ ApplyIntent(s) \/ Lease(s)
           \/ StageHeartbeat(s) \/ StageOccurrence(s)
           \/ \E state \in AttemptState : Moved(s, state) \/ Carried(s, state)
           \/ Register(s) \/ Activate(s) \/ DeployRegister(s) \/ DeployActivate(s),
           pc'[s] \in HoldingSteps
    PROVE  mem'[s].stream = stream'
<1>0. pc \in [Sessions -> Steps] /\ mem \in [Sessions -> Memory] /\ mem[s] \in Memory
      /\ (pc[s] \in HoldingSteps => mem[s].stream = stream)
  BY Types DEF InductiveInvariant, TypeOK, StreamInvariant
<1>1. ~Close(s)
  BY <1>0 DEF Close, HoldingSteps
<1>2. CASE SubmitManaged(s) \/ Prepare(s) \/ Materialize(s) \/ Validate(s) \/ CommitAttempt(s)
             \/ BlockAttempt(s)
  BY <1>0, <1>2 DEF SubmitManaged, InsertAttempt, Prepare, Materialize, Validate,
     CommitAttempt, BlockAttempt, Transition, SaveAttempt, Memory, Held
<1>3. CASE BeginCommit(s)
  BY <1>0, <1>3 DEF BeginCommit, SaveAttempt, Memory, Held
<1>4. CASE StagePublication(s)
  <2>1. PICK m : m = [mem[s] EXCEPT !.stream = stream', !.dispatch = 1]
    OBVIOUS
  <2>2. mem' = [mem EXCEPT ![s] = m] /\ m.stream = stream'
    BY <1>0, <1>4, <2>1 DEF StagePublication, StageIntent, Memory
  <2>. QED BY <1>0, <2>2
<1>5. CASE StageHeartbeat(s) \/ StageOccurrence(s)
  <2>1. ASSUME NEW i, NEW n, NEW d, StageScheduled(s, i, n, d) PROVE mem'[s].stream = stream'
    <3>1. PICK h : h = Reserve(Held(s), i)
      OBVIOUS
    <3>2. /\ stream' = h
          /\ mem' = [mem EXCEPT ![s].stream = h, ![s].intent = i,
                                ![s].dispatch = 1, ![s].then = n, ![s].due = d]
      BY <2>1, <3>1 DEF StageScheduled, StageIntent
    <3>. QED BY <1>0, <3>2 DEF Memory
  <2>. QED BY <1>5, <2>1 DEF StageHeartbeat, StageOccurrence
<1>6. CASE Settle(s) \/ GiveBack(s)
  BY <1>0, <1>1, <1>6 DEF Settle, GiveBack, Continue, Goto, HoldingSteps
<1>7. CASE Register(s)
  BY <1>0, <1>1, <1>7 DEF Register, Memory
<1>8. CASE ApplyIntent(s)
  BY <1>0, <1>8 DEF ApplyIntent, storeVars, HoldingSteps
<1>9. CASE Lease(s)
  BY <1>0, <1>9 DEF Lease, Goto, HoldingSteps
<1>10. FailAttempt(s) \/ Activate(s) \/ DeployRegister(s) \/ DeployActivate(s) => Close(s)
  BY DEF FailAttempt, Activate, DeployRegister, DeployActivate
<1>11. CASE \E state \in AttemptState : Moved(s, state) \/ Carried(s, state)
  BY <1>1, <1>2, <1>3, <1>4, <1>6, <1>10, <1>11 DEF Moved, Carried
<1>. QED BY <1>1, <1>2, <1>5, <1>7, <1>8, <1>9, <1>10, <1>11

\* A transaction that stages nothing keeps the revision the stream requires,
\* and its progress unless it resets it.
LEMMA RowKept ==
    ASSUME InductiveInvariant, StreamInvariant, NEW s \in Sessions,
           \/ Reads(s) \/ SubmitManaged(s) \/ ApplyIntent(s) \/ Lease(s)
           \/ \E state \in AttemptState : Moved(s, state)
           \/ Settle(s) \/ GiveBack(s)
           \/ Register(s) \/ Activate(s) \/ DeployRegister(s) \/ DeployActivate(s)
    PROVE  /\ intents' = intents
           /\ stream'.required_projection_revision = stream.required_projection_revision
           /\ stream'.accepted_progress \in {stream.accepted_progress, None}
<1>0. /\ stream \in StreamState
      /\ pc[s] \in HoldingSteps => Held(s) = stream
  BY DEF InductiveInvariant, TypeOK, StoreTypeOK, StreamInvariant, Held
<1>1. CASE Reads(s) \/ ApplyIntent(s) \/ Lease(s)
  BY <1>1, ReadsWriteNothing DEF ApplyIntent, Lease, LeaseOutbox, storeVars
<1>2. CASE \E state \in AttemptState : Moved(s, state)
  <2>1. intents' = intents /\ stream' = Bumped(Held(s)) /\ pc[s] \in HoldingSteps
    BY <1>2, MovedWrites DEF OwningSteps, HoldingSteps, Steps
  <2>. QED BY <1>0, <2>1 DEF Bumped, StreamState
<1>3. CASE SubmitManaged(s)
  <2>1. intents' = intents /\ stream' = Bumped(Held(s)) /\ pc[s] \in HoldingSteps
    BY <1>3 DEF SubmitManaged, InsertAttempt, HoldingSteps, Steps
  <2>. QED BY <1>0, <2>1 DEF Bumped, StreamState
<1>4. CASE Settle(s) \/ GiveBack(s)
  <2>1. intents' = intents /\ stream' = Held(s) /\ pc[s] \in HoldingSteps
    BY <1>4 DEF Settle, CompleteOutbox, GiveBack, FailOutbox, HoldingSteps, Steps
  <2>. QED BY <1>0, <2>1
<1>5. CASE Register(s) \/ Activate(s) \/ DeployRegister(s) \/ DeployActivate(s)
  BY <1>0, <1>5 DEF Register, RegisterContract, Activate, ActivateContract, DeployRegister,
     RegisterDeployment, DeployActivate, ActivateDeployment, StreamState
<1>. QED BY <1>1, <1>2, <1>3, <1>4, <1>5

\* A transaction that stages an intent stages it at the next revision, and
\* reserves that revision.
LEMMA RowReserved ==
    ASSUME InductiveInvariant, StreamInvariant, NEW s \in Sessions,
           StagePublication(s) \/ StageHeartbeat(s) \/ StageOccurrence(s)
    PROVE  \E i \in Intent :
             /\ intents' = Append(intents, i)
             /\ stream'.required_projection_revision = Len(intents) + 1
             /\ i.claim = None => stream'.accepted_progress = stream.accepted_progress
             /\ i.claim # None => stream'.accepted_progress = i.claim
<1>0. /\ stream \in StreamState /\ intents \in Seq(Intent) /\ Len(intents) \in Nat
      /\ mem[s] \in Memory /\ Consistent(pc[s], mem[s])
      /\ \A r \in 1..Len(intents) : intents[r].projection_revision = r
  BY Types DEF InductiveInvariant, TypeOK, StoreTypeOK, TargetFollowsLog
<1>1. pc[s] \in HoldingSteps /\ Held(s) = stream
      /\ stream.required_projection_revision = Len(intents)
  BY DEF StagePublication, StageHeartbeat, StageOccurrence, StreamInvariant, HoldingSteps,
         Steps, Held, RequiredIsLastStaged
<1>2. ASSUME NEW i, Enqueue(i), i.projection_revision = Len(intents) + 1
      PROVE  intents' = Append(intents, i)
  <2>1. ~AlreadyStaged(i)
    BY <1>0, <1>2 DEF AlreadyStaged
  <2>. QED BY <1>2, <2>1 DEF Enqueue
<1>3. CASE StagePublication(s)
  <2>1. PICK i : i = mem[s].intent
    OBVIOUS
  <2>2. /\ i \in Intent /\ i.claim = mem[s].claim /\ mem[s].claim \in Claims
        /\ i.projection_revision = Len(intents) + 1
    BY <1>0, <1>3, <2>1 DEF StagePublication, Consistent, OwningSteps, StreamInvariant
  <2>3. /\ Enqueue(i)
        /\ stream' = [Reserve(Held(s), i) EXCEPT !.active_contract = mem[s].contract,
                                                 !.accepted_progress = mem[s].claim]
    BY <1>3, <2>1 DEF StagePublication, StageIntent
  <2>4. /\ stream'.required_projection_revision = i.projection_revision
        /\ stream'.accepted_progress = mem[s].claim
    BY <1>0, <1>1, <2>3 DEF Reserve, StreamState
  <2>. QED BY <1>2, <2>2, <2>3, <2>4, NoneIsNoValue
<1>4. CASE StageHeartbeat(s) \/ StageOccurrence(s)
  <2>1. mem[s].contract \in Contracts
    BY <1>0, <1>4 DEF StageHeartbeat, StageOccurrence, Consistent
  <2>2. PICK kind \in {"timeliness", "heartbeat"}, at \in Nat : \E n, d :
          StageScheduled(s, BuildIntent(s, kind, None, at), n, d)
    <3>1. CASE StageHeartbeat(s)
      BY <3>1 DEF StageHeartbeat
    <3>2. CASE StageOccurrence(s)
      <4>1. mem[s].due \in Seq(Nat) /\ mem[s].due # <<>>
        BY <1>0, <3>2 DEF StageOccurrence, Consistent, Memory
      <4>2. Head(mem[s].due) \in Nat
        BY <4>1
      <4>. QED BY <3>2, <4>2 DEF StageOccurrence
    <3>. QED BY <1>4, <3>1, <3>2
  <2>3. PICK i : i = BuildIntent(s, kind, None, at)
    OBVIOUS
  <2>4. /\ i \in Intent /\ i.claim = None /\ i.projection_revision = Len(intents) + 1
    BY <1>0, <1>1, <2>1, <2>3 DEF BuildIntent, Intent
  <2>5. Enqueue(i) /\ stream' = Reserve(Held(s), i)
    BY <2>2, <2>3 DEF StageScheduled, StageIntent
  <2>6. /\ stream'.required_projection_revision = i.projection_revision
        /\ stream'.accepted_progress = stream.accepted_progress
    BY <1>0, <1>1, <2>5 DEF Reserve, StreamState
  <2>. QED BY <1>2, <2>4, <2>5, <2>6
<1>. QED BY <1>3, <1>4

LEMMA StreamStep ==
    ASSUME InductiveInvariant, StreamInvariant, OneSession, [Next]_vars
    PROVE  StreamInvariant'
<1>0. /\ stream \in StreamState /\ intents \in Seq(Intent) /\ Len(intents) \in Nat
      /\ stream.required_projection_revision = Len(intents)
  BY DEF InductiveInvariant, TypeOK, StoreTypeOK, StreamInvariant, RequiredIsLastStaged
<1>1. ASSUME NEW s \in Sessions,
             \/ Reads(s) \/ SubmitManaged(s) \/ ApplyIntent(s) \/ Lease(s)
             \/ StageHeartbeat(s) \/ StageOccurrence(s)
             \/ \E state \in AttemptState : Moved(s, state) \/ Carried(s, state)
             \/ Register(s) \/ Activate(s) \/ DeployRegister(s) \/ DeployActivate(s)
      PROVE  StreamInvariant'
  <2>1. pc'[s] \in HoldingSteps => mem'[s].stream = stream'
    <3>1. CASE Reads(s)
      BY <3>1, ReadsHold, ReadsWriteNothing DEF StreamInvariant
    <3>2. CASE ~Reads(s)
      BY <1>1, <3>2, WritesHold
    <3>. QED BY <3>1, <3>2
  <2>2. \A t \in Sessions : t = s
    BY DEF OneSession
  <2>3. CASE StagePublication(s) \/ StageHeartbeat(s) \/ StageOccurrence(s)
    <3>1. PICK i \in Intent :
            /\ intents' = Append(intents, i)
            /\ stream'.required_projection_revision = Len(intents) + 1
            /\ i.claim = None => stream'.accepted_progress = stream.accepted_progress
            /\ i.claim # None => stream'.accepted_progress = i.claim
      BY <2>3, RowReserved
    <3>2. /\ Len(intents') = Len(intents) + 1 /\ intents'[Len(intents) + 1] = i
          /\ \A r \in 1..Len(intents) : intents'[r] = intents[r]
      BY <1>0, <3>1
    <3>3. ProgressIsLastDelivery'
      <4>1. CASE i.claim # None
        <5>1. \A q \in (Len(intents) + 1) + 1..Len(intents') : FALSE
          BY <1>0, <3>2
        <5>2. Len(intents) + 1 \in 1..Len(intents')
          BY <1>0, <3>2
        <5>. QED BY <3>1, <3>2, <4>1, <5>1, <5>2 DEF ProgressIsLastDelivery
      <4>2. CASE i.claim = None
        <5> SUFFICES ASSUME stream'.accepted_progress # None
                     PROVE  \E r \in 1..Len(intents') :
                              /\ intents'[r].claim = stream'.accepted_progress
                              /\ \A q \in r+1..Len(intents') : intents'[q].claim = None
          BY DEF ProgressIsLastDelivery
        <5>1. PICK r \in 1..Len(intents) :
                /\ intents[r].claim = stream.accepted_progress
                /\ \A q \in r+1..Len(intents) : intents[q].claim = None
          BY <3>1, <4>2 DEF StreamInvariant, ProgressIsLastDelivery
        <5>2. r \in 1..Len(intents') /\ intents'[r].claim = stream'.accepted_progress
          BY <1>0, <3>1, <3>2, <4>2, <5>1
        <5>3. ASSUME NEW q \in r+1..Len(intents') PROVE intents'[q].claim = None
          BY <1>0, <3>2, <4>2, <5>1
        <5>. QED BY <5>2, <5>3
      <4>. QED BY <4>1, <4>2
    <3>4. pc'[s] # "stage"
      <4>1. pc'[s] = "stage" => BeginCommit(s)
        BY <1>1, StreamInHand
      <4>. QED BY <2>3, <4>1 DEF StagePublication, StageHeartbeat, StageOccurrence, BeginCommit
    <3>. QED BY <2>1, <2>2, <3>1, <3>2, <3>3, <3>4 DEF StreamInvariant, RequiredIsLastStaged
  <2>4. CASE ~(StagePublication(s) \/ StageHeartbeat(s) \/ StageOccurrence(s))
    <3>1. /\ intents' = intents
          /\ stream'.required_projection_revision = stream.required_projection_revision
          /\ stream'.accepted_progress \in {stream.accepted_progress, None}
      <4>1. \/ Reads(s) \/ SubmitManaged(s) \/ ApplyIntent(s) \/ Lease(s)
            \/ \E state \in AttemptState : Moved(s, state)
            \/ Settle(s) \/ GiveBack(s)
            \/ Register(s) \/ Activate(s) \/ DeployRegister(s) \/ DeployActivate(s)
        BY <1>1, <2>4 DEF Carried
      <4>. QED BY <4>1, RowKept
    <3>2. pc'[s] = "stage" => mem'[s].intent.projection_revision = Len(intents) + 1
      <4> SUFFICES ASSUME pc'[s] = "stage"
                   PROVE  mem'[s].intent.projection_revision = Len(intents) + 1
        OBVIOUS
      <4>1. BeginCommit(s)
        BY <1>1, StreamInHand
      <4>2. PICK i : i = BuildIntent(s, "delivery_publication", mem[s].claim, 0)
        OBVIOUS
      <4>3. mem' = [mem EXCEPT ![s].stream = Bumped(@), ![s].intent = i] /\ pc[s] = "validating"
        BY <4>1, <4>2 DEF BeginCommit
      <4>4. mem \in [Sessions -> Memory] /\ mem[s] \in Memory
        BY DEF InductiveInvariant, TypeOK
      <4>5. mem'[s].intent = i
        BY <4>3, <4>4 DEF Memory
      <4>6. mem[s].stream = stream
        BY <4>3 DEF StreamInvariant, HoldingSteps, Steps
      <4>. QED BY <1>0, <4>2, <4>5, <4>6 DEF BuildIntent, Held
    <3>3. ProgressIsLastDelivery'
      BY <3>1 DEF StreamInvariant, ProgressIsLastDelivery
    <3>. QED BY <1>0, <2>1, <2>2, <3>1, <3>2, <3>3 DEF StreamInvariant, RequiredIsLastStaged
  <2>. QED BY <2>3, <2>4
<1>2. ASSUME (\E r \in 1..Len(outbox) : ExpireLease(r)) \/ PassBoundary \/ UNCHANGED vars
      PROVE  StreamInvariant'
  <2>1. UNCHANGED <<stream, intents, pc, mem>>
    BY <1>2 DEF ExpireLease, LeaseExpires, PassBoundary, sessionVars, vars, storeVars
  <2>. QED BY <2>1 DEF StreamInvariant, RequiredIsLastStaged, ProgressIsLastDelivery
<1>. QED BY <1>1, <1>2, StepKinds

LEMMA StreamInit ==
    ASSUME Init
    PROVE  StreamInvariant
<1>1. /\ stream.required_projection_revision = 0 /\ stream.accepted_progress = None
      /\ Len(intents) = 0
  BY DEF Init, EmptyStream
<1>2. \A s \in Sessions : pc[s] = "idle"
  BY DEF Init
<1>. QED
  BY <1>1, <1>2 DEF StreamInvariant, RequiredIsLastStaged, ProgressIsLastDelivery, HoldingSteps

\* One process at a time keeps the row it read: the inductive invariant of the
\* two theorems below.
THEOREM StreamInvariantHolds ==
    ASSUME OneSession
    PROVE  Spec => []StreamInvariant
<1>1. Init => StreamInvariant
  BY StreamInit
<1>2. InductiveInvariant /\ StreamInvariant /\ [Next]_vars => StreamInvariant'
  BY StreamStep
<1>3. Spec => []StreamInvariant
  BY <1>1, <1>2, InvariantHolds, PTL DEF Spec
<1>. QED BY <1>3

\* On the local platform the revision the stream requires is the last one
\* staged: _build_intent never meets a revision that is taken.
THEOREM RevisionsAreReserved ==
    ASSUME OneSession
    PROVE  Spec => []RequiredIsLastStaged
<1>1. StreamInvariant => RequiredIsLastStaged
  BY DEF StreamInvariant
<1>. QED BY <1>1, StreamInvariantHolds, PTL

\* On the local platform the accepted progress is the last delivery staged:
\* publish writes the intent and the progress in one transaction, and no later
\* write of the row puts an older progress back.
THEOREM ProgressFollowsDeliveries ==
    ASSUME OneSession
    PROVE  Spec => []ProgressIsLastDelivery
<1>1. StreamInvariant => ProgressIsLastDelivery
  BY DEF StreamInvariant
<1>. QED BY <1>1, StreamInvariantHolds, PTL

-----------------------------------------------------------------------------
(* Scheduled occurrences: one session, no command that reconciles, and a log *)
(* that fits the page last_evaluated_occurrence reads.  Each of the three is *)
(* needed: a second session can project a boundary after this one read the   *)
(* log and before its gates, a reconcile can stop between the application of *)
(* a dead letter and its settlement, and past the first page catch-up sees   *)
(* no new occurrence.                                                        *)

LogFitsPage == MaxIntents <= LeaseItemLimit

-----------------------------------------------------------------------------
(* The log and the boundaries in it *)

BoundaryOf(r) == intents[r].scheduled_boundary

BoundariesIncrease ==
    \A q, r \in 1..Len(intents) :
        q < r /\ Timely(q) /\ Timely(r) => BoundaryOf(q) < BoundaryOf(r)

\* The bound on revisions staged without a claim.
TimelyFitPage == \A r \in 1..Len(intents) : Timely(r) => r <= LeaseItemLimit

\* The boundary b is the next one after those projected so far.
Follows(b) ==
    \/ \A r \in 1..Len(intents) : ~Timely(r)
    \/ \E r \in 1..Len(intents) :
         /\ Timely(r) /\ b = BoundaryOf(r) + 1
         /\ \A q \in 1..Len(intents) : Timely(q) => q <= r

Continues(due) ==
    /\ due # <<>> => Follows(due[1])
    /\ \A n \in 1..Len(due) - 1 : due[n + 1] = due[n] + 1

AllConfirmed == \A r \in 1..Len(intents) : Timely(r) => r \in confirmations

\* A dead letter was never applied, so the target's cursor is before it.
DeadIsUnapplied ==
    \A r \in 1..Len(outbox) : outbox[r].status = "dead_letter" => Len(applied) < r

\* What run_scheduled relies on.  The boundaries it has read continue those
\* projected only if none was left unconfirmed, which its two gates establish:
\* an entry that is neither complete nor queued is a dead letter, the target
\* has not applied a dead letter, and the second gate waits for the target.
InSchedule(p, m) ==
    /\ p = "since" => m.then = "since"
    /\ p \in {"schedule", "schedule_gate", "stage_occurrence"} =>
         (AllConfirmed => Continues(m.due))
    /\ m.then = "schedule" => Continues(m.due)
    /\ p \in {"schedule_gate", "stage_occurrence"} => ~HasIncompleteOutbox /\ Room
    /\ p = "schedule_gate" => m.required = Len(intents)
    /\ p = "stage_occurrence" => Len(intents) <= Len(applied)
    /\ p = "stage" => m.intent.kind = "delivery_publication"
    /\ p \in StagedSteps \ {"fail"} =>
         outbox[m.intent.projection_revision].status # "dead_letter"
    /\ p \in {"refused", "fail"} => Len(applied) < m.intent.projection_revision

ScheduleInvariant ==
    /\ OccurrencesInOrder
    /\ BoundariesIncrease
    /\ TimelyFitPage
    /\ DeadIsUnapplied
    /\ \A s \in Sessions : InSchedule(pc[s], mem[s])

\* What Append does to the log.
LEMMA Appended ==
    ASSUME InductiveInvariant, NEW i \in Intent, intents' = Append(intents, i),
           NEW last, last = Len(intents) + 1
    PROVE  /\ Len(intents') = last /\ Len(intents) \in Nat
           /\ intents'[last] = i
           /\ \A r \in 1..Len(intents) :
                /\ intents'[r] = intents[r]
                /\ Timely(r)' <=> Timely(r)
                /\ BoundaryOf(r)' = BoundaryOf(r)
           /\ 1..Len(intents') = 1..Len(intents) \cup {last}
           /\ Timely(last)' <=> i.kind = "timeliness"
           /\ BoundaryOf(last)' = i.scheduled_boundary
           /\ \A r \in 1..Len(intents) : BoundaryOf(r) \in Nat
<1>1. intents \in Seq(Intent) /\ Len(intents) \in Nat
  BY DEF InductiveInvariant, TypeOK, StoreTypeOK
<1>2. /\ Len(intents') = last /\ intents'[last] = i
      /\ \A r \in 1..Len(intents) : intents'[r] = intents[r] /\ intents[r] \in Intent
  BY <1>1
<1>3. 1..Len(intents') = 1..Len(intents) \cup {last}
  BY <1>1, <1>2
<1>. QED BY <1>1, <1>2, <1>3 DEF Timely, BoundaryOf, Intent

\* An intent that is no occurrence leaves the boundaries as they are.
LEMMA OtherKeepsOrder ==
    ASSUME InductiveInvariant, NEW i \in Intent, intents' = Append(intents, i),
           i.kind # "timeliness",
           OccurrencesInOrder, BoundariesIncrease, TimelyFitPage
    PROVE  /\ OccurrencesInOrder' /\ BoundariesIncrease' /\ TimelyFitPage'
           /\ \A b : Follows(b) => Follows(b)'
<1>0. PICK last : last = Len(intents) + 1
  OBVIOUS
<1>1. ASSUME NEW r \in 1..Len(intents'), Timely(r)' PROVE r \in 1..Len(intents) /\ Timely(r)
  <2>1. r \in 1..Len(intents) \/ r = last
    BY <1>0, Appended
  <2>. QED BY <1>0, <1>1, <2>1, Appended
<1>2. OccurrencesInOrder'
  <2> SUFFICES ASSUME NEW q \in 1..Len(intents'), NEW r \in 1..Len(intents'),
                      q < r, Timely(q)', Timely(r)', \A p \in q+1..r-1 : ~Timely(p)'
               PROVE  BoundaryOf(r)' = BoundaryOf(q)' + 1
    BY DEF OccurrencesInOrder, BoundaryOf, Timely
  <2>1. q \in 1..Len(intents) /\ r \in 1..Len(intents) /\ Timely(q) /\ Timely(r)
    BY <1>1
  <2>2. \A p \in q+1..r-1 : ~Timely(p)
    BY <2>1, Appended
  <2>3. BoundaryOf(r) = BoundaryOf(q) + 1
    BY <2>1, <2>2 DEF OccurrencesInOrder, BoundaryOf
  <2>. QED BY <2>1, <2>3, Appended
<1>3. BoundariesIncrease'
  BY <1>1, Appended DEF BoundariesIncrease
<1>4. TimelyFitPage'
  BY <1>1 DEF TimelyFitPage
<1>5. ASSUME NEW b, Follows(b) PROVE Follows(b)'
  <2>1. CASE \A r \in 1..Len(intents) : ~Timely(r)
    BY <1>1, <2>1 DEF Follows
  <2>2. CASE \E r \in 1..Len(intents) :
               /\ Timely(r) /\ b = BoundaryOf(r) + 1
               /\ \A q \in 1..Len(intents) : Timely(q) => q <= r
    BY <1>1, <2>2, Appended DEF Follows
  <2>. QED BY <1>5, <2>1, <2>2 DEF Follows
<1>. QED BY <1>2, <1>3, <1>4, <1>5

\* An occurrence at the boundary that follows keeps the order, and the next
\* boundary follows it.
LEMMA OccurrenceKeepsOrder ==
    ASSUME InductiveInvariant, NEW i \in Intent, intents' = Append(intents, i),
           i.kind = "timeliness", Follows(i.scheduled_boundary),
           Len(intents) < LeaseItemLimit, LeaseItemLimit \in Nat,
           OccurrencesInOrder, BoundariesIncrease, TimelyFitPage
    PROVE  /\ OccurrencesInOrder' /\ BoundariesIncrease' /\ TimelyFitPage'
           /\ Follows(i.scheduled_boundary + 1)'
<1>a. PICK last : last = Len(intents) + 1
  OBVIOUS
<1>0. last = Len(intents) + 1 /\ last \in Nat /\ Len(intents) \in Nat /\ i.scheduled_boundary \in Nat
  BY <1>a, Appended DEF Intent
<1>1. ASSUME NEW r \in 1..Len(intents'), Timely(r)'
      PROVE  r = last \/ (r \in 1..Len(intents) /\ Timely(r) /\ BoundaryOf(r)' = BoundaryOf(r))
  BY <1>0, <1>1, Appended
<1>2. last \in 1..Len(intents') /\ Timely(last)' /\ BoundaryOf(last)' = i.scheduled_boundary
  BY <1>0, Appended
<1>3. ASSUME NEW q \in 1..Len(intents), Timely(q) PROVE BoundaryOf(q) < i.scheduled_boundary
  <2>1. PICK r \in 1..Len(intents) :
          /\ Timely(r) /\ i.scheduled_boundary = BoundaryOf(r) + 1
          /\ \A p \in 1..Len(intents) : Timely(p) => p <= r
    BY <1>3 DEF Follows
  <2>2. q = r \/ q < r
    BY <1>3, <2>1
  <2>. QED BY <1>3, <2>1, <2>2, Appended DEF BoundariesIncrease
<1>4. OccurrencesInOrder'
  <2> SUFFICES ASSUME NEW q \in 1..Len(intents'), NEW r \in 1..Len(intents'),
                      q < r, Timely(q)', Timely(r)', \A p \in q+1..r-1 : ~Timely(p)'
               PROVE  BoundaryOf(r)' = BoundaryOf(q)' + 1
    BY DEF OccurrencesInOrder, BoundaryOf, Timely
  <2>1. q \in 1..Len(intents) /\ Timely(q) /\ BoundaryOf(q)' = BoundaryOf(q)
    BY <1>0, <1>1, Appended
  <2>2. CASE r = last
    <3>1. PICK t \in 1..Len(intents) :
            /\ Timely(t) /\ i.scheduled_boundary = BoundaryOf(t) + 1
            /\ \A p \in 1..Len(intents) : Timely(p) => p <= t
      BY <2>1 DEF Follows
    <3>2. t \in q+1..r-1 \/ t = q
      BY <1>0, <2>1, <2>2, <3>1
    <3>3. Timely(t)'
      BY <3>1, Appended
    <3>. QED BY <1>2, <2>1, <2>2, <3>1, <3>2, <3>3
  <2>3. CASE r # last
    <3>1. r \in 1..Len(intents) /\ Timely(r) /\ BoundaryOf(r)' = BoundaryOf(r)
      BY <1>1, <2>3
    <3>2. \A p \in q+1..r-1 : ~Timely(p)
      BY <2>1, <3>1, Appended
    <3>3. BoundaryOf(r) = BoundaryOf(q) + 1
      BY <2>1, <3>1, <3>2 DEF OccurrencesInOrder, BoundaryOf
    <3>. QED BY <2>1, <3>1, <3>3
  <2>. QED BY <2>2, <2>3
<1>5. BoundariesIncrease'
  <2> SUFFICES ASSUME NEW q \in 1..Len(intents'), NEW r \in 1..Len(intents'),
                      q < r, Timely(q)', Timely(r)'
               PROVE  BoundaryOf(q)' < BoundaryOf(r)'
    BY DEF BoundariesIncrease
  <2>1. q \in 1..Len(intents) /\ Timely(q) /\ BoundaryOf(q)' = BoundaryOf(q)
    BY <1>0, <1>1, Appended
  <2>. QED BY <1>1, <1>2, <1>3, <2>1 DEF BoundariesIncrease
<1>6. TimelyFitPage'
  BY <1>0, <1>1 DEF TimelyFitPage
<1>7. Follows(i.scheduled_boundary + 1)'
  <2>1. \A q \in 1..Len(intents') : Timely(q)' => q <= last
    BY <1>0, <1>1
  <2>. QED BY <1>2, <2>1 DEF Follows
<1>. QED BY <1>4, <1>5, <1>6, <1>7
-----------------------------------------------------------------------------
(* What a session relies on, step by step *)

\* A session relies on the same after a step that leaves both logs alone.
LEMMA ScheduleAlone ==
    ASSUME InductiveInvariant, UNCHANGED <<intents, outbox, applied, confirmations>>,
           NEW p, NEW m, InSchedule(p, m)
    PROVE  InSchedule(p, m)'
BY DEF InSchedule, AllConfirmed, Continues, Follows, Timely, BoundaryOf, HasIncompleteOutbox, Room

\* A session that has closed its command relies on nothing.
LEMMA IdleInSchedule == InSchedule("idle", NoMemory)
BY DEF InSchedule, NoMemory, StagedSteps

\* The boundaries read when every occurrence is confirmed continue them.
LEMMA DueContinues ==
    ASSUME InductiveInvariant, ScheduleInvariant, NEW s \in Sessions, ReadSince(s), AllConfirmed
    PROVE  Continues(mem'[s].due)
<1>a. /\ mem \in [Sessions -> Memory] /\ mem[s] \in Memory /\ boundary \in Nat
      /\ intents \in Seq(Intent) /\ Len(intents) \in Nat
  BY Types DEF InductiveInvariant, TypeOK
<1>b. \A r \in 1..Len(intents) : intents[r] \in Intent
  BY <1>a
<1>0. /\ mem \in [Sessions -> Memory] /\ mem[s] \in Memory /\ boundary \in Nat
      /\ intents \in Seq(Intent) /\ Len(intents) \in Nat
      /\ \A r \in 1..Len(intents) : BoundaryOf(r) \in Nat
  BY <1>a, <1>b DEF BoundaryOf, Intent
<1>1. \A r \in 1..Len(intents) : Timely(r) => BoundaryOf(r) \in EvaluatedBoundaries
  BY DEF AllConfirmed, ScheduleInvariant, TimelyFitPage, EvaluatedBoundaries, Timely, BoundaryOf
<1>2. \A b \in EvaluatedBoundaries :
        \E r \in 1..Len(intents) : Timely(r) /\ BoundaryOf(r) = b
  BY DEF EvaluatedBoundaries, Timely, BoundaryOf
<1>3. CASE /\ EvaluatedBoundaries = {}
           /\ mem' = [mem EXCEPT ![s].due = IF boundary = 0 THEN <<>> ELSE <<boundary>>]
  <2>1. mem'[s].due = IF boundary = 0 THEN <<>> ELSE <<boundary>>
    BY <1>0, <1>3 DEF Memory
  <2>2. \A b : Follows(b)
    BY <1>1, <1>3 DEF Follows
  <2>3. PICK d : d = mem'[s].due
    OBVIOUS
  <2>4. \A n \in 1..Len(d) - 1 : FALSE
    BY <2>1, <2>3
  <2>. QED BY <2>2, <2>3, <2>4 DEF Continues
<1>4. CASE \E since \in EvaluatedBoundaries :
             /\ \A b \in EvaluatedBoundaries : b <= since
             /\ mem' = [mem EXCEPT ![s].due = OccurrencesAfter(since)]
  <2>1. PICK since \in EvaluatedBoundaries :
          /\ \A b \in EvaluatedBoundaries : b <= since
          /\ mem' = [mem EXCEPT ![s].due = OccurrencesAfter(since)]
    BY <1>4
  <2>2. PICK r \in 1..Len(intents) : Timely(r) /\ BoundaryOf(r) = since
    BY <1>2, <2>1
  <2>3. PICK k : k = IF boundary - since < MaxDueTransitions THEN boundary - since
                                                             ELSE MaxDueTransitions
    OBVIOUS
  <2>4. mem'[s].due = [n \in 1..k |-> since + n]
    BY <1>0, <2>1, <2>3 DEF Memory, OccurrencesAfter
  <2>5. k \in Int /\ since \in Nat
    BY <1>0, <2>2, <2>3, Parameters
  <2>6. PICK d : d = mem'[s].due
    OBVIOUS
  <2>7. ASSUME NEW q \in 1..Len(intents), Timely(q) PROVE q <= r
    <3>1. BoundaryOf(q) <= BoundaryOf(r)
      BY <1>1, <2>1, <2>2, <2>7
    <3>2. ~(r < q)
      BY <1>0, <2>2, <2>7, <3>1 DEF ScheduleInvariant, BoundariesIncrease
    <3>. QED BY <1>0, <3>2
  <2>8. Follows(since + 1)
    BY <2>2, <2>7 DEF Follows
  <2>9. CASE k < 1
    <3>1. 1..k = {}
      BY <2>5, <2>9
    <3>2. d = <<>>
      BY <2>4, <2>6, <3>1
    <3>3. \A n \in 1..Len(d) - 1 : FALSE
      BY <3>2
    <3>. QED BY <2>6, <3>2, <3>3 DEF Continues
  <2>10. CASE 1 <= k
    <3>1. k \in Nat
      BY <2>5, <2>10
    <3>2. Len(d) = k /\ \A n \in 1..k : d[n] = since + n
      BY <2>4, <2>6, <3>1
    <3>3. d[1] = since + 1
      BY <2>10, <3>1, <3>2
    <3>4. \A n \in 1..Len(d) - 1 : d[n + 1] = d[n] + 1
      BY <2>5, <3>1, <3>2
    <3>. QED BY <2>6, <2>8, <3>3, <3>4 DEF Continues
  <2>. QED BY <2>5, <2>9, <2>10
<1>. QED BY <1>3, <1>4 DEF ReadSince

\* The target refuses what it has not applied.
LEMMA RefusedIsUnapplied ==
    ASSUME InductiveInvariant, NEW s \in Sessions, pc[s] = "apply",
           ~AlreadyApplied(mem[s].intent)
    PROVE  Len(applied) < mem[s].intent.projection_revision
<1>1. PICK r : r = mem[s].intent.projection_revision
  OBVIOUS
<1>2. mem[s].intent \in Intent /\ mem[s].intent = intents[r] /\ r <= Len(intents)
  BY <1>1, Types DEF Consistent, StagedSteps
<1>3. r \in Nat \ {0} /\ Len(applied) \in Nat
  BY <1>1, <1>2, Types DEF Intent
<1>4. r \in 1..Len(applied) => AlreadyApplied(mem[s].intent)
  BY <1>2 DEF AlreadyApplied, InductiveInvariant, TargetFollowsLog
<1>. QED BY <1>1, <1>3, <1>4

\* What a session relies on after a read.
LEMMA ReadsInSchedule ==
    ASSUME InductiveInvariant, StreamInvariant, AttemptInvariant, ScheduleInvariant,
           "reconcile" \notin Commands, NEW s \in Sessions, Reads(s),
           NEW p, p = pc'[s], NEW m, m = mem'[s]
    PROVE  InSchedule(p, m)
<1> DEFINE Goal == InSchedule(p, m)
<1> SUFFICES Goal
  OBVIOUS
<1>0. /\ pc \in [Sessions -> Steps] /\ mem \in [Sessions -> Memory] /\ mem[s] \in Memory
      /\ InHand(pc[s], mem[s]) /\ InSchedule(pc[s], mem[s])
  BY Types DEF InductiveInvariant, TypeOK, AttemptInvariant, ScheduleInvariant
<1>1. CASE Close(s)
  BY <1>0, <1>1, IdleInSchedule DEF Close
<1>2. CASE Start(s)
  <2>0. ASSUME p \in {"submit", "lease", "register", "deploy_register", "deploy_activate"},
               m.then \in {"done", "heartbeat"}
        PROVE  Goal
    BY <2>0 DEF InSchedule, StagedSteps
  <2>. HIDE DEF Goal
  <2>1. ASSUME NEW c \in Claims, NEW k \in Contracts, IngestFile(s, c, k) PROVE Goal
    BY <1>0, <2>0, <2>1 DEF IngestFile, Goto, NoMemory
  <2>2. ASSUME NEW k \in Contracts, IngestDue(s, k) PROVE Goal
    BY <1>0, <2>0, <2>2 DEF IngestDue, Goto, NoMemory
  <2>3. ASSUME NEW k \in Contracts, NEW g \in Migration, ContractCommand(s, k, g) PROVE Goal
    BY <1>0, <2>0, <2>3 DEF ContractCommand, Goto, NoMemory
  <2>4. ASSUME NEW k \in Contracts, NEW step \in {"deploy_register", "deploy_activate"},
               DeploymentCommand(s, k, step)
        PROVE  Goal
    BY <1>0, <2>0, <2>4 DEF DeploymentCommand, Goto, NoMemory
  <2>. QED BY <1>2, <2>1, <2>2, <2>3, <2>4 DEF Start, Reconcile, Open
<1>3. CASE ApplyOutOfOrder(s) \/ TargetUnavailable(s)
  <2>1. /\ m = mem[s] /\ pc[s] = "apply" /\ ~AlreadyApplied(mem[s].intent)
        /\ p \in {"refused", "fail"}
    BY <1>0, <1>3 DEF ApplyOutOfOrder, TargetUnavailable, Accepts, Goto
  <2>. QED BY <1>0, <2>1, RefusedIsUnapplied DEF InSchedule, StagedSteps
<1>4. CASE SubmitAdmitted(s) \/ SubmitReplay(s) \/ NothingDue(s)
  <2>1. m = mem[s] /\ p \in {"conflict", "predecessor", "insert", "received", "heartbeat",
                             "status"}
    BY <1>0, <1>4 DEF SubmitAdmitted, SubmitReplay, NothingDue, Goto
  <2>. QED BY <1>0, <2>1 DEF InSchedule, StagedSteps
<1>5. CASE Resume(s)
  <2>1. /\ pc[s] = "resume" /\ p = "apply" /\ m.then = mem[s].then /\ m.due = mem[s].due
        /\ m.intent = mem[s].intent
    BY <1>0, <1>5 DEF Resume, Goto, Memory
  <2>. QED BY <1>0, <2>1 DEF InSchedule, StagedSteps
<1>6. CASE Heartbeat(s) \/ HeartbeatGate(s)
  <2>1. /\ p \in {"heartbeat_gate", "stage_heartbeat", "status"}
        /\ (m.then = mem[s].then /\ m.due = mem[s].due) \/ m.then = "since"
    BY <1>0, <1>6 DEF Heartbeat, HeartbeatGate, Goto, Memory
  <2>. QED BY <1>0, <2>1 DEF InSchedule, StagedSteps
<1>7. CASE ReadStatus(s)
  <2>1. p = mem[s].then /\ m.then = mem[s].then /\ m.due = mem[s].due
    BY <1>0, <1>7 DEF ReadStatus, Goto, Memory
  <2>. QED BY <1>0, <2>1 DEF InSchedule, StagedSteps, Memory, Continuations
<1>8. CASE ReadSince(s)
  <2>1. p = "schedule" /\ m.then = mem[s].then /\ mem[s].then = "since"
    BY <1>0, <1>8 DEF ReadSince, Goto, Memory, InSchedule
  <2>2. AllConfirmed => Continues(m.due)
    BY <1>8, DueContinues
  <2>. QED BY <2>1, <2>2 DEF InSchedule, StagedSteps
<1>9. CASE Schedule(s)
  <2>1. /\ pc[s] = "schedule" /\ p = "schedule_gate" /\ ~HasIncompleteOutbox /\ Room
        /\ m.then = mem[s].then /\ m.due = mem[s].due
        /\ m.required = stream.required_projection_revision
    BY <1>0, <1>9 DEF Schedule, Goto, Memory
  <2>. QED
    BY <1>0, <2>1 DEF InSchedule, StagedSteps, StreamInvariant, RequiredIsLastStaged
<1>10. CASE ScheduleGate(s)
  <2>1. pc[s] = "schedule_gate" /\ p = "stage_occurrence" /\ m = mem[s] /\ m.required <= Cursor
    BY <1>0, <1>10 DEF ScheduleGate, Goto
  <2>. QED BY <1>0, <2>1, CursorIsLength DEF InSchedule, StagedSteps
<1>11. ~(ReadLog(s) \/ ReplayIntent(s))
  BY <1>0 DEF ReadLog, ReplayIntent, InHand
<1>12. Refuse(s) \/ Crash(s) \/ SubmitRefused(s) \/ EndSchedule(s) \/ EndReplay(s)
         \/ ActivateRefused(s) \/ DeployRefused(s) => Close(s)
  BY DEF Refuse, StaleRevision, StageConflict, LeaseConflict, Crash, SubmitRefused,
         EndSchedule, EndReplay, ActivateRefused, DeployRefused
<1>. HIDE DEF Goal
<1>. QED
  BY <1>1, <1>2, <1>3, <1>4, <1>5, <1>6, <1>7, <1>8, <1>9, <1>10, <1>11, <1>12 DEF Reads

\* What it relies on after a transaction that leaves the log, the outbox and
\* the target alone.
LEMMA MovesInSchedule ==
    ASSUME InductiveInvariant, ScheduleInvariant, NEW s \in Sessions,
           \/ SubmitManaged(s)
           \/ \E state \in AttemptState : Moved(s, state)
           \/ Register(s) \/ Activate(s) \/ DeployRegister(s) \/ DeployActivate(s),
           NEW p, p = pc'[s], NEW m, m = mem'[s]
    PROVE  InSchedule(p, m) /\ UNCHANGED <<intents, outbox, applied, confirmations>>
<1> DEFINE Goal == InSchedule(p, m)
<1>0. /\ pc \in [Sessions -> Steps] /\ mem \in [Sessions -> Memory] /\ mem[s] \in Memory
      /\ InSchedule(pc[s], mem[s])
  BY Types DEF InductiveInvariant, TypeOK, ScheduleInvariant
<1>1. UNCHANGED <<intents, outbox, applied, confirmations>>
  <2>1. CASE \E state \in AttemptState : Moved(s, state)
    BY <2>1, MovedWrites
  <2>2. CASE SubmitManaged(s) \/ Register(s) \/ Activate(s) \/ DeployRegister(s)
               \/ DeployActivate(s)
    BY <2>2 DEF SubmitManaged, InsertAttempt, Register, RegisterContract, Activate,
       ActivateContract, DeployRegister, RegisterDeployment, DeployActivate, ActivateDeployment
  <2>. QED BY <2>1, <2>2
<1> SUFFICES Goal
  BY <1>1
<1>2. CASE Close(s)
  BY <1>0, <1>2, IdleInSchedule DEF Close
<1>3. CASE SubmitManaged(s) \/ Prepare(s) \/ Materialize(s) \/ Validate(s)
  <2>1. /\ p \in {"received", "preparing", "materializing", "validating"}
        /\ m.then = mem[s].then /\ m.due = mem[s].due
    BY <1>0, <1>3 DEF SubmitManaged, Prepare, Materialize, Validate, Transition, Goto, Memory
  <2>. QED BY <1>0, <2>1 DEF InSchedule, StagedSteps
<1>4. CASE CommitAttempt(s) \/ BlockAttempt(s)
  <2>1. /\ (pc[s] = "applied" /\ p = "settle") \/ (pc[s] = "refused" /\ p = "fail")
        /\ m.then = mem[s].then /\ m.due = mem[s].due /\ m.intent = mem[s].intent
    BY <1>0, <1>4 DEF CommitAttempt, BlockAttempt, Transition, Goto, Memory
  <2>. QED BY <1>0, <2>1 DEF InSchedule, StagedSteps
<1>5. CASE BeginCommit(s)
  <2>1. PICK i : i = BuildIntent(s, "delivery_publication", mem[s].claim, 0)
    OBVIOUS
  <2>2. mem' = [mem EXCEPT ![s].stream = Bumped(@), ![s].intent = i]
    BY <1>5, <2>1 DEF BeginCommit
  <2>3. p = "stage" /\ m.then = mem[s].then /\ m.due = mem[s].due /\ m.intent = i
    BY <1>0, <1>5, <2>2 DEF BeginCommit, Goto, Memory
  <2>4. i.kind = "delivery_publication"
    BY <2>1 DEF BuildIntent
  <2>. QED BY <1>0, <2>3, <2>4 DEF InSchedule, StagedSteps
<1>6. CASE Register(s)
  <2>1. Close(s) \/ (p = "activate" /\ m.then = mem[s].then /\ m.due = mem[s].due)
    BY <1>0, <1>6 DEF Register, Goto, Memory
  <2>. QED BY <1>0, <1>2, <2>1 DEF InSchedule, StagedSteps
<1>7. FailAttempt(s) \/ Activate(s) \/ DeployRegister(s) \/ DeployActivate(s) => Close(s)
  BY DEF FailAttempt, Activate, DeployRegister, DeployActivate
<1>. HIDE DEF Goal
<1>. QED BY <1>2, <1>3, <1>4, <1>5, <1>6, <1>7 DEF Moved

\* The outbox entry at the revision of the intent in hand.
LEMMA IntentInHand ==
    ASSUME InductiveInvariant, NEW s \in Sessions, pc[s] \in StagedSteps
    PROVE  /\ mem[s].intent \in Intent
           /\ mem[s].intent.projection_revision \in 1..Len(outbox)
           /\ mem[s].intent = intents[mem[s].intent.projection_revision]
<1>1. /\ mem[s].intent \in Intent /\ mem[s].intent.projection_revision <= Len(intents)
      /\ mem[s].intent = intents[mem[s].intent.projection_revision]
      /\ Len(outbox) = Len(intents) /\ Len(intents) \in Nat
  BY Types, OutboxTypes DEF Consistent
<1>2. mem[s].intent.projection_revision \in Nat \ {0}
  BY <1>1 DEF Intent
<1>. QED BY <1>1, <1>2

\* The target applies only what is no dead letter.
LEMMA ApplyInSchedule ==
    ASSUME InductiveInvariant, ScheduleInvariant, NEW s \in Sessions, ApplyIntent(s),
           NEW p, p = pc'[s], NEW m, m = mem'[s]
    PROVE  /\ DeadIsUnapplied' /\ InSchedule(p, m)'
           /\ UNCHANGED <<intents, outbox, confirmations>>
<1>0. /\ pc \in [Sessions -> Steps] /\ mem \in [Sessions -> Memory] /\ InSchedule(pc[s], mem[s])
      /\ DeadIsUnapplied /\ Len(applied) \in Nat /\ Len(outbox) \in Nat
  BY Types, OutboxTypes DEF InductiveInvariant, TypeOK, ScheduleInvariant
<1>1. /\ pc[s] = "apply" /\ m = mem[s] /\ p \in {"settle", "applied"}
      /\ UNCHANGED <<intents, outbox, confirmations>> /\ ApplyGapOrdered(mem[s].intent)
  BY <1>0 DEF ApplyIntent, Goto, storeVars
<1>2. PICK r : r = mem[s].intent.projection_revision
  OBVIOUS
<1>3. outbox[r].status # "dead_letter" /\ mem[s].intent \in Intent
  BY <1>0, <1>1, <1>2, IntentInHand DEF InSchedule, StagedSteps
<1>4. applied' = applied \/ (r = Len(applied) + 1 /\ Len(applied') = Len(applied) + 1)
  BY <1>1, <1>2, <1>3, Types, CursorIsLength DEF ApplyGapOrdered, Accepts
<1>5. DeadIsUnapplied'
  <2> SUFFICES ASSUME NEW q \in 1..Len(outbox), outbox[q].status = "dead_letter"
               PROVE  Len(applied') < q
    BY <1>1 DEF DeadIsUnapplied
  <2>1. Len(applied) < q /\ q # r
    BY <1>0, <1>3 DEF DeadIsUnapplied
  <2>. QED BY <1>0, <1>4, <2>1
<1>6. InSchedule(p, m)'
  BY <1>0, <1>1 DEF InSchedule, StagedSteps, AllConfirmed, Continues, Follows, Timely, BoundaryOf
<1>. QED BY <1>1, <1>5, <1>6

\* A session that goes on after a settlement or a failure.
LEMMA ContinueInSchedule ==
    ASSUME InductiveInvariant, NEW s \in Sessions, NEW confirmed, Continue(s, confirmed),
           InSchedule(pc[s], mem[s]), UNCHANGED intents,
           NEW p, p = pc'[s], NEW m, m = mem'[s]
    PROVE  InSchedule(p, m)'
<1>0. pc \in [Sessions -> Steps] /\ mem \in [Sessions -> Memory]
  BY DEF InductiveInvariant, TypeOK
<1>1. (p = "idle" /\ m = NoMemory) \/ (p \in {"heartbeat", "status"} /\ m = mem[s])
  BY <1>0 DEF Continue, Close, Goto
<1>. QED
  BY <1>1 DEF InSchedule, StagedSteps, NoMemory, Continues, Follows, Timely, BoundaryOf

\* The settlement and the failure: an entry becomes a dead letter only when
\* the target has refused it.
LEMMA SettleInSchedule ==
    ASSUME InductiveInvariant, ScheduleInvariant, NEW s \in Sessions, Settle(s) \/ GiveBack(s),
           NEW p, p = pc'[s], NEW m, m = mem'[s]
    PROVE  DeadIsUnapplied' /\ InSchedule(p, m)' /\ UNCHANGED intents
<1>0. /\ pc \in [Sessions -> Steps] /\ mem \in [Sessions -> Memory] /\ InSchedule(pc[s], mem[s])
      /\ DeadIsUnapplied /\ outbox \in Seq(OutboxEntry)
      /\ \A q \in 1..Len(outbox) : outbox[q] \in OutboxEntry
  BY OutboxTypes DEF InductiveInvariant, TypeOK, ScheduleInvariant
<1>1. UNCHANGED <<intents, applied>> /\ pc[s] \in {"settle", "fail"}
  BY DEF Settle, CompleteOutbox, GiveBack, FailOutbox
<1>2. PICK r : r = mem[s].intent.projection_revision
  OBVIOUS
<1>3. r \in 1..Len(outbox)
  BY <1>1, <1>2, IntentInHand DEF StagedSteps
<1>4. DeadIsUnapplied'
  <2>1. CASE Settle(s)
    <3>1. Complete(r)
      BY <1>2, <2>1 DEF Settle, CompleteOutbox
    <3>2. /\ Len(outbox') = Len(outbox) /\ outbox'[r].status = "complete"
          /\ \A q \in 1..Len(outbox) : q # r => outbox'[q] = outbox[q]
      BY <1>0, <1>3, <3>1 DEF Complete, OutboxEntry
    <3>. QED BY <1>0, <1>1, <3>2 DEF DeadIsUnapplied
  <2>2. CASE GiveBack(s)
    <3>1. Len(applied) < r
      BY <1>0, <1>2, <2>2 DEF GiveBack, InSchedule
    <3>2. PICK e : outbox' = [outbox EXCEPT ![r] = e]
      BY <1>2, <2>2 DEF GiveBack, FailOutbox
    <3>3. /\ Len(outbox') = Len(outbox)
          /\ \A q \in 1..Len(outbox) : q # r => outbox'[q] = outbox[q]
      BY <1>0, <1>3, <3>2
    <3>. QED BY <1>0, <1>1, <3>1, <3>3 DEF DeadIsUnapplied
  <2>. QED BY <2>1, <2>2
<1>5. PICK confirmed : Continue(s, confirmed)
  BY DEF Settle, GiveBack
<1>. QED BY <1>0, <1>1, <1>4, <1>5, ContinueInSchedule

LEMMA LeaseInSchedule ==
    ASSUME InductiveInvariant, ScheduleInvariant, NEW s \in Sessions, Lease(s),
           NEW p, p = pc'[s], NEW m, m = mem'[s]
    PROVE  DeadIsUnapplied' /\ InSchedule(p, m)' /\ UNCHANGED intents
<1>0. /\ pc \in [Sessions -> Steps] /\ mem \in [Sessions -> Memory] /\ mem[s] \in Memory
      /\ InSchedule(pc[s], mem[s]) /\ DeadIsUnapplied /\ outbox \in Seq(OutboxEntry)
      /\ Len(outbox) = Len(intents)
      /\ \A q \in 1..Len(outbox) : outbox[q] \in OutboxEntry
  BY Types, OutboxTypes DEF InductiveInvariant, TypeOK, ScheduleInvariant
<1>1. PICK r \in Leasable :
        /\ LeaseOutbox(r, LeaseOwner[s])
        /\ mem' = [mem EXCEPT ![s].intent = intents[r],
                              ![s].dispatch = outbox[r].dispatch_ordinal]
  BY DEF Lease
<1>2. r \in 1..Len(outbox) /\ UNCHANGED <<intents, applied, confirmations>>
  BY <1>1 DEF Leasable, LeaseOutbox, Lease
<1>3. PICK i, d : i = intents[r] /\ d = outbox[r].dispatch_ordinal
  OBVIOUS
<1>4. /\ p = "resume" /\ m.then = mem[s].then /\ m.due = mem[s].due /\ m.intent = i
  BY <1>0, <1>1, <1>3 DEF Lease, Goto, Memory
<1>5. i.projection_revision = r
  BY <1>0, <1>2, <1>3 DEF InductiveInvariant, TargetFollowsLog
<1>6. /\ Len(outbox') = Len(outbox) /\ outbox'[r].status = "leased"
      /\ \A q \in 1..Len(outbox) : q # r => outbox'[q] = outbox[q]
  BY <1>0, <1>1, <1>2 DEF LeaseOutbox, OutboxEntry
<1>7. DeadIsUnapplied'
  BY <1>0, <1>2, <1>6 DEF DeadIsUnapplied
<1>8. InSchedule(p, m)'
  BY <1>0, <1>2, <1>4, <1>5, <1>6
  DEF InSchedule, StagedSteps, Continues, Follows, Timely, BoundaryOf
<1>. QED BY <1>2, <1>7, <1>8

\* A lease that expires leaves every status as it is.
LEMMA ExpiryInSchedule ==
    ASSUME InductiveInvariant, ScheduleInvariant, NEW r \in 1..Len(outbox), ExpireLease(r),
           NEW p, NEW m, InSchedule(p, m),
           p \in StagedSteps => m.intent.projection_revision \in 1..Len(outbox)
    PROVE  DeadIsUnapplied' /\ InSchedule(p, m)'
<1>0. /\ outbox \in Seq(OutboxEntry) /\ DeadIsUnapplied
      /\ \A q \in 1..Len(outbox) : outbox[q] \in OutboxEntry
  BY OutboxTypes DEF ScheduleInvariant
<1>1. /\ outbox' = [outbox EXCEPT ![r].lease_expired = TRUE]
      /\ UNCHANGED <<intents, applied, confirmations>>
  BY DEF ExpireLease, LeaseExpires
<1>2. /\ Len(outbox') = Len(outbox) /\ DOMAIN outbox' = DOMAIN outbox
      /\ \A q \in 1..Len(outbox) : outbox'[q].status = outbox[q].status
  BY <1>0, <1>1 DEF OutboxEntry
<1>. QED
  BY <1>0, <1>1, <1>2
  DEF DeadIsUnapplied, InSchedule, AllConfirmed, Continues, Follows, Timely, BoundaryOf,
      HasIncompleteOutbox, Room

\* A session stages its intent at the next revision, queues it for its first
\* dispatch and takes it in hand.
LEMMA StagesNext ==
    ASSUME InductiveInvariant, StreamInvariant, NEW s \in Sessions, NEW i,
           Enqueue(i), i.projection_revision = Len(intents) + 1
    PROVE  intents' = Append(intents, i) /\ outbox' = Append(outbox, Pending)
<1>1. \A r \in 1..Len(intents) : intents[r].projection_revision = r
  BY DEF InductiveInvariant, TargetFollowsLog
<1>2. ~AlreadyStaged(i)
  BY <1>1, Types DEF AlreadyStaged
<1>. QED BY <1>2 DEF Enqueue

LEMMA StagedInSchedule ==
    ASSUME InductiveInvariant, ScheduleInvariant, NEW s \in Sessions, NEW i \in Intent,
           i.projection_revision = Len(intents) + 1,
           intents' = Append(intents, i), outbox' = Append(outbox, Pending), UNCHANGED applied,
           NEW m, m.intent = i, (m.then = "schedule" => Continues(m.due))'
    PROVE  DeadIsUnapplied' /\ InSchedule("apply", m)'
<1>0. /\ outbox \in Seq(OutboxEntry) /\ Len(outbox) = Len(intents) /\ Len(intents) \in Nat
      /\ DeadIsUnapplied
  BY Types, OutboxTypes DEF ScheduleInvariant
<1>1. PICK last : last = Len(intents) + 1
  OBVIOUS
<1>2. /\ 1..Len(outbox') = 1..Len(outbox) \cup {last} /\ outbox'[last] = Pending
      /\ \A r \in 1..Len(outbox) : outbox'[r] = outbox[r]
  BY <1>0, <1>1
<1>3. outbox'[last].status = "pending"
  BY <1>2 DEF Pending
<1>4. DeadIsUnapplied'
  BY <1>0, <1>2, <1>3 DEF DeadIsUnapplied
<1>. QED BY <1>1, <1>3, <1>4 DEF InSchedule, StagedSteps

\* Boundaries that continue the log continue it when an intent that is no
\* occurrence comes in between.
LEMMA OtherKeepsDue ==
    ASSUME InductiveInvariant, ScheduleInvariant, NEW i \in Intent,
           intents' = Append(intents, i), i.kind # "timeliness", NEW due, Continues(due)
    PROVE  Continues(due)'
<1>1. \A b : Follows(b) => Follows(b)'
  BY OtherKeepsOrder DEF ScheduleInvariant
<1>. QED BY <1>1 DEF Continues

\* publish stages a delivery.
LEMMA PublicationInSchedule ==
    ASSUME InductiveInvariant, StreamInvariant, ScheduleInvariant, NEW s \in Sessions,
           StagePublication(s), NEW p, p = pc'[s], NEW m, m = mem'[s]
    PROVE  /\ OccurrencesInOrder' /\ BoundariesIncrease' /\ TimelyFitPage' /\ DeadIsUnapplied'
           /\ InSchedule(p, m)'
<1>0. /\ pc \in [Sessions -> Steps] /\ mem \in [Sessions -> Memory] /\ mem[s] \in Memory
      /\ InSchedule(pc[s], mem[s]) /\ Consistent(pc[s], mem[s])
  BY Types DEF InductiveInvariant, TypeOK, ScheduleInvariant
<1>1. PICK i : i = mem[s].intent
  OBVIOUS
<1>2. /\ i \in Intent /\ i.projection_revision = Len(intents) + 1 /\ i.kind # "timeliness"
  BY <1>0, <1>1 DEF StagePublication, Consistent, StreamInvariant, InSchedule
<1>3. intents' = Append(intents, i) /\ outbox' = Append(outbox, Pending)
  BY <1>1, <1>2, StagesNext DEF StagePublication, StageIntent
<1>4. PICK h : mem' = [mem EXCEPT ![s].stream = h, ![s].dispatch = 1]
  BY DEF StagePublication
<1>5. /\ p = "apply" /\ m.intent = i /\ m.then = mem[s].then /\ m.due = mem[s].due
      /\ UNCHANGED applied
  BY <1>0, <1>1, <1>4 DEF StagePublication, Goto, Memory
<1>6. (m.then = "schedule" => Continues(m.due))'
  BY <1>0, <1>2, <1>3, <1>5, OtherKeepsDue DEF InSchedule
<1>7. DeadIsUnapplied' /\ InSchedule(p, m)'
  BY <1>2, <1>3, <1>5, <1>6, StagedInSchedule
<1>. QED BY <1>2, <1>3, <1>7, OtherKeepsOrder DEF ScheduleInvariant

\* _stage_heartbeat and run_scheduled stage what has no claim.
LEMMA ScheduledStages ==
    ASSUME InductiveInvariant, StreamInvariant, NEW s \in Sessions,
           NEW kind \in {"timeliness", "heartbeat"}, NEW at \in Nat, NEW next, NEW due,
           pc[s] \in {"stage_heartbeat", "stage_occurrence"},
           NEW i, i = BuildIntent(s, kind, None, at), StageScheduled(s, i, next, due)
    PROVE  /\ i \in Intent /\ i.kind = kind /\ i.scheduled_boundary = at
           /\ i.projection_revision = Len(intents) + 1
           /\ intents' = Append(intents, i) /\ outbox' = Append(outbox, Pending)
           /\ UNCHANGED applied
           /\ pc'[s] = "apply" /\ mem'[s].intent = i /\ mem'[s].then = next
           /\ mem'[s].due = due
<1>0. /\ pc \in [Sessions -> Steps] /\ mem \in [Sessions -> Memory] /\ mem[s] \in Memory
      /\ Consistent(pc[s], mem[s]) /\ stream \in StreamState /\ Len(intents) \in Nat
  BY Types DEF InductiveInvariant, TypeOK
<1>1. Held(s) = stream /\ stream.required_projection_revision = Len(intents)
      /\ mem[s].contract \in Contracts
  BY <1>0 DEF StreamInvariant, HoldingSteps, Steps, Held, RequiredIsLastStaged, Consistent
<1>2. /\ i \in Intent /\ i.kind = kind /\ i.scheduled_boundary = at
      /\ i.projection_revision = Len(intents) + 1
  BY <1>0, <1>1 DEF BuildIntent, Intent
<1>3. PICK h : h = Reserve(Held(s), i)
  OBVIOUS
<1>4. /\ Enqueue(i) /\ pc' = [pc EXCEPT ![s] = "apply"] /\ UNCHANGED applied
      /\ mem' = [mem EXCEPT ![s].stream = h, ![s].intent = i,
                            ![s].dispatch = 1, ![s].then = next, ![s].due = due]
  BY <1>3 DEF StageScheduled, StageIntent, Goto
<1>5. /\ pc'[s] = "apply" /\ mem'[s].intent = i /\ mem'[s].then = next /\ mem'[s].due = due
  BY <1>0, <1>4 DEF Memory
<1>6. intents' = Append(intents, i) /\ outbox' = Append(outbox, Pending)
  BY <1>2, <1>4, StagesNext
<1>. QED BY <1>2, <1>4, <1>5, <1>6

LEMMA HeartbeatInSchedule ==
    ASSUME InductiveInvariant, StreamInvariant, ScheduleInvariant, NEW s \in Sessions,
           StageHeartbeat(s), NEW p, p = pc'[s], NEW m, m = mem'[s]
    PROVE  /\ OccurrencesInOrder' /\ BoundariesIncrease' /\ TimelyFitPage' /\ DeadIsUnapplied'
           /\ InSchedule(p, m)'
<1>0. PICK i : i = BuildIntent(s, "heartbeat", None, 0)
  OBVIOUS
<1>1. /\ i \in Intent /\ i.kind = "heartbeat" /\ i.projection_revision = Len(intents) + 1
      /\ intents' = Append(intents, i) /\ outbox' = Append(outbox, Pending)
      /\ UNCHANGED applied
      /\ p = "apply" /\ m.intent = i /\ m.then = "since"
  BY <1>0, ScheduledStages DEF StageHeartbeat
<1>2. DeadIsUnapplied' /\ InSchedule(p, m)'
  BY <1>1, StagedInSchedule
<1>. QED BY <1>1, <1>2, OtherKeepsOrder DEF ScheduleInvariant

\* The two gates of run_scheduled leave no occurrence unconfirmed.
LEMMA GatesConfirm ==
    ASSUME InductiveInvariant, ScheduleInvariant, NEW s \in Sessions, pc[s] = "stage_occurrence"
    PROVE  AllConfirmed /\ Continues(mem[s].due)
<1>0. /\ InSchedule(pc[s], mem[s]) /\ DeadIsUnapplied /\ Len(outbox) = Len(intents)
      /\ \A r \in 1..Len(outbox) : outbox[r] \in OutboxEntry
      /\ Len(intents) \in Nat /\ Len(applied) \in Nat
  BY Types, OutboxTypes DEF ScheduleInvariant
<1>1. ~HasIncompleteOutbox /\ Len(intents) <= Len(applied)
  BY <1>0 DEF InSchedule
<1>2. ASSUME NEW r \in 1..Len(intents) PROVE r \in confirmations
  <2>1. outbox[r].status # "dead_letter"
    BY <1>0, <1>1 DEF DeadIsUnapplied
  <2>2. outbox[r].status = "complete"
    BY <1>0, <1>1, <2>1 DEF HasIncompleteOutbox, OutboxEntry, OutboxStatus
  <2>. QED BY <1>0, <2>2 DEF InductiveInvariant, ConfirmedIsApplied
<1>3. AllConfirmed
  BY <1>2 DEF AllConfirmed
<1>. QED BY <1>0, <1>3 DEF InSchedule

LEMMA OccurrenceInSchedule ==
    ASSUME InductiveInvariant, StreamInvariant, ScheduleInvariant, LogFitsPage,
           NEW s \in Sessions, StageOccurrence(s), NEW p, p = pc'[s], NEW m, m = mem'[s]
    PROVE  /\ OccurrencesInOrder' /\ BoundariesIncrease' /\ TimelyFitPage' /\ DeadIsUnapplied'
           /\ InSchedule(p, m)'
<1>0. /\ pc[s] = "stage_occurrence" /\ mem[s] \in Memory /\ Consistent(pc[s], mem[s])
      /\ InSchedule(pc[s], mem[s]) /\ Len(intents) \in Nat
  BY Types DEF StageOccurrence, ScheduleInvariant
<1>1. PICK d : d = mem[s].due
  OBVIOUS
<1>2. d \in Seq(Nat) /\ d # <<>> /\ Continues(d)
  BY <1>0, <1>1, GatesConfirm DEF Memory, Consistent
<1>3. /\ Head(d) = d[1] /\ d[1] \in Nat /\ Len(d) \in Nat \ {0}
      /\ Len(Tail(d)) = Len(d) - 1
      /\ \A n \in 1..Len(d) - 1 : Tail(d)[n] = d[n + 1]
  BY <1>2
<1>4. PICK at, e : at = d[1] /\ e = Tail(d) /\ at \in Nat
  BY <1>3
<1>5. PICK i : i = BuildIntent(s, "timeliness", None, at)
  OBVIOUS
<1>6. /\ i \in Intent /\ i.kind = "timeliness" /\ i.scheduled_boundary = at
      /\ i.projection_revision = Len(intents) + 1
      /\ intents' = Append(intents, i) /\ outbox' = Append(outbox, Pending)
      /\ UNCHANGED applied
      /\ p = "apply" /\ m.intent = i /\ m.due = e
  <2>1. StageScheduled(s, i, "schedule", e)
    BY <1>1, <1>3, <1>4, <1>5 DEF StageOccurrence
  <2>2. at \in Nat /\ pc[s] \in {"stage_heartbeat", "stage_occurrence"}
    BY <1>0, <1>4
  <2>3. /\ i \in Intent /\ i.kind = "timeliness" /\ i.scheduled_boundary = at
        /\ i.projection_revision = Len(intents) + 1
        /\ intents' = Append(intents, i) /\ outbox' = Append(outbox, Pending)
        /\ UNCHANGED applied
        /\ pc'[s] = "apply" /\ mem'[s].intent = i /\ mem'[s].due = e
    BY <1>5, <2>1, <2>2, ScheduledStages
  <2>. QED BY <2>3
<1>7. Len(intents) < LeaseItemLimit /\ LeaseItemLimit \in Nat
  BY <1>0, Parameters DEF InSchedule, Room, LogFitsPage
<1>8. Follows(i.scheduled_boundary)
  BY <1>2, <1>4, <1>6 DEF Continues
<1>9. /\ OccurrencesInOrder' /\ BoundariesIncrease' /\ TimelyFitPage'
      /\ Follows(i.scheduled_boundary + 1)'
  BY <1>6, <1>7, <1>8, OccurrenceKeepsOrder DEF ScheduleInvariant
<1>10. /\ e # <<>> => e[1] = i.scheduled_boundary + 1
       /\ \A n \in 1..Len(e) - 1 : e[n + 1] = e[n] + 1
  <2>1. \A n \in 1..Len(d) - 1 : d[n + 1] = d[n] + 1
    BY <1>2 DEF Continues
  <2>2. Len(e) = Len(d) - 1 /\ \A n \in 1..Len(d) - 1 : e[n] = d[n + 1]
    BY <1>3, <1>4
  <2>3. e \in Seq(Nat)
    BY <1>2, <1>4
  <2>4. e # <<>> => 1 \in 1..Len(d) - 1
    BY <1>3, <2>2, <2>3
  <2>5. e # <<>> => e[1] = i.scheduled_boundary + 1
    BY <1>4, <1>6, <2>1, <2>2, <2>4
  <2>6. ASSUME NEW n \in 1..Len(e) - 1 PROVE e[n + 1] = e[n] + 1
    <3>1. n \in 1..Len(d) - 1 /\ n + 1 \in 1..Len(d) - 1
      BY <1>3, <2>2, <2>6
    <3>. QED BY <2>1, <2>2, <3>1
  <2>. QED BY <2>5, <2>6
<1>11. Continues(e)'
  BY <1>9, <1>10 DEF Continues
<1>12. DeadIsUnapplied' /\ InSchedule(p, m)'
  BY <1>6, <1>11, StagedInSchedule
<1>. QED BY <1>9, <1>12

LEMMA ScheduleStep ==
    ASSUME InductiveInvariant, StreamInvariant, AttemptInvariant, ScheduleInvariant, OneSession,
           LogFitsPage, "reconcile" \notin Commands, [Next]_vars
    PROVE  ScheduleInvariant'
<1> DEFINE InLog == OccurrencesInOrder /\ BoundariesIncrease /\ TimelyFitPage
<1>1. ASSUME UNCHANGED intents PROVE InLog'
  BY <1>1 DEF ScheduleInvariant, OccurrencesInOrder, BoundariesIncrease, TimelyFitPage, Timely,
     BoundaryOf
<1>2. ASSUME UNCHANGED <<outbox, applied>> PROVE DeadIsUnapplied'
  BY <1>2 DEF ScheduleInvariant, DeadIsUnapplied
<1>3. ASSUME NEW s \in Sessions,
             \/ Reads(s) \/ SubmitManaged(s) \/ ApplyIntent(s) \/ Lease(s)
             \/ StageHeartbeat(s) \/ StageOccurrence(s)
             \/ \E state \in AttemptState : Moved(s, state) \/ Carried(s, state)
             \/ Register(s) \/ Activate(s) \/ DeployRegister(s) \/ DeployActivate(s)
      PROVE  ScheduleInvariant'
  <2>0. PICK p, m : p = pc'[s] /\ m = mem'[s]
    OBVIOUS
  <2>1. CASE Reads(s)
    <3>1. UNCHANGED <<intents, outbox, applied, confirmations>>
      BY <2>1, ReadsWriteNothing
    <3>2. InSchedule(p, m)'
      BY <2>0, <2>1, <3>1, ReadsInSchedule, ScheduleAlone
    <3>. QED BY <1>1, <1>2, <2>0, <3>1, <3>2 DEF ScheduleInvariant, OneSession
  <2>2. CASE \/ SubmitManaged(s)
             \/ \E state \in AttemptState : Moved(s, state)
             \/ Register(s) \/ Activate(s) \/ DeployRegister(s) \/ DeployActivate(s)
    <3>1. InSchedule(p, m) /\ UNCHANGED <<intents, outbox, applied, confirmations>>
      BY <2>0, <2>2, MovesInSchedule
    <3>2. InSchedule(p, m)'
      BY <3>1, ScheduleAlone
    <3>. QED BY <1>1, <1>2, <2>0, <3>1, <3>2 DEF ScheduleInvariant, OneSession
  <2>3. CASE ApplyIntent(s)
    BY <1>1, <2>0, <2>3, ApplyInSchedule DEF ScheduleInvariant, OneSession
  <2>4. CASE Lease(s)
    BY <1>1, <2>0, <2>4, LeaseInSchedule DEF ScheduleInvariant, OneSession
  <2>5. CASE Settle(s) \/ GiveBack(s)
    BY <1>1, <2>0, <2>5, SettleInSchedule DEF ScheduleInvariant, OneSession
  <2>6. CASE StagePublication(s)
    BY <2>0, <2>6, PublicationInSchedule DEF ScheduleInvariant, OneSession
  <2>7. CASE StageHeartbeat(s)
    BY <2>0, <2>7, HeartbeatInSchedule DEF ScheduleInvariant, OneSession
  <2>8. CASE StageOccurrence(s)
    BY <2>0, <2>8, OccurrenceInSchedule DEF ScheduleInvariant, OneSession
  <2>. QED BY <1>3, <2>1, <2>2, <2>3, <2>4, <2>5, <2>6, <2>7, <2>8 DEF Carried
<1>4. ASSUME NEW r \in 1..Len(outbox), ExpireLease(r) PROVE ScheduleInvariant'
  <2>1. UNCHANGED <<intents, pc, mem>>
    BY <1>4 DEF ExpireLease, LeaseExpires, sessionVars
  <2>2. DeadIsUnapplied' /\ \A s \in Sessions : InSchedule(pc[s], mem[s])'
    <3>1. DeadIsUnapplied'
      <4>1. InSchedule("idle", NoMemory)
        BY IdleInSchedule
      <4>. QED BY <1>4, <4>1, ExpiryInSchedule DEF StagedSteps
    <3>2. ASSUME NEW s \in Sessions PROVE InSchedule(pc[s], mem[s])'
      <4>1. PICK p, m : p = pc[s] /\ m = mem[s]
        OBVIOUS
      <4>2. InSchedule(p, m) /\ (p \in StagedSteps => m.intent.projection_revision \in 1..Len(outbox))
        BY <4>1, IntentInHand DEF ScheduleInvariant
      <4>3. InSchedule(p, m)' /\ p = pc'[s] /\ m = mem'[s]
        BY <1>4, <2>1, <4>1, <4>2, ExpiryInSchedule
      <4>. QED BY <4>3
    <3>. QED BY <3>1, <3>2
  <2>. QED BY <1>1, <2>1, <2>2 DEF ScheduleInvariant
<1>5. ASSUME PassBoundary \/ UNCHANGED vars PROVE ScheduleInvariant'
  <2>1. UNCHANGED <<intents, outbox, applied, confirmations, pc, mem>>
    BY <1>5 DEF PassBoundary, storeVars, sessionVars, vars
  <2>2. ASSUME NEW s \in Sessions PROVE InSchedule(pc[s], mem[s])'
    <3>1. PICK p, m : p = pc[s] /\ m = mem[s]
      OBVIOUS
    <3>2. InSchedule(p, m)' /\ p = pc'[s] /\ m = mem'[s]
      BY <2>1, <3>1, ScheduleAlone DEF ScheduleInvariant
    <3>. QED BY <3>2
  <2>. QED BY <1>1, <1>2, <2>1, <2>2 DEF ScheduleInvariant
<1>. QED BY <1>3, <1>4, <1>5, StepKinds

LEMMA ScheduleInit ==
    ASSUME Init
    PROVE  ScheduleInvariant
<1>1. 1..Len(intents) = {} /\ 1..Len(outbox) = {}
  BY DEF Init
<1>2. \A s \in Sessions : InSchedule(pc[s], mem[s])
  BY IdleInSchedule DEF Init
<1>. QED
  BY <1>1, <1>2
  DEF ScheduleInvariant, OccurrencesInOrder, BoundariesIncrease, TimelyFitPage, DeadIsUnapplied

\* The gates of run_scheduled and the outbox keep a session from projecting an
\* occurrence over one that is not confirmed: the inductive invariant of the
\* theorem below.
THEOREM ScheduleInvariantHolds ==
    ASSUME OneSession, LogFitsPage, "reconcile" \notin Commands
    PROVE  Spec => []ScheduleInvariant
<1>1. Init => ScheduleInvariant
  BY ScheduleInit
<1>2. InductiveInvariant /\ StreamInvariant /\ AttemptInvariant /\ ScheduleInvariant /\ [Next]_vars
        => ScheduleInvariant'
  BY ScheduleStep
<1>3. Spec => [](EpochInvariant /\ AttemptInvariant)
  BY AttemptInvariantHolds
<1>4. Spec => []StreamInvariant
  BY StreamInvariantHolds
<1>5. Spec => []ScheduleInvariant
  BY <1>1, <1>2, <1>3, <1>4, InvariantHolds, PTL DEF Spec
<1>. QED BY <1>5

\* run_scheduled projects every scheduled boundary after the first once and in
\* order, whatever crashes, refusals, dead letters and caps per call come in
\* between.
THEOREM OccurrencesAreInOrder ==
    ASSUME OneSession, LogFitsPage, "reconcile" \notin Commands
    PROVE  Spec => []OccurrencesInOrder
<1>1. ScheduleInvariant => OccurrencesInOrder
  BY DEF ScheduleInvariant
<1>2. Spec => []ScheduleInvariant
  BY ScheduleInvariantHolds
<1>. QED BY <1>1, <1>2, PTL

=============================================================================
