------------------------- MODULE LandingRuntimeProofs -------------------------
(***************************************************************************)
(* Proofs about LandingRuntime for any number of sessions, claims and       *)
(* contracts, and any bounds.                                               *)
(***************************************************************************)
EXTENDS LandingRuntime, TLAPS

\* The parts of the invariant that only read the store and the target.
StoreInvariant ==
    /\ TargetFollowsLog
    /\ ConfirmedIsApplied
    /\ PublishedOnce
    /\ TablesAgree

\* What the other sessions may rely on when session s takes a step: the logs
\* only grow, the state revision only grows, and while it stays, no claim is
\* newly accepted and only the owner stages one.
Grows(s) ==
    /\ Len(intents) <= Len(intents')
    /\ \A r \in 1..Len(intents) : intents'[r] = intents[r]
    /\ Len(applied) <= Len(applied')
    /\ stream.state_revision <= stream'.state_revision
    /\ \A c \in Claims : Accepted(c) => Accepted(c)'
    /\ stream'.state_revision = stream.state_revision =>
         /\ \A c \in Claims : Accepted(c)' => Accepted(c)
         /\ \A r \in 1..Len(intents') :
              r > Len(intents) => intents'[r].claim = None \/ Owns(s)

\* The step moves session s alone.
Moves(s, p, m) ==
    /\ p \in Steps
    /\ m \in Memory
    /\ pc' = [pc EXCEPT ![s] = p]
    /\ mem' = [mem EXCEPT ![s] = m]

\* Another session stays consistent while s takes a step.
LEMMA OthersStayConsistent ==
    ASSUME InductiveInvariant, StoreTypeOK', applied' \in Seq(Intent),
           NEW s \in Sessions, Grows(s),
           NEW p \in Steps, NEW m \in Memory, Consistent(p, m),
           p \in OwningSteps /\ m.stream.state_revision = stream.state_revision
               => ~Owns(s)
    PROVE  Consistent(p, m)'
<1> DEFINE r == m.intent.projection_revision
           current == m.stream.state_revision = stream.state_revision
<1>1. /\ Len(intents) \in Nat /\ Len(intents') \in Nat
      /\ Len(applied) \in Nat /\ Len(applied') \in Nat
      /\ stream.state_revision \in Nat /\ stream'.state_revision \in Nat
      /\ m.stream.state_revision \in Nat
      /\ m.stream.required_projection_revision \in Nat
      /\ m.claim \in Claims \cup {None}
  <2>1. stream \in StreamState /\ stream' \in StreamState /\ m.stream \in StreamState
    BY DEF InductiveInvariant, TypeOK, StoreTypeOK, Memory
  <2>2. /\ Len(intents) \in Nat /\ Len(intents') \in Nat
        /\ Len(applied) \in Nat /\ Len(applied') \in Nat
    BY DEF InductiveInvariant, TypeOK, StoreTypeOK
  <2>3. m.claim \in Claims \cup {None}
    BY DEF Memory
  <2>. QED BY <2>1, <2>2, <2>3 DEF StreamState
<1>2. current' => current
  BY <1>1 DEF Consistent, Grows
<1>3. p \in SubmitSteps => m.claim \in Claims /\ (current' => ~Accepted(m.claim)')
  BY <1>1, <1>2 DEF Consistent, Grows
<1>4. p \notin {"idle"} \cup SubmitSteps => m.claim = None \/ Accepted(m.claim)'
  BY <1>1 DEF Consistent, Grows
<1>5. p \in StagedSteps =>
        m.intent \in Intent /\ r <= Len(intents') /\ m.intent = intents'[r]
  <2> SUFFICES ASSUME p \in StagedSteps
               PROVE  m.intent \in Intent /\ r <= Len(intents') /\ m.intent = intents'[r]
    OBVIOUS
  <2>1. m.intent \in Intent /\ r <= Len(intents) /\ m.intent = intents[r]
    BY DEF Consistent
  <2>2. r \in Nat \ {0}
    BY <2>1 DEF Memory, Intent
  <2>. QED BY <1>1, <2>1, <2>2 DEF Grows
<1>6. p \in {"applied", "settle"} => r <= Len(applied')
  <2> SUFFICES ASSUME p \in {"applied", "settle"} PROVE r <= Len(applied')
    OBVIOUS
  <2>1. m.intent \in Intent /\ r <= Len(applied)
    BY DEF Consistent, StagedSteps
  <2>2. r \in Nat
    BY <2>1 DEF Memory, Intent
  <2>. QED BY <1>1, <2>1, <2>2 DEF Grows
<1>7. p \in OwningSteps => m.claim \in Claims /\ (current' => ~Staged(m.claim)')
  <2> SUFFICES ASSUME p \in OwningSteps, current', Staged(m.claim)' PROVE FALSE
    BY DEF Consistent
  <2>1. m.claim \in Claims /\ ~Staged(m.claim) /\ ~Owns(s)
    BY <1>2 DEF Consistent
  <2>2. stream'.state_revision = stream.state_revision
    BY <1>2
  <2>3. PICK q \in 1..Len(intents') : intents'[q].claim = m.claim
    BY DEF Staged
  <2>4. CASE q <= Len(intents)
    BY <1>1, <2>1, <2>3, <2>4 DEF Staged, Grows
  <2>5. CASE q > Len(intents)
    BY <1>1, <2>1, <2>2, <2>3, <2>5, NoneIsNoValue DEF Grows
  <2>. QED BY <1>1, <2>4, <2>5
<1>8. /\ m.stream.required_projection_revision <= Len(intents')
      /\ m.stream.state_revision <= stream'.state_revision
      /\ m.log \subseteq 1..Len(intents')
  BY <1>1 DEF Consistent, Grows
<1>9. p = "stage" =>
        m.intent \in Intent /\ m.intent.claim = m.claim /\ r <= Len(intents') + 1
  <2> SUFFICES ASSUME p = "stage"
               PROVE  /\ m.intent \in Intent /\ m.intent.claim = m.claim
                      /\ r <= Len(intents') + 1
    OBVIOUS
  <2>1. m.intent \in Intent /\ m.intent.claim = m.claim /\ r <= Len(intents) + 1
    BY DEF Consistent
  <2>2. r \in Nat
    BY <2>1 DEF Intent
  <2>. QED BY <1>1, <2>1, <2>2 DEF Grows
<1>10. p \in {"predecessor", "insert"} => (current' => ~Conflicts(m.claim)')
  BY <1>1, <1>2, <1>3 DEF Consistent, Conflicts, Accepted, Grows, SubmitSteps
<1>. QED
  BY <1>3, <1>4, <1>5, <1>6, <1>7, <1>8, <1>9, <1>10 DEF Consistent

\* A step of session s preserves the invariant when it keeps the tables in
\* order, leaves s consistent, and makes s an owner only by moving the state
\* revision past every other session.
LEMMA StepPreserves ==
    ASSUME InductiveInvariant, NEW s \in Sessions,
           NEW p, NEW m, Moves(s, p, m),
           StoreTypeOK', applied' \in Seq(Intent),
           boundary' \in Nat, faults' \in Nat, crashes' \in Nat,
           StoreInvariant', Grows(s), Consistent(p, m)',
           p \in OwningSteps =>
               \/ stream.state_revision < stream'.state_revision
               \/ m.stream.state_revision # stream'.state_revision
    PROVE  InductiveInvariant'
<1>1. TypeOK'
  BY DEF InductiveInvariant, TypeOK, Moves
<1>2. /\ pc'[s] = p /\ mem'[s] = m
      /\ \A t \in Sessions \ {s} : pc'[t] = pc[t] /\ mem'[t] = mem[t]
  BY DEF Moves, InductiveInvariant, TypeOK
<1>3. ASSUME NEW t \in Sessions PROVE Consistent(pc[t], mem[t])'
  <2>1. CASE t = s
    BY <1>2, <2>1 DEF Consistent
  <2>2. CASE t # s
    <3>1. pc[t] \in Steps /\ mem[t] \in Memory /\ Consistent(pc[t], mem[t])
      BY DEF InductiveInvariant, TypeOK
    <3>2. pc[t] \in OwningSteps /\ mem[t].stream.state_revision = stream.state_revision
            => ~Owns(s)
      BY <2>2 DEF InductiveInvariant, Owns, Expected
    <3>3. pc'[t] = pc[t] /\ mem'[t] = mem[t]
      BY <1>2, <2>2
    <3>4. ASSUME NEW q \in Steps, NEW n \in Memory, q = pc[t], n = mem[t]
          PROVE  Consistent(q, n)'
      BY <3>1, <3>2, <3>4, OthersStayConsistent
    <3>. QED BY <3>1, <3>3, <3>4 DEF Consistent
  <2>. QED BY <2>1, <2>2
<1>4. ASSUME NEW t \in Sessions, NEW u \in Sessions, Owns(t)', Owns(u)'
      PROVE  t = u
  <2>1. \A v \in Sessions \ {s} :
          Owns(v)' => Owns(v) /\ stream'.state_revision = stream.state_revision
    <3> SUFFICES ASSUME NEW v \in Sessions \ {s}, Owns(v)'
                 PROVE  Owns(v) /\ stream'.state_revision = stream.state_revision
      OBVIOUS
    <3>1. pc[v] \in OwningSteps /\ Expected(v) = stream'.state_revision
      BY <1>2 DEF Owns, Expected
    <3>2. Expected(v) <= stream.state_revision
      BY DEF InductiveInvariant, Consistent, Expected
    <3>3. Expected(v) \in Nat /\ stream.state_revision \in Nat
      BY DEF InductiveInvariant, TypeOK, StoreTypeOK, Memory, StreamState, Expected
    <3>. QED BY <3>1, <3>2, <3>3 DEF Grows, Owns
  <2>2. Owns(s)' => stream.state_revision < stream'.state_revision
    BY <1>2 DEF Owns, Expected
  <2>3. stream.state_revision \in Nat /\ stream'.state_revision \in Nat
    BY DEF InductiveInvariant, TypeOK, StoreTypeOK, StreamState
  <2>. QED BY <1>4, <2>1, <2>2, <2>3 DEF InductiveInvariant
<1>. QED
  BY <1>1, <1>3, <1>4 DEF InductiveInvariant, StoreInvariant

\* A step that writes neither the store nor the target.
LEMMA LocalStep ==
    ASSUME InductiveInvariant, NEW s \in Sessions,
           NEW p, NEW m, Moves(s, p, m), UNCHANGED <<storeVars, applied>>,
           boundary' \in Nat, faults' \in Nat, crashes' \in Nat,
           Consistent(p, m),
           p \in OwningSteps => m.stream.state_revision # stream.state_revision
    PROVE  InductiveInvariant'
<1>1. StoreTypeOK' /\ applied' \in Seq(Intent)
  BY DEF InductiveInvariant, TypeOK, StoreTypeOK, storeVars
<1>2. StoreInvariant'
  BY DEF InductiveInvariant, StoreInvariant, TargetFollowsLog, PublishedOnce,
         ConfirmedIsApplied, TablesAgree, Accepted, storeVars
<1>3. stream.state_revision \in Nat /\ Len(intents) \in Nat /\ Len(applied) \in Nat
  BY DEF InductiveInvariant, TypeOK, StoreTypeOK, StreamState
<1>4. Grows(s)
  BY <1>3 DEF Grows, Accepted, storeVars
<1>5. Consistent(p, m)'
  BY DEF Consistent, Accepted, Conflicts, Staged, storeVars
<1>6. stream' = stream
  BY DEF storeVars
<1>. QED BY <1>1, <1>2, <1>4, <1>5, <1>6, StepPreserves

\* An idle session holds nothing that could become stale.
LEMMA IdleIsConsistent ==
    ASSUME InductiveInvariant
    PROVE  NoMemory \in Memory /\ Consistent("idle", NoMemory)
<1>1. NoMemory \in Memory
  BY DEF NoMemory, Memory, EmptyStream, StreamState, Continuations, Migration
<1>2. stream.state_revision \in Nat /\ Len(intents) \in Nat
  BY DEF InductiveInvariant, TypeOK, StoreTypeOK, StreamState
<1>. QED
  BY <1>1, <1>2 DEF Consistent, SubmitSteps, NoMemory, EmptyStream, StagedSteps, OwningSteps

\* A command that ends without a write preserves the invariant.
LEMMA CloseStep ==
    ASSUME InductiveInvariant, NEW s \in Sessions, Close(s),
           UNCHANGED <<storeVars, applied>>,
           boundary' \in Nat, faults' \in Nat, crashes' \in Nat
    PROVE  InductiveInvariant'
<1>1. Moves(s, "idle", NoMemory)
  BY IdleIsConsistent DEF Moves, Close, Steps
<1>. QED BY <1>1, IdleIsConsistent, LocalStep DEF OwningSteps

\* What the invariant says of the types a step needs.
LEMMA Types ==
    ASSUME InductiveInvariant, NEW s \in Sessions
    PROVE  /\ pc[s] \in Steps /\ mem[s] \in Memory /\ Consistent(pc[s], mem[s])
           /\ stream \in StreamState /\ stream.state_revision \in Nat
           /\ stream.required_projection_revision <= Len(intents)
           /\ Len(intents) \in Nat /\ Len(applied) \in Nat
           /\ intents \in Seq(Intent) /\ applied \in Seq(Intent)
           /\ boundary \in Nat /\ faults \in Nat /\ crashes \in Nat
BY DEF InductiveInvariant, TypeOK, StoreTypeOK, StreamState, TablesAgree

\* The target cursor counts the intents applied.
LEMMA CursorIsLength ==
    ASSUME InductiveInvariant
    PROVE  Cursor = Len(applied) /\ Cursor \in Nat
<1>1. applied \in Seq(Intent) /\ Len(applied) \in Nat
  BY DEF InductiveInvariant, TypeOK
<1>2. CASE applied = <<>>
  BY <1>2 DEF Cursor
<1>3. CASE applied # <<>>
  <2>1. Len(applied) \in 1..Len(applied) /\ Len(applied) \in 1..Len(intents)
    BY <1>1, <1>3 DEF InductiveInvariant, TypeOK, StoreTypeOK, TargetFollowsLog
  <2>2. applied[Len(applied)].projection_revision = Len(applied)
    BY <2>1 DEF InductiveInvariant, TargetFollowsLog
  <2>. QED BY <1>1, <1>3, <2>2 DEF Cursor
<1>. QED BY <1>2, <1>3

-----------------------------------------------------------------------------
(* Steps that only read *)

LEMMA StartPreserves ==
    ASSUME InductiveInvariant, NEW s \in Sessions, Start(s)
    PROVE  InductiveInvariant'
<1> DEFINE began == [NoMemory EXCEPT !.stream = stream]
<1>0. /\ NoMemory \in Memory
      /\ NoMemory.claim = None /\ NoMemory.log = {} /\ NoMemory.stream = EmptyStream
  BY IdleIsConsistent DEF NoMemory
<1>1. ASSUME NEW c \in Claims, NEW k \in Contracts, IngestFile(s, c, k)
      PROVE  InductiveInvariant'
  <2> DEFINE m == [NoMemory EXCEPT !.claim = c, !.contract = k, !.stream = stream]
  <2>1. m \in Memory /\ m.claim = c /\ m.contract = k /\ m.stream = stream /\ m.log = {}
    BY <1>0, Types DEF Memory
  <2>2. Moves(s, "submit", m)
    BY <1>1, <2>1 DEF IngestFile, Goto, Moves, Steps
  <2>3. Consistent("submit", m)
    BY <1>1, <2>1, Types DEF IngestFile, Consistent, SubmitSteps, Accepted, StagedSteps, OwningSteps
  <2>. HIDE DEF m
  <2>. QED BY <1>1, <2>2, <2>3, Types, LocalStep DEF IngestFile, envVars, OwningSteps
<1>2. ASSUME NEW k \in Contracts, IngestDue(s, k) PROVE InductiveInvariant'
  <2> DEFINE m == [NoMemory EXCEPT !.contract = k, !.then = "heartbeat"]
  <2>1. /\ m \in Memory /\ m.claim = None /\ m.contract = k /\ m.stream = EmptyStream
        /\ m.log = {} /\ m.then # "done"
    BY <1>0 DEF Memory, Continuations
  <2>2. Moves(s, "lease", m)
    BY <1>2, <2>1 DEF IngestDue, Goto, Moves, Steps
  <2>3. Consistent("lease", m)
    BY <2>1, Types DEF Consistent, SubmitSteps, StagedSteps, OwningSteps, EmptyStream
  <2>. HIDE DEF m
  <2>. QED BY <1>2, <2>2, <2>3, Types, LocalStep DEF IngestDue, envVars, OwningSteps
<1>3. ASSUME NEW k \in Contracts, Reconcile(s, k) PROVE InductiveInvariant'
  <2> DEFINE m == [NoMemory EXCEPT !.contract = k, !.then = "log"]
  <2>1. /\ m \in Memory /\ m.claim = None /\ m.contract = k /\ m.stream = EmptyStream
        /\ m.log = {} /\ m.then # "done"
    BY <1>0 DEF Memory, Continuations
  <2>2. Moves(s, "lease", m)
    BY <1>3, <2>1 DEF Reconcile, Goto, Moves, Steps
  <2>3. Consistent("lease", m)
    BY <2>1, Types DEF Consistent, SubmitSteps, StagedSteps, OwningSteps, EmptyStream
  <2>. HIDE DEF m
  <2>. QED BY <1>3, <2>2, <2>3, Types, LocalStep DEF Reconcile, envVars, OwningSteps
<1>4. ASSUME NEW k \in Contracts, NEW mi \in Migration, ContractCommand(s, k, mi)
      PROVE  InductiveInvariant'
  <2> DEFINE m == [NoMemory EXCEPT !.contract = k, !.stream = stream, !.migration = mi]
  <2>1. m \in Memory /\ m.claim = None /\ m.contract = k /\ m.stream = stream /\ m.log = {}
    BY <1>0, Types DEF Memory
  <2>2. Moves(s, "register", m)
    BY <1>4, <2>1 DEF ContractCommand, Goto, Moves, Steps
  <2>3. Consistent("register", m)
    BY <2>1, Types DEF Consistent, SubmitSteps, StagedSteps, OwningSteps
  <2>. HIDE DEF m
  <2>. QED BY <1>4, <2>2, <2>3, Types, LocalStep DEF ContractCommand, envVars, OwningSteps
<1>5. ASSUME NEW k \in Contracts, NEW step \in {"deploy_register", "deploy_activate"},
             DeploymentCommand(s, k, step)
      PROVE  InductiveInvariant'
  <2> DEFINE m == [NoMemory EXCEPT
                     !.contract = k, !.stream = stream, !.cursor = Cursor,
                     !.deployment_revision = deployment.deployment_revision]
  <2>0. Cursor \in Nat
    BY CursorIsLength
  <2>1. m \in Memory /\ m.claim = None /\ m.contract = k /\ m.stream = stream /\ m.log = {}
    BY <1>0, <2>0, Types DEF Memory, InductiveInvariant, TypeOK, StoreTypeOK
  <2>2. Moves(s, step, m)
    BY <1>5, <2>1 DEF DeploymentCommand, Goto, Moves, Steps
  <2>3. Consistent(step, m)
    BY <2>1, Types DEF Consistent, SubmitSteps, StagedSteps, OwningSteps
  <2>. HIDE DEF m
  <2>. QED BY <1>5, <2>2, <2>3, Types, LocalStep DEF DeploymentCommand, envVars, OwningSteps
<1>. QED BY <1>1, <1>2, <1>3, <1>4, <1>5 DEF Start

\* Refusals and crashes end the command.
LEMMA RefusalPreserves ==
    ASSUME InductiveInvariant, NEW s \in Sessions,
           Refuse(s) \/ Crash(s) \/ SubmitRefused(s) \/ EndSchedule(s) \/ EndReplay(s)
             \/ ActivateRefused(s) \/ DeployRefused(s)
    PROVE  InductiveInvariant'
<1>1. Close(s) /\ UNCHANGED <<storeVars, applied>>
  BY DEF Refuse, StaleRevision, StageConflict, LeaseConflict, Crash, SubmitRefused,
         EndSchedule, EndReplay, ActivateRefused, DeployRefused
<1>2. boundary' \in Nat /\ faults' \in Nat /\ crashes' \in Nat
  BY Types DEF Refuse, StaleRevision, StageConflict, LeaseConflict, Crash, SubmitRefused,
         EndSchedule, EndReplay, ActivateRefused, DeployRefused, envVars
<1>. QED BY <1>1, <1>2, CloseStep

\* Reads of the store and of the target.
LEMMA ReadPreserves ==
    ASSUME InductiveInvariant, NEW s \in Sessions,
           NothingDue(s) \/ Resume(s) \/ Heartbeat(s) \/ HeartbeatGate(s)
             \/ ReadStatus(s) \/ ReadSince(s) \/ Schedule(s) \/ ScheduleGate(s)
             \/ ReadLog(s) \/ ReplayIntent(s)
    PROVE  InductiveInvariant'
<1>0. /\ UNCHANGED <<storeVars, applied>>
      /\ boundary' \in Nat /\ faults' \in Nat /\ crashes' \in Nat
  BY Types DEF NothingDue, Resume, Heartbeat, HeartbeatGate, ReadStatus, ReadSince,
               Schedule, ScheduleGate, ReadLog, ReplayIntent, envVars
<1>1. CASE NothingDue(s)
  <2> DEFINE p == IF mem[s].then = "heartbeat" THEN "heartbeat" ELSE "status"
  <2>1. Moves(s, p, mem[s])
    BY <1>1, Types DEF NothingDue, Goto, Moves, Steps, InductiveInvariant, TypeOK
  <2>2. Consistent(p, mem[s])
    BY <1>1, Types DEF NothingDue, Consistent, SubmitSteps, StagedSteps, OwningSteps
  <2>3. p \notin OwningSteps
    BY DEF OwningSteps
  <2>. HIDE DEF p
  <2>. QED BY <1>0, <2>1, <2>2, <2>3, LocalStep
<1>2. CASE Resume(s)
  <2> DEFINE m == [mem[s] EXCEPT !.claim = mem[s].intent.claim, !.stream = stream]
  <2>1. mem[s].intent \in Intent /\ mem[s].intent.projection_revision \in 1..Len(intents)
    <3>1. pc[s] \in StagedSteps
      BY <1>2 DEF Resume, StagedSteps
    <3>2. Consistent(pc[s], mem[s]) /\ Len(intents) \in Nat
      BY Types
    <3>. QED BY <3>1, <3>2 DEF Consistent, Intent
  <2>2. /\ m \in Memory /\ m.claim = mem[s].intent.claim /\ m.stream = stream
        /\ m.log = mem[s].log /\ m.contract = mem[s].contract /\ m.intent = mem[s].intent
    <3>1. mem[s] \in Memory /\ stream \in StreamState
      BY Types
    <3>2. mem[s].intent.claim \in Claims \cup {None}
      BY <2>1 DEF Intent
    <3>. QED BY <3>1, <3>2 DEF Memory
  <2>3. m.claim = None \/ Accepted(m.claim)
    BY <1>2, <2>1, <2>2, Types DEF Resume, Consistent, StagedSteps, InductiveInvariant, TablesAgree
  <2>4. Moves(s, "apply", m)
    BY <1>2, <2>2 DEF Resume, Goto, Moves, Steps
  <2>5. Consistent("apply", m)
    BY <1>2, <2>2, <2>3, Types DEF Resume, Consistent, SubmitSteps, StagedSteps, OwningSteps
  <2>. HIDE DEF m
  <2>. QED BY <1>0, <2>4, <2>5, LocalStep DEF OwningSteps
<1>3. CASE Heartbeat(s) \/ HeartbeatGate(s)
  <2>0. pc[s] \in {"heartbeat", "heartbeat_gate"}
    BY <1>3 DEF Heartbeat, HeartbeatGate
  <2>1. CASE /\ pc' = [pc EXCEPT ![s] = "heartbeat_gate"]
             /\ mem' = [mem EXCEPT ![s].stream = stream, ![s].claim = None]
    <3> DEFINE m == [mem[s] EXCEPT !.stream = stream, !.claim = None]
    <3>1. /\ m \in Memory /\ m.claim = None /\ m.stream = stream
          /\ m.log = mem[s].log /\ m.contract = mem[s].contract
      BY Types DEF Memory
    <3>2. Moves(s, "heartbeat_gate", m)
      BY <2>1, <3>1 DEF Moves, Steps
    <3>3. Consistent("heartbeat_gate", m)
      BY <2>0, <3>1, Types DEF Consistent, SubmitSteps, StagedSteps, OwningSteps
    <3>. HIDE DEF m
    <3>. QED BY <1>0, <3>2, <3>3, LocalStep DEF OwningSteps
  <2>2. CASE pc' = [pc EXCEPT ![s] = "stage_heartbeat"] /\ UNCHANGED mem
    <3>1. Moves(s, "stage_heartbeat", mem[s])
      BY <2>2, Types DEF Moves, Steps, InductiveInvariant, TypeOK
    <3>2. Consistent("stage_heartbeat", mem[s])
      BY <2>0, Types DEF Consistent, SubmitSteps, StagedSteps, OwningSteps
    <3>. QED BY <1>0, <3>1, <3>2, LocalStep DEF OwningSteps
  <2>3. CASE /\ pc' = [pc EXCEPT ![s] = "status"]
             /\ mem' = [mem EXCEPT ![s].then = "since"]
    <3> DEFINE m == [mem[s] EXCEPT !.then = "since"]
    <3>1. /\ m \in Memory /\ m.claim = mem[s].claim /\ m.stream = mem[s].stream
          /\ m.log = mem[s].log /\ m.contract = mem[s].contract /\ m.then # "done"
      BY Types DEF Memory, Continuations
    <3>2. Moves(s, "status", m)
      BY <2>3, <3>1 DEF Moves, Steps
    <3>3. Consistent("status", m)
      BY <2>0, <3>1, Types DEF Consistent, SubmitSteps, StagedSteps, OwningSteps
    <3>. HIDE DEF m
    <3>. QED BY <1>0, <3>2, <3>3, LocalStep DEF OwningSteps
  <2>. QED BY <1>3, <2>1, <2>2, <2>3 DEF Heartbeat, HeartbeatGate, Goto
<1>4. CASE ReadStatus(s)
  <2> DEFINE c == IF mem[s].then \in {"log", "replay"} THEN LatestAttempt ELSE None
             m == [mem[s] EXCEPT !.stream = stream, !.claim = c]
  <2>1. c \in Claims \cup {None} /\ (c = None \/ Accepted(c))
    <3>1. ordinals \in Seq(Claims)
      BY DEF InductiveInvariant, TypeOK, StoreTypeOK
    <3>2. CASE ordinals = <<>>
      BY <3>2 DEF LatestAttempt
    <3>3. CASE ordinals # <<>>
      <4>1. Len(ordinals) \in 1..Len(ordinals) /\ ordinals[Len(ordinals)] \in Claims
        BY <3>1, <3>3
      <4>. QED BY <3>3, <4>1 DEF LatestAttempt, InductiveInvariant, TablesAgree
    <3>. QED BY <3>2, <3>3
  <2>2. /\ m \in Memory /\ m.claim = c /\ m.stream = stream
        /\ m.log = mem[s].log /\ m.contract = mem[s].contract
    BY <2>1, Types DEF Memory
  <2>3. mem[s].then \in Steps \ (OwningSteps \cup StagedSteps \cup SubmitSteps \cup
          {"idle", "status", "lease", "schedule_gate", "stage_occurrence"})
    BY <1>4, Types DEF ReadStatus, Consistent, SubmitSteps, Memory, Continuations, Steps,
                       OwningSteps, StagedSteps
  <2>4. Moves(s, mem[s].then, m)
    BY <1>4, <2>2, <2>3 DEF ReadStatus, Goto, Moves
  <2>5. Consistent(mem[s].then, m)
    BY <1>4, <2>1, <2>2, <2>3, Types
    DEF ReadStatus, Consistent, SubmitSteps, StagedSteps, OwningSteps
  <2>. HIDE DEF m
  <2>. QED BY <1>0, <2>3, <2>4, <2>5, LocalStep
<1>5. CASE ReadSince(s)
  <2>1. PICK due \in Seq(Nat) : mem' = [mem EXCEPT ![s].due = due]
    <3>1. CASE EvaluatedBoundaries = {} /\ mem' = [mem EXCEPT ![s].due =
                 IF boundary = 0 THEN <<>> ELSE <<boundary>>]
      <4>1. (IF boundary = 0 THEN <<>> ELSE <<boundary>>) \in Seq(Nat)
        BY Types
      <4>. QED BY <3>1, <4>1
    <3>2. CASE \E since \in EvaluatedBoundaries :
                 mem' = [mem EXCEPT ![s].due = OccurrencesAfter(since)]
      <4>1. PICK since \in EvaluatedBoundaries :
                 mem' = [mem EXCEPT ![s].due = OccurrencesAfter(since)]
        BY <3>2
      <4>2. since \in Nat
        <5>1. PICK q \in 1..Len(intents) : since = intents[q].scheduled_boundary
          BY DEF EvaluatedBoundaries
        <5>2. intents[q] \in Intent
          BY Types
        <5>. QED BY <5>1, <5>2 DEF Intent
      <4> DEFINE late == boundary - since
                 n == IF late < MaxDueTransitions THEN late ELSE MaxDueTransitions
                 seq == [i \in 1..n |-> since + i]
      <4>3. late \in Int /\ n \in Int
        BY <4>2, Types, Parameters
      <4>4. seq \in Seq(Nat)
        <5>1. CASE n \in Nat
          BY <4>2, <5>1
        <5>2. CASE n \notin Nat
          <6>1. 1..n = 1..0
            BY <4>3, <5>2
          <6>2. [i \in 1..0 |-> since + i] \in Seq(Nat)
            BY <4>2
          <6>. QED BY <6>1, <6>2
        <5>. QED BY <5>1, <5>2
      <4>5. OccurrencesAfter(since) = seq
        BY DEF OccurrencesAfter
      <4>. HIDE DEF seq
      <4>. QED BY <4>1, <4>4, <4>5
    <3>. QED BY <1>5, <3>1, <3>2 DEF ReadSince
  <2> DEFINE m == [mem[s] EXCEPT !.due = due]
  <2>2. /\ m \in Memory /\ m.claim = mem[s].claim /\ m.stream = mem[s].stream
        /\ m.log = mem[s].log /\ m.contract = mem[s].contract
    BY Types DEF Memory
  <2>3. Moves(s, "schedule", m)
    BY <1>5, <2>1, <2>2 DEF ReadSince, Goto, Moves, Steps
  <2>4. Consistent("schedule", m)
    BY <1>5, <2>2, Types DEF ReadSince, Consistent, SubmitSteps, StagedSteps, OwningSteps
  <2>. HIDE DEF m
  <2>. QED BY <1>0, <2>3, <2>4, LocalStep DEF OwningSteps
<1>6. CASE ReadLog(s)
  <2> DEFINE m == [mem[s] EXCEPT !.log = UnconfirmedRevisions, !.then = "replay"]
  <2>0. UnconfirmedRevisions \in SUBSET Nat /\ UnconfirmedRevisions \subseteq 1..Len(intents)
    BY Types DEF UnconfirmedRevisions
  <2>1. /\ m \in Memory /\ m.claim = mem[s].claim /\ m.stream = mem[s].stream
        /\ m.log \subseteq 1..Len(intents) /\ m.contract = mem[s].contract
    BY <2>0, Types DEF Memory, Continuations
  <2>2. Moves(s, "replay", m)
    BY <1>6, <2>1 DEF ReadLog, Goto, Moves, Steps
  <2>3. Consistent("replay", m)
    BY <1>6, <2>1, Types DEF ReadLog, Consistent, SubmitSteps, StagedSteps, OwningSteps
  <2>. HIDE DEF m
  <2>. QED BY <1>0, <2>2, <2>3, LocalStep DEF OwningSteps
<1>7. CASE ReplayIntent(s)
  <2>1. PICK r \in mem[s].log :
          mem' = [mem EXCEPT ![s].intent = intents[r], ![s].log = @ \ {r}, ![s].dispatch = 1]
    BY <1>7 DEF ReplayIntent
  <2> DEFINE m == [mem[s] EXCEPT !.intent = intents[r], !.log = @ \ {r}, !.dispatch = 1]
  <2>2. r \in 1..Len(intents) /\ intents[r] \in Intent /\ intents[r].projection_revision = r
    <3>1. r \in 1..Len(intents)
      BY Types DEF Consistent
    <3>2. intents[r] \in Intent
      BY <3>1, Types
    <3>. QED BY <3>1, <3>2 DEF InductiveInvariant, TargetFollowsLog
  <2>3. /\ m \in Memory /\ m.claim = mem[s].claim /\ m.stream = mem[s].stream
        /\ m.log \subseteq mem[s].log /\ m.contract = mem[s].contract /\ m.intent = intents[r]
    BY <2>2, Types DEF Memory
  <2>4. Moves(s, "apply", m)
    <3>1. mem' = [mem EXCEPT ![s] = m]
      BY <2>1
    <3>2. pc' = [pc EXCEPT ![s] = "apply"] /\ "apply" \in Steps
      BY <1>7 DEF ReplayIntent, Goto, Steps
    <3>. HIDE DEF m
    <3>. QED BY <2>3, <3>1, <3>2 DEF Moves
  <2>5. Consistent("apply", m)
    <3>1. m.log \subseteq 1..Len(intents)
      BY <2>3, Types DEF Consistent
    <3>2. m.intent \in Intent /\ m.intent.projection_revision = r /\ r <= Len(intents)
      BY <2>2, <2>3, Types
    <3>. HIDE DEF m
    <3>. QED BY <1>7, <2>3, <3>1, <3>2, Types DEF ReplayIntent, Consistent, SubmitSteps, OwningSteps
  <2>. HIDE DEF m
  <2>. QED BY <1>0, <2>4, <2>5, LocalStep DEF OwningSteps
<1>8. CASE Schedule(s)
  <2> DEFINE m == [mem[s] EXCEPT !.required = stream.required_projection_revision]
  <2>0. stream.required_projection_revision \in Nat /\ mem[s].due # <<>>
    BY <1>8, Types DEF Schedule, StreamState
  <2>1. /\ m \in Memory /\ m.claim = mem[s].claim /\ m.stream = mem[s].stream
        /\ m.log = mem[s].log /\ m.contract = mem[s].contract /\ m.due = mem[s].due
    BY <2>0, Types DEF Memory
  <2>2. Moves(s, "schedule_gate", m)
    BY <1>8, <2>1 DEF Schedule, Goto, Moves, Steps
  <2>3. Consistent("schedule_gate", m)
    BY <1>8, <2>0, <2>1, Types DEF Schedule, Consistent, SubmitSteps, StagedSteps, OwningSteps
  <2>. HIDE DEF m
  <2>. QED BY <1>0, <2>2, <2>3, LocalStep DEF OwningSteps
<1>9. CASE ScheduleGate(s)
  <2>1. Moves(s, "stage_occurrence", mem[s])
    BY <1>9, Types DEF ScheduleGate, Goto, Moves, Steps, InductiveInvariant, TypeOK
  <2>2. Consistent("stage_occurrence", mem[s])
    BY <1>9, Types DEF ScheduleGate, Consistent, SubmitSteps, StagedSteps, OwningSteps
  <2>. QED BY <1>0, <2>1, <2>2, LocalStep DEF OwningSteps
<1>. QED BY <1>1, <1>2, <1>3, <1>4, <1>5, <1>6, <1>7, <1>8, <1>9

-----------------------------------------------------------------------------
(* Transactions that keep the log *)

\* A transaction that stages and applies nothing.
LEMMA LogKept ==
    ASSUME InductiveInvariant, NEW s \in Sessions, StoreTypeOK',
           UNCHANGED <<intents, applied>>,
           Len(outbox') = Len(outbox),
           stream'.required_projection_revision <= Len(intents),
           stream.state_revision <= stream'.state_revision,
           \A c \in Claims : Accepted(c) => Accepted(c)',
           stream'.state_revision = stream.state_revision =>
               \A c \in Claims : Accepted(c)' => Accepted(c),
           (\A n \in 1..Len(ordinals) : Accepted(ordinals[n]))',
           ConfirmedIsApplied'
    PROVE  StoreInvariant' /\ Grows(s) /\ applied' \in Seq(Intent)
<1>1. /\ intents \in Seq(Intent) /\ Len(intents) \in Nat /\ Len(applied) \in Nat
      /\ applied \in Seq(Intent)
  BY Types
<1>2. Grows(s)
  BY <1>1 DEF Grows
<1>3. \A r \in 1..Len(intents) : intents[r].claim \in Claims \cup {None}
  <2>1. \A r \in 1..Len(intents) : intents[r] \in Intent
    BY <1>1
  <2>. QED BY <2>1 DEF Intent
<1>4. TablesAgree'
  BY <1>1, <1>3 DEF InductiveInvariant, TablesAgree, Accepted
<1>5. TargetFollowsLog' /\ PublishedOnce'
  BY DEF InductiveInvariant, TargetFollowsLog, PublishedOnce
<1>. QED BY <1>1, <1>2, <1>4, <1>5 DEF StoreInvariant

\* _put_attempt keeps every accepted claim accepted.
LEMMA PutAttemptAccepts ==
    ASSUME InductiveInvariant, NEW c \in Claims \cup {None},
           NEW state \in AttemptState, PutAttempt(c, state)
    PROVE  /\ attempt' \in [Claims -> AttemptState \cup {"absent"}]
           /\ \A d \in Claims : Accepted(d) => Accepted(d)'
           /\ \A d \in Claims : Accepted(d)' => Accepted(d) \/ d = c
           /\ c \in Claims => Accepted(c)'
<1>1. attempt \in [Claims -> AttemptState \cup {"absent"}]
  BY DEF InductiveInvariant, TypeOK, StoreTypeOK
<1>2. state # "absent"
  BY DEF AttemptState, PreIntent, PostIntent, Terminal
<1>. QED BY <1>1, <1>2, NoneIsNoValue DEF PutAttempt, Accepted

\* The state a session saves has the type of a stream state.
LEMMA HeldStream ==
    ASSUME InductiveInvariant, NEW s \in Sessions
    PROVE  /\ Held(s) \in StreamState /\ Bumped(Held(s)) \in StreamState
           /\ Expected(s) \in Nat
           /\ Held(s).required_projection_revision \in Nat
           /\ Held(s).visibility_epoch \in Nat
           /\ Held(s).required_projection_revision <= Len(intents)
           /\ Bumped(Held(s)).required_projection_revision <= Len(intents)
           /\ Held(s).state_revision = Expected(s)
           /\ Bumped(Held(s)).state_revision = Expected(s) + 1
<1>1. mem[s].stream \in StreamState
  BY Types DEF Memory
<1>2. mem[s].stream.required_projection_revision <= Len(intents)
  BY Types DEF Consistent
<1>. QED BY <1>1, <1>2 DEF Held, Bumped, Expected, StreamState

\* state_transaction with one attempt update.
LEMMA SaveAttemptStore ==
    ASSUME InductiveInvariant, NEW s \in Sessions, NEW state \in AttemptState,
           SaveAttempt(Bumped(Held(s)), Expected(s), mem[s].claim, state),
           UNCHANGED applied
    PROVE  /\ StoreTypeOK' /\ applied' \in Seq(Intent) /\ StoreInvariant' /\ Grows(s)
           /\ Expected(s) = stream.state_revision
           /\ stream' = Bumped(Held(s))
           /\ stream'.state_revision = stream.state_revision + 1
           /\ intents' = intents
           /\ \A c \in Claims : c = mem[s].claim => Accepted(c)'
<1>1. mem[s].claim \in Claims \cup {None}
  BY Types DEF Memory
<1>2. /\ stream' = Bumped(Held(s)) /\ Expected(s) = stream.state_revision
      /\ PutAttempt(mem[s].claim, state)
      /\ UNCHANGED <<candidate, deployment, ordinals, intents, outbox, confirmations>>
  BY DEF SaveAttempt, CheckRevision
<1>3. StoreTypeOK'
  BY <1>1, <1>2, PutAttemptAccepts, HeldStream DEF InductiveInvariant, TypeOK, StoreTypeOK
<1>4. ordinals \in Seq(Claims)
  BY DEF InductiveInvariant, TypeOK, StoreTypeOK
<1>5. (\A n \in 1..Len(ordinals) : Accepted(ordinals[n]))'
  BY <1>1, <1>2, <1>4, PutAttemptAccepts DEF InductiveInvariant, TablesAgree, Accepted
<1>6. ConfirmedIsApplied'
  BY <1>2 DEF InductiveInvariant, ConfirmedIsApplied
<1>7. stream'.state_revision = stream.state_revision + 1
  BY <1>2, HeldStream
<1>8. /\ stream'.required_projection_revision <= Len(intents)
      /\ stream.state_revision <= stream'.state_revision
      /\ stream'.state_revision # stream.state_revision
  BY <1>2, <1>7, HeldStream, Types
<1>9. StoreInvariant' /\ Grows(s) /\ applied' \in Seq(Intent)
  <2>1. \A c \in Claims : Accepted(c) => Accepted(c)'
    BY <1>1, <1>2, PutAttemptAccepts
  <2>. QED BY <1>2, <1>3, <1>5, <1>6, <1>8, <2>1, LogKept
<1>. QED BY <1>1, <1>2, <1>3, <1>7, <1>9, PutAttemptAccepts DEF Accepted

\* _transition.
LEMMA TransitionPreserves ==
    ASSUME InductiveInvariant, NEW s \in Sessions,
           NEW from, NEW state \in AttemptState, NEW to \in Steps,
           Transition(s, from, state, to),
           \/ from \in OwningSteps /\ to \in OwningSteps \ {"stage"}
           \/ from = "applied" /\ to = "settle"
           \/ from = "refused" /\ to = "fail"
    PROVE  InductiveInvariant'
<1>0. PICK m : m = [mem[s] EXCEPT !.stream = Bumped(@)]
  OBVIOUS
<1>1. /\ StoreTypeOK' /\ applied' \in Seq(Intent) /\ StoreInvariant' /\ Grows(s)
      /\ Expected(s) = stream.state_revision
      /\ stream' = Bumped(Held(s))
      /\ stream'.state_revision = stream.state_revision + 1
      /\ intents' = intents
      /\ \A c \in Claims : c = mem[s].claim => Accepted(c)'
  BY SaveAttemptStore DEF Transition
<1>2. /\ m \in Memory /\ m.stream = stream' /\ m.claim = mem[s].claim
      /\ m.log = mem[s].log /\ m.contract = mem[s].contract /\ m.intent = mem[s].intent
  BY <1>0, <1>1, Types, HeldStream DEF Memory, Held
<1>3. Moves(s, to, m)
  BY <1>0, <1>2 DEF Transition, Goto, Moves
<1>4. applied' = applied
  BY DEF Transition
<1>5. Consistent(from, mem[s])
  BY Types DEF Transition
<1>6. m.claim \in Claims \cup {None}
  BY <1>2 DEF Memory
<1>7. to \in OwningSteps => m.claim \in Claims /\ ~Staged(m.claim)'
  <2>1. to \in OwningSteps => from \in OwningSteps
    BY DEF OwningSteps
  <2>2. mem[s].stream.state_revision = stream.state_revision
    BY <1>1 DEF Expected
  <2>3. from \in OwningSteps => mem[s].claim \in Claims /\ ~Staged(mem[s].claim)
    BY <1>5, <2>2 DEF Consistent
  <2>. QED BY <1>1, <1>2, <2>1, <2>3 DEF Staged
<1>8. Consistent(to, m)'
  <2>1. /\ m.stream.required_projection_revision <= Len(intents)
        /\ m.stream.state_revision <= stream'.state_revision
    BY <1>1, <1>2, HeldStream, Types
  <2>2. /\ to \notin SubmitSteps \cup {"idle", "status", "lease", "stage", "schedule_gate",
                                       "stage_occurrence"}
        /\ from # "idle"
    BY DEF OwningSteps, SubmitSteps
  <2>3. to \in StagedSteps => from \in StagedSteps
    BY DEF OwningSteps, StagedSteps
  <2>4. to \in {"applied", "settle"} => from \in {"applied", "settle"}
    BY DEF OwningSteps
  <2>. QED BY <1>1, <1>2, <1>4, <1>5, <1>6, <1>7, <2>1, <2>2, <2>3, <2>4
           DEF Consistent, SubmitSteps, Accepted
<1>9. /\ boundary' \in Nat /\ faults' \in Nat /\ crashes' \in Nat
      /\ stream.state_revision < stream'.state_revision
  BY <1>1, Types DEF Transition, envVars
<1>. QED BY <1>1, <1>3, <1>8, <1>9, StepPreserves

\* A transaction that ends the command.
LEMMA CloseWrite ==
    ASSUME InductiveInvariant, NEW s \in Sessions, Close(s), UNCHANGED envVars,
           StoreTypeOK', applied' \in Seq(Intent), StoreInvariant', Grows(s)
    PROVE  InductiveInvariant'
<1>1. Moves(s, "idle", NoMemory)
  BY IdleIsConsistent DEF Moves, Close, Steps
<1>2. stream'.state_revision \in Nat /\ Len(intents') \in Nat
  BY DEF StoreTypeOK, StreamState
<1>3. PICK m : m = NoMemory
  OBVIOUS
<1>4. m.stream.required_projection_revision = 0 /\ m.stream.state_revision = 0 /\ m.log = {}
  BY <1>3 DEF NoMemory, EmptyStream
<1>5. Consistent("idle", m)'
  BY <1>2, <1>4 DEF Consistent, SubmitSteps, StagedSteps, OwningSteps
<1>6. boundary' \in Nat /\ faults' \in Nat /\ crashes' \in Nat
  BY Types DEF envVars
<1>. QED BY <1>1, <1>3, <1>5, <1>6, StepPreserves DEF OwningSteps

\* A transaction after which the command goes on with what it holds, or ends.
LEMMA ContinueWrite ==
    ASSUME InductiveInvariant, NEW s \in Sessions, NEW confirmed,
           Continue(s, confirmed), pc[s] \in {"settle", "fail"}, UNCHANGED envVars,
           StoreTypeOK', applied' \in Seq(Intent), StoreInvariant', Grows(s)
    PROVE  InductiveInvariant'
<1>1. CASE Close(s)
  BY <1>1, CloseWrite
<1>2. CASE ~Close(s)
  <2>1. PICK m : m = mem[s]
    OBVIOUS
  <2>2. PICK p : p = IF mem[s].then = "heartbeat" THEN "heartbeat" ELSE "status"
    OBVIOUS
  <2>3. /\ mem[s].then # "done" /\ UNCHANGED mem /\ pc' = [pc EXCEPT ![s] = p]
    BY <1>2, <2>2 DEF Continue, Goto
  <2>4. m \in Memory /\ Consistent(pc[s], m)
    BY <2>1, Types
  <2>5. Moves(s, p, m)
    BY <2>1, <2>2, <2>3, <2>4 DEF Moves, Steps, InductiveInvariant, TypeOK
  <2>6. Consistent(p, m)
    BY <2>1, <2>2, <2>3, <2>4 DEF Consistent, SubmitSteps, StagedSteps, OwningSteps
  <2>7. p \in Steps /\ p \notin OwningSteps
    BY <2>2 DEF Steps, OwningSteps
  <2>8. Consistent(p, m)'
    BY <2>4, <2>6, <2>7, OthersStayConsistent
  <2>9. boundary' \in Nat /\ faults' \in Nat /\ crashes' \in Nat
    BY Types DEF envVars
  <2>. QED BY <2>5, <2>7, <2>8, <2>9, StepPreserves
<1>. QED BY <1>1, <1>2

LEMMA FailAttemptPreserves ==
    ASSUME InductiveInvariant, NEW s \in Sessions, FailAttempt(s)
    PROVE  InductiveInvariant'
<1>1. "failed" \in AttemptState
  BY DEF AttemptState, Terminal
<1>. QED BY <1>1, SaveAttemptStore, CloseWrite DEF FailAttempt

\* publish builds the intent of an owner.
LEMMA BeginCommitPreserves ==
    ASSUME InductiveInvariant, NEW s \in Sessions, BeginCommit(s)
    PROVE  InductiveInvariant'
<1>1. "committing" \in AttemptState
  BY DEF AttemptState, PostIntent
<1>2. /\ StoreTypeOK' /\ applied' \in Seq(Intent) /\ StoreInvariant' /\ Grows(s)
      /\ Expected(s) = stream.state_revision
      /\ stream' = Bumped(Held(s))
      /\ stream'.state_revision = stream.state_revision + 1
      /\ intents' = intents
      /\ \A c \in Claims : c = mem[s].claim => Accepted(c)'
  BY <1>1, SaveAttemptStore DEF BeginCommit
<1>3. PICK i : i = BuildIntent(s, "delivery_publication", mem[s].claim, 0)
  OBVIOUS
<1>4. /\ Consistent("validating", mem[s])
      /\ mem[s].contract \in Contracts /\ mem[s].claim \in Claims
      /\ ~Staged(mem[s].claim)
  BY <1>2, Types DEF BeginCommit, Consistent, OwningSteps, Expected
<1>5. i \in Intent /\ i.claim = mem[s].claim /\ i.projection_revision <= Len(intents) + 1
  BY <1>3, <1>4, HeldStream, Types DEF BuildIntent, Intent
<1>6. PICK m : m = [mem[s] EXCEPT !.stream = Bumped(@), !.intent = i]
  OBVIOUS
<1>7. /\ m \in Memory /\ m.stream = stream' /\ m.claim = mem[s].claim /\ m.intent = i
      /\ m.log = mem[s].log /\ m.contract = mem[s].contract
  BY <1>2, <1>5, <1>6, Types, HeldStream DEF Memory, Held
<1>8. Moves(s, "stage", m)
  BY <1>3, <1>6, <1>7 DEF BeginCommit, Goto, Moves, Steps
<1>9. Consistent("stage", m)'
  <2>1. /\ m.stream.required_projection_revision <= Len(intents)
        /\ m.stream.state_revision <= stream'.state_revision
    BY <1>2, <1>7, HeldStream, Types
  <2>2. m.claim \in Claims /\ ~Staged(m.claim)' /\ Accepted(m.claim)'
    BY <1>2, <1>4, <1>7 DEF Staged, Accepted
  <2>. QED BY <1>2, <1>4, <1>5, <1>7, <2>1, <2>2 DEF Consistent, SubmitSteps, StagedSteps
<1>10. /\ boundary' \in Nat /\ faults' \in Nat /\ crashes' \in Nat
       /\ stream.state_revision < stream'.state_revision
  BY <1>2, Types DEF BeginCommit, envVars
<1>. QED BY <1>2, <1>8, <1>9, <1>10, StepPreserves

\* submit_managed looks at the attempts.
LEMMA SubmitAdmittedPreserves ==
    ASSUME InductiveInvariant, NEW s \in Sessions, SubmitAdmitted(s)
    PROVE  InductiveInvariant'
<1>1. PICK p \in SubmitSteps :
        /\ pc' = [pc EXCEPT ![s] = p]
        /\ p \in {"predecessor", "insert"} =>
             (mem[s].stream.state_revision = stream.state_revision => ~Conflicts(mem[s].claim))
  BY Types DEF SubmitAdmitted, Goto, Consistent, SubmitSteps
<1>2. Moves(s, p, mem[s])
  BY <1>1, Types DEF SubmitAdmitted, Moves, Steps, SubmitSteps, InductiveInvariant, TypeOK
<1>3. pc[s] \in SubmitSteps
  BY DEF SubmitAdmitted, SubmitSteps
<1>4. Consistent(p, mem[s])
  BY <1>1, <1>3, Types DEF Consistent, SubmitSteps, StagedSteps, OwningSteps
<1>. QED BY <1>1, <1>2, <1>4, Types, LocalStep
         DEF SubmitAdmitted, envVars, SubmitSteps, OwningSteps

\* submit_managed inserts the attempt.
LEMMA SubmitPreserves ==
    ASSUME InductiveInvariant, NEW s \in Sessions, SubmitManaged(s)
    PROVE  InductiveInvariant'
<1>0. PICK c : c = mem[s].claim
  OBVIOUS
<1>1. /\ c \in Claims /\ attempt[c] = "absent" /\ mem[s].contract \in Contracts
      /\ mem[s].log \subseteq 1..Len(intents)
  BY <1>0, Types DEF SubmitManaged, InsertAttempt, CheckRevision, Expected, Consistent,
                     SubmitSteps, Accepted
<1>2. /\ stream' = Bumped(Held(s)) /\ Expected(s) = stream.state_revision
      /\ PutAttempt(c, "received") /\ ordinals' = Append(ordinals, c)
      /\ UNCHANGED <<candidate, deployment, intents, outbox, confirmations, applied>>
  BY <1>0 DEF SubmitManaged, InsertAttempt, CheckRevision
<1>3. "received" \in AttemptState
  BY DEF AttemptState, PreIntent
<1>4. /\ attempt' \in [Claims -> AttemptState \cup {"absent"}]
      /\ \A d \in Claims : Accepted(d) => Accepted(d)'
      /\ Accepted(c)'
  BY <1>1, <1>2, <1>3, PutAttemptAccepts
<1>5. ordinals \in Seq(Claims) /\ \A n \in 1..Len(ordinals) : Accepted(ordinals[n])
  BY DEF InductiveInvariant, TypeOK, StoreTypeOK, TablesAgree
<1>6. StoreTypeOK'
  BY <1>1, <1>2, <1>4, <1>5, HeldStream DEF InductiveInvariant, TypeOK, StoreTypeOK
<1>7. (\A n \in 1..Len(ordinals) : Accepted(ordinals[n]))'
  BY <1>1, <1>2, <1>4, <1>5 DEF Accepted
<1>8. ConfirmedIsApplied'
  BY <1>2 DEF InductiveInvariant, ConfirmedIsApplied
<1>9. /\ stream'.state_revision = stream.state_revision + 1
      /\ stream'.required_projection_revision <= Len(intents)
      /\ stream.state_revision < stream'.state_revision
      /\ stream.state_revision <= stream'.state_revision
      /\ stream'.state_revision # stream.state_revision
  BY <1>2, HeldStream, Types
<1>10. StoreInvariant' /\ Grows(s) /\ applied' \in Seq(Intent)
  BY <1>2, <1>4, <1>6, <1>7, <1>8, <1>9, LogKept
<1>11. ~Staged(c)
  BY <1>1, NoneIsNoValue DEF Staged, InductiveInvariant, TablesAgree, Accepted
<1>12. PICK m : m = [mem[s] EXCEPT !.stream = Bumped(@)]
  OBVIOUS
<1>13. /\ m \in Memory /\ m.stream = stream' /\ m.claim = c
       /\ m.log = mem[s].log /\ m.contract = mem[s].contract
  BY <1>0, <1>2, <1>12, Types, HeldStream DEF Memory, Held
<1>14. Moves(s, "received", m)
  BY <1>12, <1>13 DEF SubmitManaged, Goto, Moves, Steps
<1>15. Consistent("received", m)'
  <2>1. /\ m.stream.required_projection_revision <= Len(intents')
        /\ m.stream.state_revision <= stream'.state_revision
    BY <1>2, <1>9, <1>13, HeldStream, Types
  <2>2. ~Staged(m.claim)' /\ Accepted(m.claim)'
    BY <1>2, <1>4, <1>11, <1>13 DEF Staged, Accepted
  <2>. QED BY <1>1, <1>2, <1>13, <2>1, <2>2 DEF Consistent, SubmitSteps, StagedSteps
<1>16. boundary' \in Nat /\ faults' \in Nat /\ crashes' \in Nat
  BY Types DEF SubmitManaged, envVars
<1>. QED BY <1>6, <1>9, <1>10, <1>14, <1>15, <1>16, StepPreserves

\* A replayed submission leaves its session stale.
LEMMA SubmitReplayPreserves ==
    ASSUME InductiveInvariant, NEW s \in Sessions, SubmitReplay(s)
    PROVE  InductiveInvariant'
<1>1. /\ mem[s].claim \in Claims /\ Accepted(mem[s].claim)
      /\ mem[s].stream.state_revision # stream.state_revision
      /\ Consistent("submit", mem[s])
  BY Types DEF SubmitReplay, Consistent, SubmitSteps, Accepted
<1>2. Moves(s, "received", mem[s])
  BY Types DEF SubmitReplay, Goto, Moves, Steps, InductiveInvariant, TypeOK
<1>3. Consistent("received", mem[s])
  BY <1>1 DEF Consistent, StagedSteps
<1>. QED BY <1>1, <1>2, <1>3, Types, LocalStep DEF SubmitReplay, envVars

\* The target refuses the intent in hand.
LEMMA TargetRefusesPreserves ==
    ASSUME InductiveInvariant, NEW s \in Sessions,
           ApplyOutOfOrder(s) \/ TargetUnavailable(s)
    PROVE  InductiveInvariant'
<1>1. PICK p \in {"fail", "refused"} : pc' = [pc EXCEPT ![s] = p]
  BY DEF ApplyOutOfOrder, TargetUnavailable, Goto
<1>2. Moves(s, p, mem[s])
  BY <1>1, Types DEF ApplyOutOfOrder, TargetUnavailable, Moves, Steps, InductiveInvariant, TypeOK
<1>3. Consistent("apply", mem[s])
  BY Types DEF ApplyOutOfOrder, TargetUnavailable
<1>4. Consistent(p, mem[s])
  BY <1>1, <1>3 DEF Consistent, SubmitSteps, StagedSteps, OwningSteps
<1>5. /\ UNCHANGED <<storeVars, applied>>
      /\ boundary' \in Nat /\ faults' \in Nat /\ crashes' \in Nat
  BY Types DEF ApplyOutOfOrder, TargetUnavailable, envVars
<1>. QED BY <1>1, <1>2, <1>4, <1>5, LocalStep DEF OwningSteps

-----------------------------------------------------------------------------
(* Staging, application and settlement *)

\* The outbox keeps its length, and an entry becomes complete only when its
\* revision is confirmed.
LEMMA OutboxTypes ==
    ASSUME InductiveInvariant
    PROVE  /\ outbox \in Seq(OutboxEntry) /\ Len(outbox) = Len(intents)
           /\ \A r \in 1..Len(outbox) : outbox[r] \in OutboxEntry
BY DEF InductiveInvariant, TypeOK, StoreTypeOK, TablesAgree

\* Staging an intent at the revision after the one the session holds.
LEMMA StageStore ==
    ASSUME InductiveInvariant, NEW s \in Sessions, NEW next, NEW intent \in Intent,
           NEW c \in Claims \cup {None}, NEW state,
           StageIntent(next, Expected(s), c, state, intent), UNCHANGED applied,
           c = None \/ state \in AttemptState,
           next \in StreamState, next.state_revision = Expected(s),
           next.required_projection_revision = intent.projection_revision,
           intent.projection_revision <= Len(intents) + 1,
           intent.claim = None
             \/ (Owns(s) /\ intent.claim \in Claims /\ Accepted(intent.claim) /\ ~Staged(intent.claim)),
           c = None \/ Accepted(c)
    PROVE  /\ StoreTypeOK' /\ applied' \in Seq(Intent) /\ StoreInvariant' /\ Grows(s)
           /\ stream' = next /\ stream'.state_revision = stream.state_revision
           /\ intent.projection_revision <= Len(intents')
           /\ intents'[intent.projection_revision] = intent
           /\ UNCHANGED <<intents, applied, confirmations>> \/ Log!Reserve
<1>1. /\ stream' = next /\ Expected(s) = stream.state_revision /\ PutAttempt(c, state)
      /\ Enqueue(intent)
      /\ UNCHANGED <<candidate, deployment, ordinals, confirmations>>
  BY DEF StageIntent, CheckRevision
<1>2. /\ intents \in Seq(Intent) /\ Len(intents) \in Nat /\ Len(applied) \in Nat
      /\ applied \in Seq(Intent) /\ Len(applied) <= Len(intents)
      /\ \A r \in 1..Len(intents) : intents[r] \in Intent /\ intents[r].projection_revision = r
      /\ \A r \in 1..Len(applied) : applied[r] = intents[r]
  BY Types DEF InductiveInvariant, TargetFollowsLog
<1>3. intent.projection_revision \in Nat \ {0}
  BY DEF Intent
<1>4. /\ attempt' \in [Claims -> AttemptState \cup {"absent"}]
      /\ \A d \in Claims : Accepted(d)' <=> Accepted(d)
  <2>1. attempt \in [Claims -> AttemptState \cup {"absent"}]
    BY DEF InductiveInvariant, TypeOK, StoreTypeOK
  <2>2. CASE c = None
    BY <1>1, <2>1, <2>2 DEF PutAttempt, Accepted
  <2>3. CASE c \in Claims /\ state \in AttemptState /\ Accepted(c)
    BY <1>1, <2>3, PutAttemptAccepts
  <2>. QED BY <2>2, <2>3, NoneIsNoValue
<1>5. \/ /\ intents' = Append(intents, intent) /\ outbox' = Append(outbox, Pending)
         /\ intent.projection_revision = Len(intents) + 1
      \/ UNCHANGED <<intents, outbox>> /\ AlreadyStaged(intent)
  <2>1. CASE /\ ~IntentConflict(intent) /\ intents' = Append(intents, intent)
             /\ outbox' = Append(outbox, Pending)
    <3>1. intent.projection_revision \notin 1..Len(intents)
      BY <1>2, <2>1 DEF IntentConflict
    <3>. QED BY <1>2, <1>3, <2>1, <3>1
  <2>. QED BY <1>1, <2>1 DEF Enqueue
<1>6. Pending \in OutboxEntry /\ Pending.status # "complete"
  BY DEF Pending, OutboxEntry, OutboxStatus
<1>7. /\ Len(intents) <= Len(intents') /\ Len(intents') <= Len(intents) + 1
      /\ Len(intents') \in Nat /\ intents' \in Seq(Intent)
      /\ \A r \in 1..Len(intents) : intents'[r] = intents[r]
      /\ \A r \in 1..Len(intents') : r > Len(intents) =>
           r = Len(intents) + 1 /\ intents'[r] = intent /\ intent.projection_revision = r
      /\ Len(outbox') = Len(intents') /\ outbox' \in Seq(OutboxEntry)
      /\ \A r \in 1..Len(outbox') :
           (r <= Len(outbox) /\ outbox'[r] = outbox[r]) \/ outbox'[r] = Pending
  <2>1. CASE UNCHANGED <<intents, outbox>>
    BY <1>2, <2>1, OutboxTypes
  <2>2. CASE /\ intents' = Append(intents, intent) /\ outbox' = Append(outbox, Pending)
             /\ intent.projection_revision = Len(intents) + 1
    <3>1. /\ Len(intents') = Len(intents) + 1 /\ intents' \in Seq(Intent)
          /\ \A r \in 1..Len(intents) : intents'[r] = intents[r]
          /\ intents'[Len(intents) + 1] = intent
      BY <1>2, <2>2
    <3>2. /\ Len(outbox') = Len(outbox) + 1 /\ outbox' \in Seq(OutboxEntry)
          /\ \A r \in 1..Len(outbox) : outbox'[r] = outbox[r]
          /\ outbox'[Len(outbox) + 1] = Pending
      BY <1>6, <2>2, OutboxTypes
    <3>. QED BY <1>2, <2>2, <3>1, <3>2, OutboxTypes
  <2>. QED BY <1>5, <2>1, <2>2
<1>8. StoreTypeOK'
  BY <1>1, <1>4, <1>7 DEF InductiveInvariant, TypeOK, StoreTypeOK
<1>9. intent.projection_revision <= Len(intents') /\ intents'[intent.projection_revision] = intent
  <2>1. CASE intents' = Append(intents, intent) /\ intent.projection_revision = Len(intents) + 1
    BY <1>2, <2>1
  <2>2. CASE UNCHANGED intents /\ AlreadyStaged(intent)
    <3>1. PICK r \in 1..Len(intents) : intents[r] = intent
      BY <2>2 DEF AlreadyStaged
    <3>2. r = intent.projection_revision
      BY <1>2, <3>1
    <3>. QED BY <1>2, <2>2, <3>1, <3>2
  <2>. QED BY <1>5, <2>1, <2>2
<1>10. Grows(s)
  <2>1. \A r \in 1..Len(intents') : r > Len(intents) => intents'[r].claim = None \/ Owns(s)
    BY <1>7
  <2>2. stream'.state_revision = stream.state_revision /\ applied' = applied
    BY <1>1
  <2>. QED BY <1>2, <1>4, <1>7, <2>1, <2>2, Types DEF Grows
<1>11. TargetFollowsLog'
  <2>1. ASSUME NEW r \in 1..Len(intents') PROVE intents'[r].projection_revision = r
    <3>1. CASE r <= Len(intents)
      BY <1>2, <1>7, <3>1
    <3>2. CASE r > Len(intents)
      BY <1>7, <3>2
    <3>. QED BY <1>2, <1>7, <3>1, <3>2
  <2>2. ASSUME NEW r \in 1..Len(applied) PROVE applied[r] = intents'[r]
    BY <1>2, <1>7
  <2>3. Len(applied) <= Len(intents')
    BY <1>2, <1>7
  <2>. QED BY <2>1, <2>2, <2>3 DEF TargetFollowsLog
<1>12. ConfirmedIsApplied'
  BY <1>1, <1>6, <1>7, OutboxTypes DEF InductiveInvariant, ConfirmedIsApplied
<1>13. PublishedOnce'
  <2> SUFFICES ASSUME NEW q \in 1..Len(intents'), NEW r \in 1..Len(intents'),
                      intents'[q].claim = intents'[r].claim, intents'[q].claim # None
               PROVE  q = r
    BY DEF PublishedOnce
  <2>1. CASE q <= Len(intents) /\ r <= Len(intents)
    BY <1>2, <1>7, <2>1 DEF InductiveInvariant, PublishedOnce
  <2>2. CASE q > Len(intents) /\ r > Len(intents)
    BY <1>2, <1>7, <2>2
  <2>3. CASE q > Len(intents) /\ r <= Len(intents)
    BY <1>2, <1>7, <2>3 DEF Staged
  <2>4. CASE q <= Len(intents) /\ r > Len(intents)
    <3>1. intents'[q] = intents[q] /\ intents'[r] = intent /\ q \in 1..Len(intents)
      BY <1>2, <1>7, <2>4
    <3>2. intent.claim # None /\ intents[q].claim = intent.claim
      BY <3>1
    <3>. QED BY <3>1, <3>2 DEF Staged
  <2>. QED BY <1>2, <1>7, <2>1, <2>2, <2>3, <2>4
<1>14. TablesAgree'
  <2>1. stream'.required_projection_revision <= Len(intents')
    BY <1>1, <1>9
  <2>2. ordinals \in Seq(Claims) /\ \A n \in 1..Len(ordinals) : Accepted(ordinals[n])
    BY DEF InductiveInvariant, TypeOK, StoreTypeOK, TablesAgree
  <2>3. (\A n \in 1..Len(ordinals) : Accepted(ordinals[n]))'
    BY <1>1, <1>4, <2>2 DEF Accepted
  <2>4. ASSUME NEW r \in 1..Len(intents')
        PROVE  intents'[r].claim = None \/ attempt'[intents'[r].claim] # "absent"
    <3>1. CASE r <= Len(intents)
      <4>1. intents'[r] = intents[r] /\ intents[r].claim \in Claims \cup {None}
        <5>1. r \in 1..Len(intents)
          BY <1>2, <1>7, <3>1
        <5>2. intents'[r] = intents[r] /\ intents[r] \in Intent
          BY <1>2, <1>7, <5>1
        <5>. QED BY <5>2 DEF Intent
      <4>2. intents[r].claim = None \/ Accepted(intents[r].claim)
        BY <1>2, <3>1 DEF InductiveInvariant, TablesAgree
      <4>. QED BY <1>4, <4>1, <4>2 DEF Accepted
    <3>2. CASE r > Len(intents)
      BY <1>4, <1>7, <3>2 DEF Accepted
    <3>. QED BY <1>2, <1>7, <3>1, <3>2
  <2>. QED BY <1>7, <2>1, <2>3, <2>4 DEF TablesAgree, Accepted
<1>15. stream'.state_revision = stream.state_revision
  BY <1>1
<1>16. UNCHANGED <<intents, applied, confirmations>> \/ Log!Reserve
  <2>1. CASE UNCHANGED <<intents, outbox>>
    BY <1>1, <2>1
  <2>2. CASE /\ intents' = Append(intents, intent)
             /\ intent.projection_revision = Len(intents) + 1
    <3>1. Len(intents') = Len(intents) + 1 /\ intents'[Len(intents) + 1] = intent
      BY <1>2, <2>2
    <3>2. \A r \in 1..Len(intents) : intent.claim # None => intents[r].claim # intent.claim
      BY DEF Staged
    <3>. QED BY <1>1, <2>2, <3>1, <3>2 DEF Log!Reserve
  <2>. QED BY <1>5, <2>1, <2>2
<1>. QED
  BY <1>1, <1>2, <1>8, <1>9, <1>10, <1>11, <1>12, <1>13, <1>14, <1>15, <1>16
  DEF StoreInvariant

\* publish, phase one.
LEMMA StagePublicationPreserves ==
    ASSUME InductiveInvariant, NEW s \in Sessions, StagePublication(s)
    PROVE  /\ InductiveInvariant'
           /\ UNCHANGED <<intents, applied, confirmations>> \/ Log!Reserve
<1>1. PICK i : i = mem[s].intent
  OBVIOUS
<1>2. PICK c : c = mem[s].claim
  OBVIOUS
<1>3. PICK next : next = [Reserve(Held(s), mem[s].intent) EXCEPT
                            !.active_contract = mem[s].contract,
                            !.accepted_progress = mem[s].claim]
  OBVIOUS
<1>4. /\ pc[s] = "stage" /\ UNCHANGED <<applied, envVars>>
      /\ StageIntent(next, Expected(s), c, "committing", i)
      /\ pc' = [pc EXCEPT ![s] = "apply"]
      /\ mem' = [mem EXCEPT ![s].stream = next, ![s].dispatch = 1]
  BY <1>1, <1>2, <1>3 DEF StagePublication, Goto
<1>5. Consistent("stage", mem[s]) /\ mem[s] \in Memory
  BY <1>4, Types
<1>6. Expected(s) = stream.state_revision
  BY <1>4 DEF StageIntent, CheckRevision
<1>7. /\ i \in Intent /\ i.claim = c /\ i.projection_revision <= Len(intents) + 1
      /\ c \in Claims /\ Accepted(c) /\ ~Staged(c) /\ Owns(s)
      /\ mem[s].contract \in Contracts /\ mem[s].log \subseteq 1..Len(intents)
  BY <1>1, <1>2, <1>4, <1>5, <1>6, NoneIsNoValue
  DEF Consistent, SubmitSteps, OwningSteps, Owns, Expected
<1>8. /\ next \in StreamState /\ next.state_revision = Expected(s)
      /\ next.required_projection_revision = i.projection_revision
  BY <1>1, <1>2, <1>3, <1>7, HeldStream DEF Reserve, StreamState, Intent
<1>9. "committing" \in AttemptState
  BY DEF AttemptState, PostIntent
<1>10. /\ StoreTypeOK' /\ applied' \in Seq(Intent) /\ StoreInvariant' /\ Grows(s)
       /\ stream' = next /\ stream'.state_revision = stream.state_revision
       /\ i.projection_revision <= Len(intents')
       /\ intents'[i.projection_revision] = i
       /\ UNCHANGED <<intents, applied, confirmations>> \/ Log!Reserve
  BY <1>4, <1>7, <1>8, <1>9, StageStore
<1>11. PICK m : m = [mem[s] EXCEPT !.stream = next, !.dispatch = 1]
  OBVIOUS
<1>12. /\ m \in Memory /\ m.stream = next /\ m.claim = c /\ m.intent = i
       /\ m.log = mem[s].log /\ m.contract = mem[s].contract
  BY <1>1, <1>2, <1>5, <1>8, <1>11 DEF Memory
<1>13. Moves(s, "apply", m)
  BY <1>4, <1>11, <1>12 DEF Moves, Steps
<1>14. Consistent("apply", m)'
  <2>1. /\ m.stream.required_projection_revision <= Len(intents')
        /\ m.stream.state_revision <= stream'.state_revision
        /\ m.log \subseteq 1..Len(intents')
    <3>1. Len(intents) <= Len(intents') /\ Len(intents') \in Nat
      BY <1>10 DEF Grows, StoreTypeOK
    <3>2. stream'.state_revision \in Nat
      BY <1>10 DEF StoreTypeOK, StreamState
    <3>. QED BY <1>7, <1>8, <1>10, <1>12, <3>1, <3>2, Types
  <2>2. Accepted(m.claim)'
    BY <1>7, <1>10, <1>12 DEF Grows
  <2>. QED BY <1>7, <1>10, <1>12, <2>1, <2>2 DEF Consistent, SubmitSteps, StagedSteps, OwningSteps
<1>15. boundary' \in Nat /\ faults' \in Nat /\ crashes' \in Nat
  BY <1>4, Types DEF envVars
<1>16. InductiveInvariant'
  BY <1>10, <1>13, <1>14, <1>15, StepPreserves DEF OwningSteps
<1>. QED BY <1>10, <1>16

\* Heartbeats and scheduled occurrences.
LEMMA StageScheduledPreserves ==
    ASSUME InductiveInvariant, NEW s \in Sessions, StageHeartbeat(s) \/ StageOccurrence(s)
    PROVE  /\ InductiveInvariant'
           /\ UNCHANGED <<intents, applied, confirmations>> \/ Log!Reserve
<1>1. mem[s].contract \in Contracts /\ mem[s] \in Memory /\ Consistent(pc[s], mem[s])
  BY Types DEF StageHeartbeat, StageOccurrence, Consistent
<1>2. PICK i \in Intent, due \in Seq(Nat), then \in {"since", "schedule"} :
        /\ StageScheduled(s, i, then, due)
        /\ i.claim = None
        /\ i.projection_revision = Held(s).required_projection_revision + 1
  <2>1. CASE StageHeartbeat(s)
    <3> DEFINE i == BuildIntent(s, "heartbeat", None, 0)
    <3>1. /\ i \in Intent /\ i.claim = None
          /\ i.projection_revision = Held(s).required_projection_revision + 1
      BY <1>1, HeldStream DEF BuildIntent, Intent
    <3>2. <<>> \in Seq(Nat)
      OBVIOUS
    <3>. HIDE DEF i
    <3>. QED BY <2>1, <3>1, <3>2 DEF StageHeartbeat, i
  <2>2. CASE StageOccurrence(s)
    <3> DEFINE i == BuildIntent(s, "timeliness", None, Head(mem[s].due))
    <3>1. mem[s].due \in Seq(Nat) /\ mem[s].due # <<>>
      BY <1>1, <2>2 DEF Memory, StageOccurrence, Consistent
    <3>2. Head(mem[s].due) \in Nat /\ Tail(mem[s].due) \in Seq(Nat)
      BY <3>1
    <3>3. /\ i \in Intent /\ i.claim = None
          /\ i.projection_revision = Held(s).required_projection_revision + 1
      BY <1>1, <3>2, HeldStream DEF BuildIntent, Intent
    <3>. HIDE DEF i
    <3>. QED BY <2>2, <3>2, <3>3 DEF StageOccurrence, i
  <2>. QED BY <2>1, <2>2
<1>3. PICK next : next = Reserve(Held(s), i)
  OBVIOUS
<1>4. /\ UNCHANGED <<applied, envVars>>
      /\ StageIntent(next, Expected(s), None, "absent", i)
      /\ pc' = [pc EXCEPT ![s] = "apply"]
      /\ mem' = [mem EXCEPT ![s].stream = next, ![s].intent = i,
                            ![s].dispatch = 1, ![s].then = then, ![s].due = due]
  BY <1>2, <1>3 DEF StageScheduled, Goto
<1>5. /\ next \in StreamState /\ next.state_revision = Expected(s)
      /\ next.required_projection_revision = i.projection_revision
      /\ i.projection_revision <= Len(intents) + 1
  <2>1. i.projection_revision \in Nat
    BY DEF Intent
  <2>2. i.projection_revision <= Len(intents) + 1
    BY <1>2, HeldStream, Types
  <2>. QED BY <1>3, <2>1, <2>2, HeldStream DEF Reserve, StreamState
<1>6. /\ StoreTypeOK' /\ applied' \in Seq(Intent) /\ StoreInvariant' /\ Grows(s)
      /\ stream' = next /\ stream'.state_revision = stream.state_revision
      /\ i.projection_revision <= Len(intents')
      /\ intents'[i.projection_revision] = i
      /\ UNCHANGED <<intents, applied, confirmations>> \/ Log!Reserve
  BY <1>2, <1>4, <1>5, StageStore
<1>7. PICK m : m = [mem[s] EXCEPT !.stream = next, !.intent = i,
                                  !.dispatch = 1, !.then = then, !.due = due]
  OBVIOUS
<1>8. /\ m \in Memory /\ m.stream = next /\ m.claim = mem[s].claim /\ m.intent = i
      /\ m.log = mem[s].log /\ m.contract = mem[s].contract
  BY <1>1, <1>2, <1>5, <1>7 DEF Memory, Continuations
<1>9. Moves(s, "apply", m)
  BY <1>4, <1>7, <1>8 DEF Moves, Steps
<1>10. Consistent("apply", m)'
  <2>1. /\ m.stream.required_projection_revision <= Len(intents')
        /\ m.stream.state_revision <= stream'.state_revision
        /\ m.log \subseteq 1..Len(intents')
    <3>1. Len(intents) <= Len(intents') /\ Len(intents') \in Nat
      BY <1>6 DEF Grows, StoreTypeOK
    <3>2. stream'.state_revision \in Nat
      BY <1>6 DEF StoreTypeOK, StreamState
    <3>3. mem[s].log \subseteq 1..Len(intents)
      BY <1>1 DEF Consistent
    <3>. QED BY <1>5, <1>6, <1>8, <3>1, <3>2, <3>3, Types
  <2>2. m.claim = None \/ Accepted(m.claim)'
    <3>1. m.claim \in Claims \cup {None}
      BY <1>8 DEF Memory
    <3>2. m.claim = None \/ Accepted(m.claim)
      BY <1>1, <1>8 DEF Consistent, SubmitSteps, StageHeartbeat, StageOccurrence
    <3>. QED BY <1>6, <3>1, <3>2 DEF Grows
  <2>. QED BY <1>1, <1>2, <1>6, <1>8, <2>1, <2>2
           DEF Consistent, SubmitSteps, StagedSteps, OwningSteps
<1>11. boundary' \in Nat /\ faults' \in Nat /\ crashes' \in Nat
  BY <1>4, Types DEF envVars
<1>12. InductiveInvariant'
  BY <1>6, <1>9, <1>10, <1>11, StepPreserves DEF OwningSteps
<1>. QED BY <1>6, <1>12

\* The target applies the intent in hand, or knows it.
LEMMA ApplyIntentPreserves ==
    ASSUME InductiveInvariant, NEW s \in Sessions, ApplyIntent(s)
    PROVE  /\ InductiveInvariant'
           /\ UNCHANGED <<intents, confirmations>>
           /\ applied' = applied \/ (/\ Len(applied) < Len(intents)
                                     /\ applied' = Append(applied, intents[Len(applied) + 1]))
<1>1. PICK p \in {"settle", "applied"} : pc' = [pc EXCEPT ![s] = p]
  BY DEF ApplyIntent, Goto
<1>2. PICK m : m = mem[s]
  OBVIOUS
<1>3. PICK r : r = m.intent.projection_revision
  OBVIOUS
<1>4. /\ m \in Memory /\ Consistent("apply", m) /\ UNCHANGED <<storeVars, mem, envVars>>
      /\ ApplyGapOrdered(m.intent)
  BY <1>2, Types DEF ApplyIntent
<1>5. /\ m.intent \in Intent /\ r \in 1..Len(intents) /\ m.intent = intents[r]
  <2>1. m.intent \in Intent /\ r <= Len(intents) /\ m.intent = intents[r]
    BY <1>3, <1>4 DEF Consistent, StagedSteps
  <2>2. r \in Nat \ {0} /\ Len(intents) \in Nat
    BY <1>3, <2>1, Types DEF Intent
  <2>. QED BY <2>1, <2>2
<1>6. /\ Len(applied) <= Len(intents) /\ Len(applied) \in Nat /\ Len(intents) \in Nat
      /\ \A q \in 1..Len(intents) : intents[q].projection_revision = q
      /\ \A q \in 1..Len(applied) : applied[q] = intents[q]
      /\ applied \in Seq(Intent)
  BY Types DEF InductiveInvariant, TargetFollowsLog
<1>7. \/ applied' = applied /\ r <= Len(applied)
      \/ /\ applied' = Append(applied, intents[Len(applied) + 1])
         /\ r = Len(applied) + 1 /\ Len(applied) < Len(intents)
  <2>1. CASE AlreadyApplied(m.intent)
    BY <1>3, <1>4, <1>5, <1>6, <2>1 DEF ApplyGapOrdered, AlreadyApplied
  <2>2. CASE ~AlreadyApplied(m.intent)
    <3>1. r = Len(applied) + 1 /\ applied' = Append(applied, m.intent)
      BY <1>3, <1>4, <2>2, CursorIsLength DEF ApplyGapOrdered, Accepts
    <3>. QED BY <1>5, <1>6, <3>1
  <2>. QED BY <2>1, <2>2
<1>8. /\ Len(applied) <= Len(applied') /\ Len(applied') <= Len(intents)
      /\ r <= Len(applied') /\ applied' \in Seq(Intent)
      /\ \A q \in 1..Len(applied') : applied'[q] = intents[q]
  <2>1. CASE applied' = applied /\ r <= Len(applied)
    BY <1>6, <2>1
  <2>2. CASE /\ applied' = Append(applied, intents[Len(applied) + 1])
             /\ r = Len(applied) + 1 /\ Len(applied) < Len(intents)
    <3>1. intents[Len(applied) + 1] \in Intent
      BY <1>5, <2>2
    <3>2. /\ Len(applied') = Len(applied) + 1 /\ applied' \in Seq(Intent)
          /\ \A q \in 1..Len(applied) : applied'[q] = applied[q]
          /\ applied'[Len(applied) + 1] = intents[Len(applied) + 1]
      BY <1>6, <2>2, <3>1
    <3>. QED BY <1>6, <2>2, <3>2
  <2>. QED BY <1>7, <2>1, <2>2
<1>9. StoreTypeOK'
  BY <1>4 DEF InductiveInvariant, TypeOK, StoreTypeOK, storeVars
<1>10. StoreInvariant'
  <2>1. PublishedOnce' /\ TablesAgree'
    BY <1>4 DEF InductiveInvariant, PublishedOnce, TablesAgree, Accepted, storeVars
  <2>2. TargetFollowsLog'
    BY <1>4, <1>6, <1>8 DEF TargetFollowsLog, storeVars
  <2>3. ConfirmedIsApplied'
    <3>1. confirmations' = confirmations /\ outbox' = outbox /\ Len(applied') \in Nat
      BY <1>4, <1>8 DEF storeVars
    <3>. QED BY <1>6, <1>8, <3>1 DEF InductiveInvariant, ConfirmedIsApplied
  <2>. QED BY <2>1, <2>2, <2>3 DEF StoreInvariant
<1>11. Grows(s)
  BY <1>4, <1>6, <1>8, Types DEF Grows, Accepted, storeVars
<1>12. Moves(s, p, m)
  BY <1>1, <1>2, <1>4 DEF Moves, Steps, InductiveInvariant, TypeOK
<1>13. Consistent(p, m)'
  <2>1. Consistent("apply", m)'
    BY <1>4, <1>8, <1>9, <1>11, OthersStayConsistent DEF OwningSteps, Steps
  <2>. QED BY <1>1, <1>3, <1>8, <2>1 DEF Consistent, SubmitSteps, StagedSteps, OwningSteps
<1>14. boundary' \in Nat /\ faults' \in Nat /\ crashes' \in Nat
  BY <1>4, Types DEF envVars
<1>15. InductiveInvariant'
  BY <1>1, <1>8, <1>9, <1>10, <1>11, <1>12, <1>13, <1>14, StepPreserves DEF OwningSteps
<1>16. UNCHANGED <<intents, confirmations>>
  BY <1>4 DEF storeVars
<1>. QED BY <1>7, <1>15, <1>16

\* What holds of an outbox of which one entry is rewritten.
LEMMA OutboxUpdate ==
    ASSUME InductiveInvariant, NEW r \in 1..Len(outbox), NEW e \in OutboxEntry,
           outbox' = [outbox EXCEPT ![r] = e]
    PROVE  /\ outbox' \in Seq(OutboxEntry) /\ Len(outbox') = Len(outbox)
           /\ outbox'[r] = e
           /\ \A q \in 1..Len(outbox) : q # r => outbox'[q] = outbox[q]
BY OutboxTypes

\* The settlement.
LEMMA SettlePreserves ==
    ASSUME InductiveInvariant, NEW s \in Sessions, Settle(s)
    PROVE  /\ InductiveInvariant'
           /\ UNCHANGED <<intents, applied>>
           /\ \E r \in 1..Len(applied) : confirmations' = confirmations \cup {r}
<1>1. PICK r : r = mem[s].intent.projection_revision
  OBVIOUS
<1>2. /\ pc[s] = "settle" /\ Continue(s, TRUE) /\ UNCHANGED <<applied, envVars>>
      /\ Expected(s) = stream.state_revision
      /\ PutAttempt(mem[s].claim, "committed") /\ Complete(r)
      /\ confirmations' = confirmations \cup {r}
      /\ stream' = Held(s)
      /\ UNCHANGED <<candidate, deployment, ordinals, intents>>
  BY <1>1 DEF Settle, CompleteOutbox, CheckRevision, RecordConfirmation
<1>3. /\ Consistent("settle", mem[s]) /\ mem[s] \in Memory
  BY <1>2, Types
<1>4. /\ r \in 1..Len(applied) /\ r \in 1..Len(intents)
      /\ mem[s].claim = None \/ Accepted(mem[s].claim)
      /\ mem[s].claim \in Claims \cup {None}
  <2>1. /\ mem[s].intent \in Intent /\ r <= Len(intents) /\ r <= Len(applied)
        /\ mem[s].claim = None \/ Accepted(mem[s].claim)
    BY <1>1, <1>3 DEF Consistent, SubmitSteps, StagedSteps
  <2>2. r \in Nat \ {0}
    BY <1>1, <2>1 DEF Intent
  <2>. QED BY <1>3, <2>1, <2>2, Types DEF Memory
<1>5. PICK e : e = [outbox[r] EXCEPT !.status = "complete", !.lease_owner = None,
                                     !.lease_expired = FALSE]
  OBVIOUS
<1>6. outbox[r] \in OutboxEntry /\ r \in 1..Len(outbox)
  BY <1>4, OutboxTypes
<1>7. e \in OutboxEntry /\ outbox' = [outbox EXCEPT ![r] = e]
  BY <1>2, <1>5, <1>6, OutboxTypes DEF OutboxEntry, OutboxStatus, Complete
<1>8. /\ outbox' \in Seq(OutboxEntry) /\ Len(outbox') = Len(outbox)
      /\ outbox'[r] = e
      /\ \A q \in 1..Len(outbox) : q # r => outbox'[q] = outbox[q]
  BY <1>6, <1>7, OutboxUpdate
<1>9. "committed" \in AttemptState
  BY DEF AttemptState, Terminal
<1>10. /\ attempt' \in [Claims -> AttemptState \cup {"absent"}]
       /\ \A d \in Claims : Accepted(d) => Accepted(d)'
       /\ \A d \in Claims : Accepted(d)' => Accepted(d)
  BY <1>2, <1>4, <1>9, PutAttemptAccepts, NoneIsNoValue
<1>11. StoreTypeOK'
  BY <1>2, <1>4, <1>8, <1>10, HeldStream, Types DEF InductiveInvariant, TypeOK, StoreTypeOK
<1>12. ConfirmedIsApplied'
  BY <1>2, <1>4, <1>8 DEF InductiveInvariant, ConfirmedIsApplied
<1>13. ordinals \in Seq(Claims) /\ \A n \in 1..Len(ordinals) : Accepted(ordinals[n])
  BY DEF InductiveInvariant, TypeOK, StoreTypeOK, TablesAgree
<1>14. (\A n \in 1..Len(ordinals) : Accepted(ordinals[n]))'
  BY <1>2, <1>10, <1>13 DEF Accepted
<1>15. /\ stream'.required_projection_revision <= Len(intents)
       /\ stream.state_revision <= stream'.state_revision
  BY <1>2, HeldStream, Types
<1>16. StoreInvariant' /\ Grows(s) /\ applied' \in Seq(Intent)
  BY <1>2, <1>8, <1>10, <1>11, <1>12, <1>14, <1>15, LogKept
<1>17. InductiveInvariant'
  BY <1>2, <1>11, <1>16, ContinueWrite
<1>. QED BY <1>2, <1>4, <1>17

\* The failure of a dispatch.
LEMMA GiveBackPreserves ==
    ASSUME InductiveInvariant, NEW s \in Sessions, GiveBack(s)
    PROVE  InductiveInvariant' /\ UNCHANGED <<intents, applied, confirmations>>
<1>1. PICK r : r = mem[s].intent.projection_revision
  OBVIOUS
<1>2. PICK status \in {"dead_letter", "retryable"} :
        FailOutbox(Held(s), Expected(s), mem[s].claim, "commit_blocked", r,
                   LeaseOwner[s], status)
  BY <1>1 DEF GiveBack
<1>3. PICK e : e = [status |-> status,
                    dispatch_ordinal |-> outbox[r].dispatch_ordinal + 1,
                    lease_owner |-> None, lease_expired |-> FALSE]
  OBVIOUS
<1>4. /\ pc[s] = "fail" /\ Continue(s, FALSE) /\ UNCHANGED <<applied, envVars>>
      /\ Expected(s) = stream.state_revision
      /\ PutAttempt(mem[s].claim, "commit_blocked")
      /\ outbox' = [outbox EXCEPT ![r] = e]
      /\ stream' = Held(s)
      /\ UNCHANGED <<candidate, deployment, ordinals, intents, confirmations>>
  BY <1>2, <1>3 DEF GiveBack, FailOutbox, CheckRevision
<1>5. Consistent("fail", mem[s]) /\ mem[s] \in Memory
  BY <1>4, Types
<1>6. /\ r \in 1..Len(intents)
      /\ mem[s].claim = None \/ Accepted(mem[s].claim)
      /\ mem[s].claim \in Claims \cup {None}
  <2>1. /\ mem[s].intent \in Intent /\ r <= Len(intents)
        /\ mem[s].claim = None \/ Accepted(mem[s].claim)
    BY <1>1, <1>5 DEF Consistent, SubmitSteps, StagedSteps
  <2>2. r \in Nat \ {0}
    BY <1>1, <2>1 DEF Intent
  <2>. QED BY <1>5, <2>1, <2>2, Types DEF Memory
<1>7. outbox[r] \in OutboxEntry /\ r \in 1..Len(outbox)
  BY <1>6, OutboxTypes
<1>8. e \in OutboxEntry /\ e.status # "complete"
  BY <1>3, <1>7 DEF OutboxEntry, OutboxStatus
<1>9. /\ outbox' \in Seq(OutboxEntry) /\ Len(outbox') = Len(outbox)
      /\ outbox'[r] = e
      /\ \A q \in 1..Len(outbox) : q # r => outbox'[q] = outbox[q]
  BY <1>4, <1>7, <1>8, OutboxUpdate
<1>10. "commit_blocked" \in AttemptState
  BY DEF AttemptState, PostIntent
<1>11. /\ attempt' \in [Claims -> AttemptState \cup {"absent"}]
       /\ \A d \in Claims : Accepted(d) => Accepted(d)'
       /\ \A d \in Claims : Accepted(d)' => Accepted(d)
  BY <1>4, <1>6, <1>10, PutAttemptAccepts, NoneIsNoValue
<1>12. StoreTypeOK'
  BY <1>4, <1>9, <1>11, HeldStream DEF InductiveInvariant, TypeOK, StoreTypeOK
<1>13. ConfirmedIsApplied'
  BY <1>4, <1>8, <1>9 DEF InductiveInvariant, ConfirmedIsApplied
<1>14. ordinals \in Seq(Claims) /\ \A n \in 1..Len(ordinals) : Accepted(ordinals[n])
  BY DEF InductiveInvariant, TypeOK, StoreTypeOK, TablesAgree
<1>15. (\A n \in 1..Len(ordinals) : Accepted(ordinals[n]))'
  BY <1>4, <1>11, <1>14 DEF Accepted
<1>16. /\ stream'.required_projection_revision <= Len(intents)
       /\ stream.state_revision <= stream'.state_revision
  BY <1>4, HeldStream, Types
<1>17. StoreInvariant' /\ Grows(s) /\ applied' \in Seq(Intent)
  BY <1>4, <1>9, <1>11, <1>12, <1>13, <1>15, <1>16, LogKept
<1>18. InductiveInvariant'
  BY <1>4, <1>12, <1>17, ContinueWrite
<1>. QED BY <1>4, <1>18

-----------------------------------------------------------------------------
(* Leases *)

\* A transaction that rewrites one outbox entry and does not complete it.
LEMMA LeaseStore ==
    ASSUME InductiveInvariant, NEW r \in 1..Len(outbox), NEW e \in OutboxEntry,
           e.status # "complete", outbox' = [outbox EXCEPT ![r] = e],
           UNCHANGED <<stream, candidate, deployment, attempt, ordinals, intents,
                       confirmations, applied>>
    PROVE  StoreTypeOK' /\ applied' \in Seq(Intent) /\ StoreInvariant'
<1>1. /\ outbox' \in Seq(OutboxEntry) /\ Len(outbox') = Len(outbox)
      /\ outbox'[r] = e
      /\ \A q \in 1..Len(outbox) : q # r => outbox'[q] = outbox[q]
  BY OutboxUpdate
<1>2. StoreTypeOK' /\ applied' \in Seq(Intent)
  BY <1>1 DEF InductiveInvariant, TypeOK, StoreTypeOK
<1>3. TargetFollowsLog' /\ PublishedOnce'
  BY DEF InductiveInvariant, TargetFollowsLog, PublishedOnce
<1>4. TablesAgree'
  BY <1>1 DEF InductiveInvariant, TablesAgree, Accepted
<1>5. ConfirmedIsApplied'
  BY <1>1 DEF InductiveInvariant, ConfirmedIsApplied
<1>. QED BY <1>2, <1>3, <1>4, <1>5 DEF StoreInvariant

\* run_due leases the lowest due entry.
LEMMA LeasePreserves ==
    ASSUME InductiveInvariant, NEW s \in Sessions, Lease(s)
    PROVE  InductiveInvariant' /\ UNCHANGED <<intents, applied, confirmations>>
<1>1. PICK r \in 1..Len(outbox) :
        /\ LeaseOutbox(r, LeaseOwner[s])
        /\ mem' = [mem EXCEPT ![s].intent = intents[r],
                              ![s].dispatch = outbox[r].dispatch_ordinal]
  BY DEF Lease, Leasable
<1>2. /\ pc[s] = "lease" /\ pc' = [pc EXCEPT ![s] = "resume"]
      /\ UNCHANGED <<applied, envVars>>
  BY DEF Lease, Goto
<1>3. LeaseOwner[s] \in Owners
  BY Parameters
<1>4. PICK e : e = [outbox[r] EXCEPT !.status = "leased", !.lease_owner = LeaseOwner[s],
                                     !.lease_expired = FALSE]
  OBVIOUS
<1>5. outbox[r] \in OutboxEntry /\ r \in 1..Len(intents)
  BY <1>1, OutboxTypes
<1>6. e \in OutboxEntry /\ e.status # "complete" /\ outbox' = [outbox EXCEPT ![r] = e]
  BY <1>1, <1>3, <1>4, <1>5, OutboxTypes DEF OutboxEntry, OutboxStatus, LeaseOutbox
<1>7. UNCHANGED <<stream, candidate, deployment, attempt, ordinals, intents,
                  confirmations, applied>>
  BY <1>1, <1>2 DEF LeaseOutbox
<1>8. StoreTypeOK' /\ applied' \in Seq(Intent) /\ StoreInvariant'
  BY <1>1, <1>6, <1>7, LeaseStore
<1>9. Grows(s)
  BY <1>7, Types DEF Grows, Accepted
<1>10. PICK m : m = [mem[s] EXCEPT !.intent = intents[r],
                                   !.dispatch = outbox[r].dispatch_ordinal]
  OBVIOUS
<1>11. mem[s] \in Memory /\ Consistent("lease", mem[s])
  BY <1>2, Types
<1>12. /\ intents[r] \in Intent /\ intents[r].projection_revision = r
       /\ outbox[r].dispatch_ordinal \in Nat
  BY <1>5, Types DEF InductiveInvariant, TargetFollowsLog, OutboxEntry
<1>13. /\ m \in Memory /\ m.stream = mem[s].stream /\ m.claim = mem[s].claim
       /\ m.log = mem[s].log /\ m.contract = mem[s].contract /\ m.intent = intents[r]
  BY <1>10, <1>11, <1>12 DEF Memory
<1>14. Moves(s, "resume", m)
  BY <1>1, <1>2, <1>10, <1>13 DEF Moves, Steps
<1>15. Consistent("resume", m)
  <2>1. m.intent \in Intent /\ m.intent.projection_revision = r /\ r <= Len(intents)
    BY <1>5, <1>12, <1>13
  <2>. QED BY <1>11, <1>13, <2>1 DEF Consistent, SubmitSteps, StagedSteps, OwningSteps
<1>16. Consistent("resume", m)'
  BY <1>8, <1>9, <1>13, <1>15, OthersStayConsistent DEF OwningSteps, Steps
<1>17. boundary' \in Nat /\ faults' \in Nat /\ crashes' \in Nat
  BY <1>2, Types DEF envVars
<1>18. InductiveInvariant'
  BY <1>8, <1>9, <1>14, <1>16, <1>17, StepPreserves DEF OwningSteps
<1>. QED BY <1>7, <1>18

\* Time: a lease expires, a scheduled boundary passes.
LEMMA TimePreserves ==
    ASSUME InductiveInvariant,
           (\E r \in 1..Len(outbox) : ExpireLease(r)) \/ PassBoundary
    PROVE  InductiveInvariant' /\ UNCHANGED <<intents, applied, confirmations>>
<1>1. UNCHANGED <<stream, candidate, deployment, attempt, ordinals, intents,
                  confirmations, applied, pc, mem>>
  BY DEF ExpireLease, LeaseExpires, PassBoundary, storeVars, sessionVars
<1>2. StoreTypeOK' /\ applied' \in Seq(Intent) /\ StoreInvariant'
  <2>1. ASSUME NEW r \in 1..Len(outbox), ExpireLease(r)
        PROVE  StoreTypeOK' /\ applied' \in Seq(Intent) /\ StoreInvariant'
    <3>1. PICK e : e = [outbox[r] EXCEPT !.lease_expired = TRUE]
      OBVIOUS
    <3>2. outbox[r] \in OutboxEntry /\ outbox[r].status = "leased"
      BY <2>1, OutboxTypes DEF ExpireLease, LeaseExpires
    <3>3. e \in OutboxEntry /\ e.status # "complete" /\ outbox' = [outbox EXCEPT ![r] = e]
      BY <2>1, <3>1, <3>2, OutboxTypes DEF OutboxEntry, ExpireLease, LeaseExpires
    <3>. QED BY <1>1, <3>3, LeaseStore
  <2>2. CASE PassBoundary
    <3>1. outbox' = outbox
      BY <2>2 DEF PassBoundary, storeVars
    <3>. QED BY <1>1, <3>1 DEF InductiveInvariant, TypeOK, StoreTypeOK, StoreInvariant,
                TargetFollowsLog, PublishedOnce, ConfirmedIsApplied, TablesAgree, Accepted
  <2>. QED BY <2>1, <2>2
<1>3. boundary' \in Nat /\ faults' \in Nat /\ crashes' \in Nat
  BY DEF InductiveInvariant, TypeOK, ExpireLease, PassBoundary, envVars
<1>4. TypeOK'
  BY <1>1, <1>2, <1>3 DEF InductiveInvariant, TypeOK
<1>5. ASSUME NEW s \in Sessions PROVE Consistent(pc[s], mem[s])'
  BY <1>1 DEF InductiveInvariant, Consistent, Accepted, Conflicts, Staged
<1>6. ASSUME NEW s \in Sessions, NEW u \in Sessions, Owns(s)', Owns(u)' PROVE s = u
  BY <1>1, <1>6 DEF InductiveInvariant, Owns, Expected
<1>. QED BY <1>1, <1>2, <1>4, <1>5, <1>6 DEF InductiveInvariant, StoreInvariant

-----------------------------------------------------------------------------
(* Contract and deployment transitions *)

\* A lifecycle transaction: the state revision moves on, attempts before their
\* intent may be fenced, the log and the outbox stay.
LEMMA LifecycleStore ==
    ASSUME InductiveInvariant, NEW s \in Sessions,
           stream' \in StreamState,
           stream'.state_revision = stream.state_revision + 1,
           stream'.required_projection_revision = stream.required_projection_revision,
           candidate' \in [contract : Contracts \cup {None}, migration : Migration],
           deployment' \in
             [candidate_manifest : Contracts \cup {None},
              active_manifest : Contracts \cup {None},
              deployment_revision : Nat],
           attempt' = attempt \/ FenceAttempts,
           UNCHANGED <<ordinals, intents, outbox, confirmations, applied>>
    PROVE  /\ StoreTypeOK' /\ applied' \in Seq(Intent) /\ StoreInvariant' /\ Grows(s)
           /\ stream.state_revision < stream'.state_revision
<1>1. attempt \in [Claims -> AttemptState \cup {"absent"}] /\ ordinals \in Seq(Claims)
  BY DEF InductiveInvariant, TypeOK, StoreTypeOK
<1>2. /\ attempt' \in [Claims -> AttemptState \cup {"absent"}]
      /\ \A c \in Claims : Accepted(c) => Accepted(c)'
  <2>1. CASE attempt' = attempt
    BY <1>1, <2>1 DEF Accepted
  <2>2. CASE FenceAttempts
    BY <1>1, <2>2 DEF FenceAttempts, Accepted, AttemptState, Terminal
  <2>. QED BY <2>1, <2>2
<1>3. StoreTypeOK'
  BY <1>2 DEF InductiveInvariant, TypeOK, StoreTypeOK
<1>4. ConfirmedIsApplied'
  BY DEF InductiveInvariant, ConfirmedIsApplied
<1>5. (\A n \in 1..Len(ordinals) : Accepted(ordinals[n]))'
  BY <1>1, <1>2 DEF InductiveInvariant, TablesAgree, Accepted
<1>6. /\ stream.state_revision < stream'.state_revision
      /\ stream.state_revision <= stream'.state_revision
      /\ stream'.state_revision # stream.state_revision
      /\ stream'.required_projection_revision <= Len(intents)
  BY Types
<1>7. StoreInvariant' /\ Grows(s) /\ applied' \in Seq(Intent)
  BY <1>2, <1>3, <1>4, <1>5, <1>6, LogKept
<1>. QED BY <1>3, <1>6, <1>7

LEMMA AdministerPreserves ==
    ASSUME InductiveInvariant, NEW s \in Sessions,
           Register(s) \/ Activate(s) \/ DeployRegister(s) \/ DeployActivate(s)
    PROVE  InductiveInvariant' /\ UNCHANGED <<intents, applied, confirmations>>
<1>1. /\ mem[s] \in Memory /\ Consistent(pc[s], mem[s])
      /\ mem[s].contract \in Contracts /\ mem[s].migration \in Migration
      /\ mem[s].deployment_revision \in Nat
  BY Types DEF Memory, Consistent, Register, Activate, DeployRegister, DeployActivate
<1>2. /\ stream \in StreamState
      /\ candidate \in [contract : Contracts \cup {None}, migration : Migration]
      /\ deployment \in
           [candidate_manifest : Contracts \cup {None},
            active_manifest : Contracts \cup {None},
            deployment_revision : Nat]
  BY DEF InductiveInvariant, TypeOK, StoreTypeOK
<1>3. UNCHANGED <<ordinals, intents, outbox, confirmations, applied, envVars>>
  BY DEF Register, Activate, DeployRegister, DeployActivate, RegisterContract,
         ActivateContract, RegisterDeployment, ActivateDeployment
<1>4. /\ stream' \in StreamState
      /\ stream'.state_revision = stream.state_revision + 1
      /\ stream'.required_projection_revision = stream.required_projection_revision
  <2>1. CASE Register(s) \/ DeployRegister(s) \/ DeployActivate(s)
    <3>1. stream' = [stream EXCEPT !.state_revision = @ + 1]
      BY <2>1 DEF Register, DeployRegister, DeployActivate, RegisterContract,
                  RegisterDeployment, ActivateDeployment
    <3>. QED BY <1>2, <3>1 DEF StreamState
  <2>2. CASE Activate(s)
    <3>1. PICK epoch \in {stream.visibility_epoch, stream.visibility_epoch + 1},
               progress \in {stream.accepted_progress, None} :
            stream' = [stream EXCEPT !.active_contract = mem[s].contract,
                         !.state_revision = @ + 1, !.visibility_epoch = epoch,
                         !.accepted_progress = progress]
      BY <2>2 DEF Activate, ActivateContract
    <3>2. /\ epoch \in Nat /\ progress \in Claims \cup {None}
          /\ stream.state_revision + 1 \in Nat
      BY <1>2 DEF StreamState
    <3>3. stream' = [state_revision |-> stream.state_revision + 1,
                     required_projection_revision |-> stream.required_projection_revision,
                     accepted_progress |-> progress,
                     active_contract |-> mem[s].contract, visibility_epoch |-> epoch]
      BY <1>2, <3>1 DEF StreamState
    <3>4. stream.required_projection_revision \in Nat
      BY <1>2 DEF StreamState
    <3>. QED BY <1>1, <3>2, <3>3, <3>4 DEF StreamState
  <2>. QED BY <2>1, <2>2
<1>5. /\ candidate' \in [contract : Contracts \cup {None}, migration : Migration]
      /\ deployment' \in
           [candidate_manifest : Contracts \cup {None},
            active_manifest : Contracts \cup {None},
            deployment_revision : Nat]
      /\ attempt' = attempt \/ FenceAttempts
  <2>1. CASE Register(s)
    BY <1>1, <1>2, <2>1 DEF Register, RegisterContract
  <2>2. CASE Activate(s)
    <3>1. /\ candidate' = [contract |-> None, migration |-> "none"]
          /\ deployment' = deployment /\ FenceAttempts
      BY <2>2 DEF Activate, ActivateContract
    <3>2. "none" \in Migration
      BY DEF Migration
    <3>. QED BY <1>2, <3>1, <3>2
  <2>3. CASE DeployRegister(s)
    <3>1. /\ candidate' = candidate /\ attempt' = attempt
          /\ deployment' = [deployment EXCEPT !.candidate_manifest = mem[s].contract,
                                              !.deployment_revision = @ + 1]
      BY <2>3 DEF DeployRegister, RegisterDeployment
    <3>2. deployment.deployment_revision + 1 \in Nat /\ mem[s].contract \in Contracts \cup {None}
      BY <1>1, <1>2
    <3>3. deployment' = [candidate_manifest |-> mem[s].contract,
                         active_manifest |-> deployment.active_manifest,
                         deployment_revision |-> deployment.deployment_revision + 1]
      BY <1>2, <3>1
    <3>. QED BY <1>2, <3>1, <3>2, <3>3
  <2>4. CASE DeployActivate(s)
    BY <1>1, <1>2, <2>4 DEF DeployActivate, ActivateDeployment
  <2>. QED BY <2>1, <2>2, <2>3, <2>4
<1>6. /\ StoreTypeOK' /\ applied' \in Seq(Intent) /\ StoreInvariant' /\ Grows(s)
      /\ stream.state_revision < stream'.state_revision
  BY <1>3, <1>4, <1>5, LifecycleStore
<1>7. CASE Close(s)
  BY <1>3, <1>6, <1>7, CloseWrite
<1>8. CASE ~Close(s)
  <2>1. /\ pc[s] = "register" /\ pc' = [pc EXCEPT ![s] = "activate"]
        /\ mem' = [mem EXCEPT ![s].stream = stream']
    BY <1>8 DEF Register, Activate, DeployRegister, DeployActivate, Goto
  <2>2. PICK m : m = [mem[s] EXCEPT !.stream = stream']
    OBVIOUS
  <2>3. /\ m \in Memory /\ m.stream = stream' /\ m.claim = mem[s].claim
        /\ m.log = mem[s].log /\ m.contract = mem[s].contract
    BY <1>1, <1>4, <2>2 DEF Memory
  <2>4. Moves(s, "activate", m)
    BY <2>1, <2>2, <2>3 DEF Moves, Steps
  <2>5. m.claim \in Claims \cup {None} /\ (m.claim = None \/ Accepted(m.claim))
    BY <1>1, <2>1, <2>3 DEF Consistent, SubmitSteps, Memory
  <2>6. /\ m.stream.required_projection_revision <= Len(intents')
        /\ m.stream.state_revision <= stream'.state_revision
        /\ m.log \subseteq 1..Len(intents')
        /\ m.claim = None \/ Accepted(m.claim)'
    <3>1. mem[s].log \subseteq 1..Len(intents)
      BY <1>1 DEF Consistent
    <3>2. m.claim = None \/ Accepted(m.claim)'
      BY <1>6, <2>5 DEF Grows
    <3>. QED BY <1>3, <1>4, <2>3, <3>1, <3>2, Types
  <2>7. Consistent("activate", m)'
    BY <1>1, <2>3, <2>6 DEF Consistent, SubmitSteps, StagedSteps, OwningSteps
  <2>8. boundary' \in Nat /\ faults' \in Nat /\ crashes' \in Nat
    BY <1>3, Types DEF envVars
  <2>. QED BY <1>3, <1>6, <2>4, <2>7, <2>8, StepPreserves DEF OwningSteps
<1>. QED BY <1>3, <1>7, <1>8

-----------------------------------------------------------------------------
(* The theorems *)

LEMMA InitEstablishes ==
    ASSUME Init
    PROVE  InductiveInvariant
<1>1. NoMemory \in Memory
  BY DEF NoMemory, Memory, EmptyStream, StreamState, Continuations, Migration
<1>2. stream \in StreamState /\ stream.state_revision \in Nat
      /\ stream.required_projection_revision = 0
  BY Parameters DEF Init, EmptyStream, StreamState
<1>3. /\ deployment \in
           [candidate_manifest : Contracts \cup {None},
            active_manifest : Contracts \cup {None},
            deployment_revision : Nat]
      /\ candidate \in [contract : Contracts \cup {None}, migration : Migration]
  BY Parameters DEF Init, Migration
<1>4. /\ attempt \in [Claims -> AttemptState \cup {"absent"}]
      /\ ordinals \in Seq(Claims) /\ intents \in Seq(Intent)
      /\ outbox \in Seq(OutboxEntry) /\ confirmations \subseteq Nat
      /\ applied \in Seq(Intent)
  BY DEF Init
<1>5. StoreTypeOK
  BY <1>2, <1>3, <1>4 DEF StoreTypeOK
<1>6. pc \in [Sessions -> Steps] /\ mem \in [Sessions -> Memory]
  BY <1>1 DEF Init, Steps
<1>7. TypeOK
  BY <1>4, <1>5, <1>6 DEF Init, TypeOK
<1>8. /\ Len(intents) = 0 /\ Len(applied) = 0 /\ Len(outbox) = 0 /\ Len(ordinals) = 0
      /\ confirmations = {}
  BY DEF Init
<1>9. TargetFollowsLog /\ ConfirmedIsApplied /\ PublishedOnce /\ TablesAgree
  BY <1>2, <1>8 DEF TargetFollowsLog, ConfirmedIsApplied, PublishedOnce, TablesAgree
<1>10. ASSUME NEW s \in Sessions PROVE Consistent(pc[s], mem[s]) /\ ~Owns(s)
  <2>1. /\ pc[s] = "idle" /\ mem[s].log = {} /\ mem[s].stream.state_revision = 0
        /\ mem[s].stream.required_projection_revision = 0
    BY DEF Init, NoMemory, EmptyStream
  <2>. QED BY <1>2, <1>8, <2>1 DEF Consistent, SubmitSteps, Owns, StagedSteps, OwningSteps
<1>. QED BY <1>7, <1>9, <1>10 DEF InductiveInvariant

\* Every step of every session, and of time, preserves the invariant.
LEMMA NextPreserves ==
    ASSUME InductiveInvariant, [Next]_vars
    PROVE  InductiveInvariant'
<1>1. ASSUME NEW s \in Sessions, Deliver(s) PROVE InductiveInvariant'
  <2>1. CASE Prepare(s) \/ Materialize(s) \/ Validate(s)
    <3>1. PICK p \in {"received", "preparing", "materializing"},
               q \in {"preparing", "materializing", "validating"} : Transition(s, p, q, q)
      BY <2>1 DEF Prepare, Materialize, Validate
    <3>2. /\ q \in AttemptState /\ q \in Steps
          /\ p \in OwningSteps /\ q \in OwningSteps \ {"stage"}
      BY DEF AttemptState, PreIntent, Steps, OwningSteps
    <3>. QED BY <3>1, <3>2, TransitionPreserves
  <2>. QED BY <1>1, <2>1, SubmitAdmittedPreserves, SubmitPreserves, SubmitReplayPreserves,
              RefusalPreserves, FailAttemptPreserves, BeginCommitPreserves,
              StagePublicationPreserves
           DEF Deliver
<1>2. ASSUME NEW s \in Sessions, Apply(s) PROVE InductiveInvariant'
  <2>1. CASE CommitAttempt(s) \/ BlockAttempt(s)
    <3>1. PICK p \in {"applied", "refused"}, state \in {"committed", "commit_blocked"},
               q \in {"settle", "fail"} :
            /\ Transition(s, p, state, q)
            /\ (p = "applied" /\ q = "settle") \/ (p = "refused" /\ q = "fail")
      BY <2>1 DEF CommitAttempt, BlockAttempt
    <3>2. state \in AttemptState /\ q \in Steps
      BY DEF AttemptState, PostIntent, Terminal, Steps
    <3>. QED BY <3>1, <3>2, TransitionPreserves
  <2>. QED BY <1>2, <2>1, ApplyIntentPreserves, TargetRefusesPreserves, SettlePreserves,
              GiveBackPreserves
           DEF Apply
<1>3. ASSUME NEW s \in Sessions, Evaluate(s) PROVE InductiveInvariant'
  BY <1>3, LeasePreserves, ReadPreserves, StageScheduledPreserves, RefusalPreserves
  DEF Evaluate
<1>4. ASSUME NEW s \in Sessions, Administer(s) PROVE InductiveInvariant'
  BY <1>4, AdministerPreserves, RefusalPreserves DEF Administer
<1>5. CASE UNCHANGED vars
  <2>1. UNCHANGED <<stream, candidate, deployment, attempt, ordinals, intents, outbox,
                    confirmations, applied, pc, mem, boundary, faults, crashes>>
    BY <1>5 DEF vars, storeVars, sessionVars, envVars
  <2>2. TypeOK'
    BY <2>1 DEF InductiveInvariant, TypeOK, StoreTypeOK
  <2>3. TargetFollowsLog' /\ ConfirmedIsApplied' /\ PublishedOnce' /\ TablesAgree'
    BY <2>1 DEF InductiveInvariant, TargetFollowsLog, ConfirmedIsApplied, PublishedOnce,
                TablesAgree, Accepted
  <2>4. ASSUME NEW s \in Sessions PROVE Consistent(pc[s], mem[s])'
    BY <2>1 DEF InductiveInvariant, Consistent, Accepted, Conflicts, Staged
  <2>5. ASSUME NEW s \in Sessions, NEW u \in Sessions, Owns(s)', Owns(u)' PROVE s = u
    BY <2>1, <2>5 DEF InductiveInvariant, Owns, Expected
  <2>. QED BY <2>2, <2>3, <2>4, <2>5 DEF InductiveInvariant
<1>. QED
  BY <1>1, <1>2, <1>3, <1>4, <1>5, StartPreserves, RefusalPreserves, TimePreserves
  DEF Next, Step

\* Every step is a step of the publication log, or leaves it alone.
LEMMA NextImplements ==
    ASSUME InductiveInvariant, [Next]_vars
    PROVE  [Log!LogNext]_(Log!abstractVars)
<1> DEFINE Quiescent == UNCHANGED <<intents, applied, confirmations>>
<1>1. ASSUME NEW s \in Sessions, Start(s) \/ Refuse(s) \/ Crash(s) PROVE Quiescent
  BY <1>1 DEF Start, IngestFile, IngestDue, Reconcile, ContractCommand, DeploymentCommand,
     Refuse, StaleRevision, StageConflict, LeaseConflict, Crash, storeVars
<1>2. ASSUME NEW s \in Sessions, Deliver(s) PROVE Quiescent \/ Log!Reserve
  BY <1>2, StagePublicationPreserves
  DEF Deliver, SubmitAdmitted, SubmitManaged, InsertAttempt, SubmitReplay, SubmitRefused, Prepare,
      Materialize, Validate, Transition, SaveAttempt, FailAttempt, BeginCommit, storeVars
<1>3. ASSUME NEW s \in Sessions, Apply(s) PROVE Quiescent \/ Log!LogNext
  <2>1. CASE ApplyIntent(s)
    BY <2>1, ApplyIntentPreserves DEF Log!LogNext, Log!Publish
  <2>2. CASE Settle(s)
    BY <2>2, SettlePreserves DEF Log!LogNext, Log!Acknowledge
  <2>3. CASE GiveBack(s)
    BY <2>3, GiveBackPreserves
  <2>4. CASE ApplyOutOfOrder(s) \/ TargetUnavailable(s)
    BY <2>4 DEF ApplyOutOfOrder, TargetUnavailable, storeVars
  <2>5. CASE CommitAttempt(s) \/ BlockAttempt(s)
    BY <2>5 DEF CommitAttempt, BlockAttempt, Transition, SaveAttempt
  <2>. QED BY <1>3, <2>1, <2>2, <2>3, <2>4, <2>5 DEF Apply
<1>4. ASSUME NEW s \in Sessions, Evaluate(s) PROVE Quiescent \/ Log!Reserve
  <2>1. CASE StageHeartbeat(s) \/ StageOccurrence(s)
    BY <2>1, StageScheduledPreserves
  <2>2. CASE Lease(s)
    BY <2>2, LeasePreserves
  <2>3. CASE ~(StageHeartbeat(s) \/ StageOccurrence(s) \/ Lease(s))
    BY <1>4, <2>3 DEF Evaluate, NothingDue, Resume, Heartbeat, HeartbeatGate, ReadStatus,
       ReadSince, Schedule, ScheduleGate, EndSchedule, ReadLog, ReplayIntent, EndReplay, storeVars
  <2>. QED BY <2>1, <2>2, <2>3
<1>5. ASSUME NEW s \in Sessions, Administer(s) PROVE Quiescent
  BY <1>5, AdministerPreserves DEF Administer, ActivateRefused, DeployRefused, storeVars
<1>6. CASE (\E r \in 1..Len(outbox) : ExpireLease(r)) \/ PassBoundary
  BY <1>6, TimePreserves DEF Log!abstractVars
<1>7. CASE UNCHANGED vars
  BY <1>7 DEF vars, storeVars, Log!abstractVars
<1>8. CASE \E s \in Sessions : Start(s) \/ Step(s) \/ Crash(s)
  <2>1. PICK s \in Sessions : Start(s) \/ Step(s) \/ Crash(s)
    BY <1>8
  <2>2. Quiescent \/ Log!LogNext
    <3>. HIDE DEF Quiescent
    <3>. QED BY <1>1, <1>2, <1>3, <1>4, <1>5, <2>1 DEF Step, Log!LogNext
  <2>. QED BY <2>2 DEF Log!abstractVars
<1>. QED BY <1>6, <1>7, <1>8 DEF Next

\* The invariant holds in every reachable state, for any number of sessions
\* that run any commands over the stream, with any crashes and faults.
THEOREM InvariantHolds == Spec => []InductiveInvariant
<1>1. Init => InductiveInvariant
  BY InitEstablishes
<1>2. InductiveInvariant /\ [Next]_vars => InductiveInvariant'
  BY NextPreserves
<1>. QED BY <1>1, <1>2, PTL DEF Spec

\* Type correctness of the store, the target and the sessions' memory.
THEOREM TypeCorrect == Spec => []TypeOK
<1>1. InductiveInvariant => TypeOK
  BY DEF InductiveInvariant
<1>. QED BY <1>1, InvariantHolds, PTL

\* apply_gap_ordered keeps the target a prefix of the staged log, whatever the
\* runtime dispatches, retries and replays.
THEOREM TargetIsPrefix == Spec => []TargetFollowsLog
<1>1. InductiveInvariant => TargetFollowsLog
  BY DEF InductiveInvariant
<1>. QED BY <1>1, InvariantHolds, PTL

\* The settlement of _apply_outbox_intent never runs ahead of the target.
THEOREM SettlementFollowsTarget == Spec => []ConfirmedIsApplied
<1>1. InductiveInvariant => ConfirmedIsApplied
  BY DEF InductiveInvariant
<1>. QED BY <1>1, InvariantHolds, PTL

\* publish stages a claim once, whatever sessions submit and resume it.
THEOREM ClaimIsPublishedOnce == Spec => []PublishedOnce
<1>1. InductiveInvariant => PublishedOnce
  BY DEF InductiveInvariant
<1>. QED BY <1>1, InvariantHolds, PTL

\* The runtime implements the publication log: what it stages, applies and
\* confirms is an append-only log, its published prefix, and acknowledgements.
THEOREM ImplementsPublicationLog == Spec => PublicationIsOrdered
<1>1. Init => Log!LogInit
  BY DEF Init, Log!LogInit
<1>2. InductiveInvariant /\ [Next]_vars => [Log!LogNext]_(Log!abstractVars)
  BY NextImplements
<1>. QED BY <1>1, <1>2, InvariantHolds, PTL DEF Spec, PublicationIsOrdered, Log!LogSpec

=============================================================================
