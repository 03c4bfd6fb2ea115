-------------------------- MODULE QuarantineProofs --------------------------
(***************************************************************************)
(* Proofs about Quarantine: no row is accepted twice, a delivery that        *)
(* reaches validation was landed whole, a checkpoint is the last of its      *)
(* writes, and an envelope is lost only with a process, for any payloads,    *)
(* pages and numbers of crashes and releases.                                *)
(***************************************************************************)
EXTENDS Quarantine, FiniteSetTheorems, SequenceTheorems, TLAPS

-----------------------------------------------------------------------------
(* The inductive invariant *)

Calls == {"prepare", "begin_prepare", "append_raw", "finish_prepare", "materialize",
          "begin_materialization", "dispositions", "finish_materialization",
          "validate", "begin_evaluate", "evaluate", "applied", "receipt", "quality",
          "lineage", "metadata", "materialize_release", "bump", "checkpoint", "idle"}

\* The port call at hand, or the one that follows the emission at hand.
Call == IF pc = "emit" THEN work.then ELSE pc

Dispositions == Attempts \X Nat

LifecycleEvent ==
    [attempt : Attempts, revision : Nat,
     type : AttemptTypes \cup {"receipt", "quality", "lineage", "metadata"}]

Decision ==
    [kind : {"evaluated", "released"}, evaluation : Dispositions,
     disposition_ids : Seq((Attempts \cup {"locator"}) \X Nat),
     locators : SUBSET Dispositions, decided_at : Nat]

Row == [partition : ({"delivery"} \X Attempts) \cup ({"release"} \X Dispositions),
        attempt : Attempts, frame : Nat]

TableTypes ==
    /\ preparations \in [DOMAIN preparations ->
                           [raw : Nat, next_offset : Nat, closed : BOOLEAN]]
    /\ candidates \in [DOMAIN candidates -> Seq(Frame)]
    /\ sessions \in [DOMAIN sessions -> [next_frame_sequence : Nat, closed : BOOLEAN]]
    /\ DOMAIN preparations \subseteq Attempts
    /\ DOMAIN candidates \subseteq Attempts
    /\ DOMAIN sessions \subseteq Attempts
    /\ accepted \in Seq(Row)

StoreTypes ==
    /\ decisions \subseteq [decision : Decision, identity : {Stream, NoIdentity}]
    /\ events \in Seq([event : LifecycleEvent, ordinal : Nat])
    /\ revision \in Nat
    /\ attempt \in [Attempts -> AttemptTypes \cup {"absent"}]
    /\ checkpoint \in [Attempts -> Decision \cup {NoIdentity}]
    /\ clock \in Nat
    /\ crashes \in Nat

ProcessTypes ==
    /\ pc \in Calls \cup {"emit"}
    /\ work \in [attempt : Attempts \cup {NoIdentity}, cursor : Nat,
                 event : LifecycleEvent \cup {NoIdentity}, then : Calls,
                 left : SUBSET Nat, decision : Decision \cup {NoIdentity}]
    /\ pc # "idle" => work.attempt \in Attempts
    /\ pc = "emit" => work.event \in LifecycleEvent

\* A session that is closed.
Closed(a) == a \in DOMAIN sessions /\ sessions[a].closed

\* The candidates are the whole payload, and the dispositions of a session are
\* the ones of the frames it went through.
SessionsFollowPayload ==
    /\ \A a \in DOMAIN candidates : Decodes(a) /\ candidates[a] = Payload[a]
    /\ DOMAIN sessions \subseteq DOMAIN candidates
    /\ dispositions = [a \in DOMAIN sessions |->
         [n \in 0..(sessions[a].next_frame_sequence - 1) |-> StatusOf(Payload[a][n + 1])]]
    /\ \A a \in DOMAIN sessions :
         /\ sessions[a].next_frame_sequence <= Len(Payload[a])
         /\ sessions[a].closed => sessions[a].next_frame_sequence = Len(Payload[a])

DeliveryRow(a, n) == [partition |-> <<"delivery", a>>, attempt |-> a, frame |-> n]

ReleaseRow(a, n) == [partition |-> <<"release", <<a, n>>>>, attempt |-> a, frame |-> n]

\* A row came with its delivery, or with the one release of a rejected frame.
HasSource(row) ==
    \E a \in DOMAIN sessions :
      /\ sessions[a].closed
      /\ \E n \in DOMAIN dispositions[a] :
           row = IF dispositions[a][n] = "accepted" THEN DeliveryRow(a, n)
                 ELSE ReleaseRow(a, n)

\* A closed session has all the rows of its delivery, and no row is without a
\* source.
RowsHaveSource ==
    /\ \A i \in 1..Len(accepted) : HasSource(accepted[i])
    /\ \A a \in DOMAIN sessions : sessions[a].closed =>
         \A n \in DOMAIN dispositions[a] : dispositions[a][n] = "accepted" =>
           \E i \in 1..Len(accepted) : accepted[i] = DeliveryRow(a, n)

\* A disposition a decision can be about.
Evaluable(d) == Closed(d[1]) /\ d[2] \in Rejected(d[1])

DecisionsAreAboutRejected ==
    \A p \in decisions :
      /\ Evaluable(p.decision.evaluation)
      /\ p.decision.kind = "evaluated" =>
           /\ p.decision.disposition_ids = <<p.decision.evaluation>>
           /\ p.identity = Stream
      /\ p.decision.kind = "released" =>
           p.decision.disposition_ids = <<<<"locator", 0>>>>

Evaluation(a, n) ==
    \E p \in decisions : p.identity = Stream /\ p.decision.disposition_ids = <<<<a, n>>>>

Recorded(d) == \E p \in decisions : p.decision = d

\* What the tables and the repository hold of an attempt, by its state.
AttemptFollowsTables(a) ==
    /\ attempt[a] = "absent" =>
         a \notin DOMAIN preparations \cup DOMAIN candidates \cup DOMAIN sessions
    /\ attempt[a] \in {"validating", "committing", "committed"} => Closed(a)
    /\ attempt[a] \in {"committing", "committed"} =>
         \A n \in Rejected(a) : Evaluation(a, n)
    /\ checkpoint[a] # NoIdentity =>
         /\ checkpoint[a].kind = "released"
         /\ Recorded(checkpoint[a])
         /\ <<"release", checkpoint[a].evaluation>> \in Partitions

AttemptsFollowTables == \A a \in Attempts : AttemptFollowsTables(a)

\* What holds of the attempt a, at each call of its landing.
ProcessFollowsTables ==
    LET a == work.attempt IN
    /\ pc # "idle" => attempt[a] # "absent"
    /\ Call \in {"prepare", "begin_prepare"} => a \notin DOMAIN preparations
    /\ Call \in {"prepare", "begin_prepare", "append_raw", "finish_prepare"} =>
         a \notin DOMAIN candidates
    /\ Call \in {"prepare", "begin_prepare", "append_raw", "finish_prepare",
                 "materialize", "begin_materialization"} => a \notin DOMAIN sessions
    /\ Call = "append_raw" =>
         /\ a \in DOMAIN preparations
         /\ preparations[a].raw = work.cursor
         /\ work.cursor <= Bytes(a)
    /\ Call = "finish_prepare" =>
         a \in DOMAIN preparations /\ preparations[a].raw = Bytes(a)
    /\ Call \in {"materialize", "begin_materialization"} => a \in DOMAIN candidates
    /\ Call = "dispositions" =>
         /\ a \in DOMAIN sessions
         /\ sessions[a].next_frame_sequence = work.cursor
         /\ work.cursor < Len(Payload[a]) \/ Len(Payload[a]) = 0
    /\ Call \in {"dispositions", "finish_materialization"} => ~Closed(a)
    /\ Call = "finish_materialization" =>
         a \in DOMAIN sessions /\ sessions[a].next_frame_sequence = Len(Payload[a])
    /\ Call \in {"validate", "begin_evaluate", "evaluate", "applied"} => Closed(a)
    /\ Call = "evaluate" =>
         /\ work.left \subseteq Rejected(a)
         /\ \A n \in Rejected(a) \ work.left : Evaluation(a, n)
    /\ Call = "applied" => attempt[a] = "committing"

\* What a release holds in memory, at each call of it.
ReleaseFollowsDecision ==
    Call \in {"materialize_release", "bump", "checkpoint"} =>
      LET d == work.decision IN
      /\ d \in Decision
      /\ d.kind = "released"
      /\ Recorded(d)
      /\ d.locators = {d.evaluation}
      /\ work.attempt = d.evaluation[1]
      /\ Call # "materialize_release" => <<"release", d.evaluation>> \in Partitions

\* The log, and what is in memory of it.
LogFollowsRevisions ==
    /\ LogIsGapFree
    /\ \A i \in 1..Len(events) : events[i].event.revision <= revision
    /\ pc = "emit" => work.event.revision = revision

\* The envelopes that are neither in the log nor about to be sent to it.
Lost == {e \in owed : ~Stored(e) /\ ~(pc = "emit" /\ e = work.event)}

LossIsBounded ==
    /\ IsFiniteSet(owed)
    /\ Cardinality(Lost) <= crashes

QuarantineInductive ==
    /\ TableTypes
    /\ StoreTypes
    /\ ProcessTypes
    /\ SessionsFollowPayload
    /\ RowsHaveSource
    /\ RowAcceptedOnce
    /\ DecisionsAreAboutRejected
    /\ AttemptsFollowTables
    /\ ProcessFollowsTables
    /\ ReleaseFollowsDecision
    /\ LogFollowsRevisions
    /\ LossIsBounded

-----------------------------------------------------------------------------
(* The operators of the landing tables *)

\* Every nonempty set of naturals has a least element.
LEMMA LeastNatural ==
    ASSUME NEW T, T \subseteq Nat, T # {}
    PROVE  \E x \in T : \A y \in T : x <= y
<1> DEFINE R == OpToRel(<, Nat)
<1>1. IsWellFoundedOn(R, Nat)
  BY NatLessThanWellFounded
<1>2. \A y, x \in Nat : y < x => <<y, x>> \in R
  BY DEF OpToRel
<1> HIDE DEF R
<1>3. PICK x \in T : \A y \in T : ~ (<<y, x>> \in R)
  BY <1>1, WFMin
<1>4. ASSUME NEW y \in T PROVE x <= y
  <2>1. x \in Nat /\ y \in Nat
    OBVIOUS
  <2>2. ~(y < x)
    BY <1>2, <1>3, <2>1
  <2>. QED BY <2>1, <2>2
<1>. QED BY <1>4

\* First takes a least element of the set it is given.
LEMMA FirstIsLeast ==
    ASSUME NEW T, T \subseteq Nat, T # {}
    PROVE  First(T) \in T /\ \A m \in T : First(T) <= m
BY LeastNatural DEF First

\* The place of a frame in the order of a finite set of them is one of the
\* set's places, two frames have two places, and every place has its frame.
LEMMA FrameAtEnumerates ==
    ASSUME NEW frames, frames \subseteq Nat, IsFiniteSet(frames)
    PROVE  /\ Cardinality(frames) \in Nat
           /\ \A i \in 1..Cardinality(frames) : FrameAt(frames, i) \in frames
           /\ \A i, j \in 1..Cardinality(frames) :
                FrameAt(frames, i) = FrameAt(frames, j) => i = j
           /\ \A n \in frames : \E i \in 1..Cardinality(frames) : FrameAt(frames, i) = n
<1> DEFINE before(n) == {x \in frames : x < n}
           k == Cardinality(frames)
           place == [n \in frames |-> Cardinality(before(n))]
<1>1. k \in Nat
  BY FS_CardinalityType
<1>2. \A n \in frames : /\ IsFiniteSet(before(n))
                        /\ Cardinality(before(n)) \in Nat
                        /\ Cardinality(before(n)) <= k
                        /\ Cardinality(before(n)) # k
  <2> SUFFICES ASSUME NEW n \in frames
               PROVE  /\ IsFiniteSet(before(n))
                      /\ Cardinality(before(n)) \in Nat
                      /\ Cardinality(before(n)) <= k
                      /\ Cardinality(before(n)) # k
    OBVIOUS
  <2>1. before(n) \in SUBSET frames /\ n \notin before(n)
    OBVIOUS
  <2>2. IsFiniteSet(before(n)) /\ Cardinality(before(n)) <= k
        /\ (k = Cardinality(before(n)) => frames = before(n))
    BY <2>1, FS_Subset
  <2>3. Cardinality(before(n)) \in Nat
    BY <2>2, FS_CardinalityType
  <2>. QED BY <2>1, <2>2, <2>3
<1>3. ASSUME NEW m \in frames, NEW n \in frames, m < n
      PROVE  place[m] # place[n]
  <2>1. before(m) \in SUBSET before(n) /\ m \in before(n) /\ m \notin before(m)
    <3>1. \A x \in frames : x < m => x < n
      BY <1>3
    <3>2. before(m) \in SUBSET before(n)
      BY <3>1
    <3>3. m \in before(n)
      BY <1>3
    <3>4. ~(m < m)
      OBVIOUS
    <3>. QED BY <3>2, <3>3, <3>4
  <2>2. IsFiniteSet(before(n))
    BY <1>2
  <2>3. Cardinality(before(n)) = Cardinality(before(m)) => before(n) = before(m)
    BY <2>1, <2>2, FS_Subset
  <2>4. Cardinality(before(n)) # Cardinality(before(m))
    BY <2>1, <2>3
  <2>. QED BY <2>4
<1>4. \A m, n \in frames : place[m] = place[n] => m = n
  <2> SUFFICES ASSUME NEW m \in frames, NEW n \in frames, m # n
               PROVE  place[m] # place[n]
    OBVIOUS
  <2>1. m < n \/ n < m
    OBVIOUS
  <2>. QED BY <1>3, <2>1
<1>5. place \in Injection(frames, 0..(k - 1))
  <2>1. \A n \in frames : Cardinality(before(n)) \in 0..(k - 1)
    BY <1>1, <1>2
  <2>2. place \in [frames -> 0..(k - 1)]
    BY <2>1
  <2>. QED BY <1>4, <2>2 DEF Injection, IsInjective
<1>6. IsFiniteSet(0..(k - 1)) /\ Cardinality(0..(k - 1)) = k
  <2>1. Cardinality(0..(k - 1)) = IF 0 > k - 1 THEN 0 ELSE (k - 1) - 0 + 1
    BY <1>1, FS_Interval
  <2>2. IsFiniteSet(0..(k - 1))
    BY <1>1, FS_Interval
  <2>. QED BY <1>1, <2>1, <2>2
<1>7. place \in Surjection(frames, 0..(k - 1))
  BY <1>5, <1>6, FS_Injection
<1>8. \A i \in 1..k : \E n \in frames : Cardinality(before(n)) = i - 1
  <2> SUFFICES ASSUME NEW i \in 1..k
               PROVE  \E n \in frames : Cardinality(before(n)) = i - 1
    OBVIOUS
  <2>1. i - 1 \in 0..(k - 1)
    BY <1>1
  <2>2. \E n \in frames : place[n] = i - 1
    BY <1>7, <2>1 DEF Surjection
  <2>. QED BY <2>2
<1>9. \A i \in 1..k : /\ FrameAt(frames, i) \in frames
                      /\ Cardinality(before(FrameAt(frames, i))) = i - 1
  BY <1>8 DEF FrameAt
<1>10. \A i, j \in 1..k : FrameAt(frames, i) = FrameAt(frames, j) => i = j
  <2> SUFFICES ASSUME NEW i \in 1..k, NEW j \in 1..k,
                      FrameAt(frames, i) = FrameAt(frames, j)
               PROVE  i = j
    OBVIOUS
  <2>1. i - 1 = j - 1
    BY <1>9
  <2>. QED BY <1>1, <2>1
<1>11. \A n \in frames : \E i \in 1..k : FrameAt(frames, i) = n
  <2> SUFFICES ASSUME NEW n \in frames
               PROVE  \E i \in 1..k : FrameAt(frames, i) = n
    OBVIOUS
  <2> DEFINE i == Cardinality(before(n)) + 1
  <2>1. i \in 1..k
    BY <1>1, <1>2
  <2>2. FrameAt(frames, i) \in frames
    BY <1>9, <2>1
  <2>3. Cardinality(before(FrameAt(frames, i))) = i - 1
    BY <1>9, <2>1
  <2>4. Cardinality(before(FrameAt(frames, i))) = Cardinality(before(n))
    BY <1>2, <2>3
  <2> HIDE DEF i
  <2>5. place[FrameAt(frames, i)] = place[n]
    BY <2>2, <2>4
  <2>. QED BY <1>4, <2>1, <2>2, <2>5
<1>. QED BY <1>1, <1>9, <1>10, <1>11

\* The rows of a set of frames, one for each and no other.
RowOf(partition, a, n) == [partition |-> partition, attempt |-> a, frame |-> n]

LEMMA RowsAreTheFrames ==
    ASSUME NEW frames, frames \subseteq Nat, IsFiniteSet(frames),
           NEW partition, NEW a
    PROVE  /\ Rows(partition, a, frames)
                \in Seq([partition : {partition}, attempt : {a}, frame : frames])
           /\ \A i \in 1..Len(Rows(partition, a, frames)) :
                \E n \in frames : Rows(partition, a, frames)[i] = RowOf(partition, a, n)
           /\ \A n \in frames : \E i \in 1..Len(Rows(partition, a, frames)) :
                Rows(partition, a, frames)[i] = RowOf(partition, a, n)
           /\ \A i, j \in 1..Len(Rows(partition, a, frames)) :
                Rows(partition, a, frames)[i].frame = Rows(partition, a, frames)[j].frame
                  => i = j
<1> DEFINE k == Cardinality(frames)
           rows == Rows(partition, a, frames)
<1>1. k \in Nat
  BY FrameAtEnumerates
<1>2. \A i \in 1..k : FrameAt(frames, i) \in frames
  BY FrameAtEnumerates
<1>3. \A i, j \in 1..k : FrameAt(frames, i) = FrameAt(frames, j) => i = j
  BY FrameAtEnumerates
<1>4. \A n \in frames : \E i \in 1..k : FrameAt(frames, i) = n
  BY FrameAtEnumerates
<1>5. rows = [i \in 1..k |-> RowOf(partition, a, FrameAt(frames, i))]
  BY DEF Rows, RowOf
<1> HIDE DEF k, rows
<1>6. rows \in Seq([partition : {partition}, attempt : {a}, frame : frames])
  <2>1. \A i \in 1..k : RowOf(partition, a, FrameAt(frames, i))
                          \in [partition : {partition}, attempt : {a}, frame : frames]
    BY <1>2 DEF RowOf
  <2>. QED BY <1>1, <1>5, <2>1
<1>7. Len(rows) = k
  BY <1>1, <1>5
<1>8. \A i \in 1..k : rows[i] = RowOf(partition, a, FrameAt(frames, i))
  BY <1>5
<1>9. \A i \in 1..k : rows[i].frame = FrameAt(frames, i)
  <2>1. \A n : RowOf(partition, a, n).frame = n
    BY DEF RowOf
  <2>. QED BY <1>8, <2>1
<1>10. \A i, j \in 1..k : rows[i].frame = rows[j].frame => i = j
  BY <1>3, <1>9
<1>11. \A i \in 1..k : \E n \in frames : rows[i] = RowOf(partition, a, n)
  BY <1>2, <1>8
<1>12. \A n \in frames : \E i \in 1..k : rows[i] = RowOf(partition, a, n)
  BY <1>4, <1>8
<1>. QED BY <1>6, <1>7, <1>10, <1>11, <1>12 DEF rows

\* Rows appended to the table: the rows that were there stay where they were,
\* and after them comes one row for each of the frames.
RowsFollow(s, q, partition, a, frames) ==
    /\ q \in Seq(Row)
    /\ Len(s) \in Nat /\ Len(q) \in Nat /\ Len(s) <= Len(q)
    /\ \A i \in 1..Len(s) : q[i] = s[i]
    /\ \A i \in 1..Len(q) : i \notin 1..Len(s) =>
         \E n \in frames : q[i] = RowOf(partition, a, n)
    /\ \A n \in frames : \E i \in 1..Len(q) : q[i] = RowOf(partition, a, n)
    /\ \A i, j \in 1..Len(q) :
         (i \notin 1..Len(s) /\ j \notin 1..Len(s) /\ q[i].frame = q[j].frame) => i = j

LEMMA RowsAppended ==
    ASSUME NEW s \in Seq(Row),
           NEW frames, frames \subseteq Nat, IsFiniteSet(frames),
           NEW partition, NEW a, NEW q,
           q = s \o Rows(partition, a, frames),
           \A n \in frames : RowOf(partition, a, n) \in Row
    PROVE  RowsFollow(s, q, partition, a, frames)
<1> DEFINE rows == Rows(partition, a, frames)
           T == [partition : {partition}, attempt : {a}, frame : frames]
<1>1. rows \in Seq(T)
  BY RowsAreTheFrames
<1>2. \A i \in 1..Len(rows) : \E n \in frames : rows[i] = RowOf(partition, a, n)
  BY RowsAreTheFrames
<1>3. \A n \in frames : \E i \in 1..Len(rows) : rows[i] = RowOf(partition, a, n)
  BY RowsAreTheFrames
<1>4. \A i, j \in 1..Len(rows) : rows[i].frame = rows[j].frame => i = j
  BY RowsAreTheFrames
<1>5. Len(rows) \in Nat /\ Len(s) \in Nat
  BY <1>1
<1>6. rows \in Seq(Row)
  <2>1. \A i \in 1..Len(rows) : rows[i] \in Row
    BY <1>2
  <2>. QED BY <1>1, <2>1
<1> HIDE DEF rows, T
<1>7. q = s \o rows
  BY DEF rows
<1>8. q \in Seq(Row) /\ Len(q) = Len(s) + Len(rows)
  BY <1>6, <1>7
<1>9. \A i \in 1..Len(s) : q[i] = s[i]
  BY <1>6, <1>7
<1>10. \A i \in 1..Len(q) : i \notin 1..Len(s) =>
          i - Len(s) \in 1..Len(rows) /\ q[i] = rows[i - Len(s)]
  BY <1>5, <1>6, <1>7, <1>8
<1>11. \A i \in 1..Len(rows) : i + Len(s) \in 1..Len(q) /\ q[i + Len(s)] = rows[i]
  BY <1>5, <1>6, <1>7, <1>8
<1>12. \A n \in frames : \E i \in 1..Len(q) : q[i] = RowOf(partition, a, n)
  <2> SUFFICES ASSUME NEW n \in frames
               PROVE  \E i \in 1..Len(q) : q[i] = RowOf(partition, a, n)
    OBVIOUS
  <2>1. PICK i \in 1..Len(rows) : rows[i] = RowOf(partition, a, n)
    BY <1>3
  <2>. QED BY <1>11, <2>1
<1>13. \A i, j \in 1..Len(q) :
          (i \notin 1..Len(s) /\ j \notin 1..Len(s) /\ q[i].frame = q[j].frame) => i = j
  <2> SUFFICES ASSUME NEW i \in 1..Len(q), NEW j \in 1..Len(q), i \notin 1..Len(s),
                      j \notin 1..Len(s), q[i].frame = q[j].frame
               PROVE  i = j
    OBVIOUS
  <2>1. i - Len(s) = j - Len(s)
    BY <1>4, <1>10
  <2>. QED BY <1>5, <2>1
<1>14. \A i \in 1..Len(q) : i \notin 1..Len(s) =>
          \E n \in frames : q[i] = RowOf(partition, a, n)
  BY <1>2, <1>10
<1>15. Len(q) \in Nat /\ Len(s) <= Len(q)
  BY <1>5, <1>8
<1>. QED BY <1>5, <1>8, <1>9, <1>12, <1>13, <1>14, <1>15 DEF RowsFollow

\* A page starts where the reading stands and ends a page further on, or with
\* the payload.
PageEndsAt(a, cursor, last) ==
    /\ ReadCandidate(a, cursor - 1) = cursor..last
    /\ Last(ReadCandidate(a, cursor - 1)) = last
    /\ MoreCandidates(a, cursor - 1) => last + 1 < Len(candidates[a])
    /\ ~MoreCandidates(a, cursor - 1) => last + 1 = Len(candidates[a])

LEMMA PageOfCandidates ==
    ASSUME NEW a, Len(candidates[a]) \in Nat,
           NEW cursor \in Nat, cursor < Len(candidates[a])
    PROVE  \E last \in cursor..(Len(candidates[a]) - 1) : PageEndsAt(a, cursor, last)
<1> DEFINE page == ReadCandidate(a, cursor - 1)
           length == Len(candidates[a])
           last == IF cursor - 1 + FramePage <= length - 1
                   THEN cursor - 1 + FramePage ELSE length - 1
<1>0. FramePage \in Nat /\ FramePage > 0
  BY TablesAssumption
<1>1. last \in Nat /\ cursor <= last /\ last < length
  BY <1>0
<1>2. page = cursor..last
  BY <1>0 DEF ReadCandidate
<1>3. MoreCandidates(a, cursor - 1) <=> cursor - 1 + FramePage < length - 1
  BY DEF MoreCandidates
<1>4. (MoreCandidates(a, cursor - 1) => last + 1 < length)
      /\ (~MoreCandidates(a, cursor - 1) => last + 1 = length)
  BY <1>0, <1>3
<1> HIDE DEF last, page
<1>5. Last(page) = last
  <2>1. last \in page /\ \A m \in page : m <= last
    BY <1>1, <1>2
  <2>2. \A n \in page : (\A m \in page : m <= n) => n = last
    BY <1>1, <1>2
  <2>. QED BY <2>1, <2>2 DEF Last
<1>6. PageEndsAt(a, cursor, last)
  BY <1>2, <1>4, <1>5 DEF PageEndsAt, page
<1>7. last \in cursor..(length - 1)
  BY <1>1
<1>. QED BY <1>6, <1>7

\* What is read of a preparation that has all the bytes is the payload.
LEMMA FramesAreThePayload ==
    ASSUME NEW a \in Attempts, Decodes(a), preparations[a].raw = Bytes(a)
    PROVE  Payload[a] \in Seq(Frame) /\ Frames(a) = Payload[a]
<1>1. Payload[a] \in Seq(Frame)
  BY TablesAssumption DEF Decodes
<1>2. preparations[a].raw = Len(Payload[a])
  BY DEF Decodes, Bytes
<1>3. SubSeq(Payload[a], 1, Len(Payload[a])) = Payload[a]
  BY <1>1
<1>. QED BY <1>1, <1>2, <1>3 DEF Frames

-----------------------------------------------------------------------------
(* What a step changes *)

\* The steps that write the landing tables.
LEMMA StepsOfTheTables ==
    ASSUME [Next]_vars
    PROVE  \/ UNCHANGED tableVars
           \/ OpenPreparation \/ ReadRaw \/ Prepared \/ OpenMaterialization
           \/ DispositionsOfPage \/ Materialized \/ ReleaseRows
BY DEF vars, Next, Submit, EmitLifecycle, Landing, Prepare, PrepareFails, Materialize,
       Validate, BeginEvaluate, Evaluate, Commit, Committed, Reject, EmitEvidence,
       ReleaseQuarantine, Releasing, ReleaseRowsRefused, BumpAttempt,
       CheckpointRelease, SilentTransition, Tick, Crash, Transition, Goto

\* The steps that write the remediation repository.
LEMMA StepsOfTheRepository ==
    ASSUME [Next]_vars
    PROVE  UNCHANGED decisions \/ Evaluate \/ \E d \in Known : ReleaseQuarantine(d)
BY DEF vars, Next, Submit, EmitLifecycle, Landing, Prepare, OpenPreparation, ReadRaw,
       Prepared, PrepareFails, Materialize, OpenMaterialization, DispositionsOfPage,
       Materialized, Validate, BeginEvaluate, Commit, Committed, Reject, EmitEvidence,
       Releasing, ReleaseRows, ReleaseRowsRefused, BumpAttempt, CheckpointRelease,
       SilentTransition, Tick, Crash, Transition, Goto, repositoryVars

\* The steps that write the log.
LEMMA StepsOfTheLog ==
    ASSUME [Next]_vars
    PROVE  UNCHANGED events \/ EmitLifecycle
BY DEF vars, Next, Submit, Landing, Prepare, OpenPreparation, ReadRaw, Prepared,
       PrepareFails, Materialize, OpenMaterialization, DispositionsOfPage,
       Materialized, Validate, BeginEvaluate, Evaluate, Commit, Committed, Reject,
       EmitEvidence, ReleaseQuarantine, Releasing, ReleaseRows, ReleaseRowsRefused,
       BumpAttempt, CheckpointRelease, SilentTransition, Tick, Crash, Transition, Goto

\* The repository forgets no decision.
LEMMA DecisionsStay ==
    ASSUME [Next]_vars
    PROVE  decisions \subseteq decisions'
BY StepsOfTheRepository DEF Evaluate, ReleaseQuarantine, RecordDecision

-----------------------------------------------------------------------------
(* The landing tables *)

\* A preparation is opened or read into: nothing else of the tables changes, and
\* it has the bytes up to where the process stands.
LEMMA PreparationSteps ==
    ASSUME TableTypes, ProcessTypes, ProcessFollowsTables, OpenPreparation \/ ReadRaw
    PROVE  /\ TableTypes' /\ UNCHANGED <<candidates, sessions, dispositions, accepted>>
           /\ DOMAIN preparations' = DOMAIN preparations \cup {work.attempt}
           /\ work'.cursor \in Nat
           /\ preparations'[work.attempt].raw = work'.cursor
           /\ work'.cursor <= Bytes(work.attempt)
           /\ pc' = "finish_prepare" => work'.cursor = Bytes(work.attempt)
<1>0. work.attempt \in Attempts
  BY DEF OpenPreparation, ReadRaw, ProcessTypes
<1>1. Bytes(work.attempt) \in Nat
  BY <1>0, TablesAssumption DEF Bytes
<1>2. CASE OpenPreparation
  <2>1. work.attempt \notin DOMAIN preparations
    BY <1>2 DEF OpenPreparation, ProcessFollowsTables, Call
  <2>2. /\ preparations' = With(preparations, work.attempt,
                                [raw |-> 0, next_offset |-> 0, closed |-> FALSE])
        /\ UNCHANGED <<candidates, sessions, dispositions, accepted>>
    BY <1>2, <2>1 DEF OpenPreparation, BeginPrepare
  <2>3. /\ DOMAIN preparations' = DOMAIN preparations \cup {work.attempt}
        /\ preparations' \in [DOMAIN preparations' ->
                                [raw : Nat, next_offset : Nat, closed : BOOLEAN]]
        /\ preparations'[work.attempt].raw = 0
    BY <2>2 DEF With, TableTypes
  <2>4. work'.cursor = 0 /\ pc' = "append_raw"
    BY <1>2 DEF OpenPreparation, ProcessTypes, Goto
  <2>. QED BY <1>0, <1>1, <2>2, <2>3, <2>4 DEF TableTypes
<1>3. CASE ReadRaw
  <2> DEFINE length == Min2(ReadChunk, Bytes(work.attempt) - work.cursor)
             eof == work.cursor + length >= Bytes(work.attempt)
  <2>0. /\ work.attempt \in DOMAIN preparations
        /\ work.cursor \in Nat /\ work.cursor <= Bytes(work.attempt)
        /\ preparations[work.attempt].raw = work.cursor
    BY <1>3 DEF ReadRaw, ProcessTypes, ProcessFollowsTables, Call
  <2>1. length \in Nat /\ work.cursor + length <= Bytes(work.attempt)
    BY <1>1, <2>0, QuarantineParameters DEF Min2
  <2>2. /\ preparations' = [preparations EXCEPT ![work.attempt] =
             [raw |-> @.raw + length, next_offset |-> work.cursor + length,
              closed |-> eof]]
        /\ UNCHANGED <<candidates, sessions, dispositions, accepted>>
    BY <1>3 DEF ReadRaw, AppendRaw
  <2>3. work'.cursor = work.cursor + length
    BY <1>3 DEF ReadRaw, ProcessTypes
  <2>4. pc' = "finish_prepare" => work.cursor + length >= Bytes(work.attempt)
    BY <1>3 DEF ReadRaw, Goto
  <2>5. eof \in BOOLEAN
    OBVIOUS
  <2> HIDE DEF length, eof
  <2>6. /\ DOMAIN preparations' = DOMAIN preparations
        /\ preparations'[work.attempt].raw = work.cursor + length
        /\ preparations' \in [DOMAIN preparations ->
                                [raw : Nat, next_offset : Nat, closed : BOOLEAN]]
    BY <2>0, <2>1, <2>2, <2>5 DEF TableTypes
  <2>7. TableTypes'
    BY <2>2, <2>6 DEF TableTypes
  <2>8. pc' = "finish_prepare" => work'.cursor = Bytes(work.attempt)
    BY <1>1, <2>0, <2>1, <2>3, <2>4
  <2>. QED BY <2>0, <2>1, <2>2, <2>3, <2>6, <2>7, <2>8
<1>. QED BY <1>2, <1>3

\* The candidates of the whole payload are stored.
LEMMA PreparedStores ==
    ASSUME TableTypes, ProcessTypes, SessionsFollowPayload, ProcessFollowsTables, Prepared
    PROVE  /\ TableTypes' /\ SessionsFollowPayload'
           /\ UNCHANGED <<preparations, sessions, dispositions, accepted>>
           /\ DOMAIN candidates' = DOMAIN candidates \cup {work.attempt}
<1>1. /\ work.attempt \in Attempts /\ work.attempt \notin DOMAIN candidates
      /\ preparations[work.attempt].raw = Bytes(work.attempt)
  BY DEF Prepared, ProcessTypes, ProcessFollowsTables, Call
<1>2. /\ Decodes(work.attempt)
      /\ candidates' = With(candidates, work.attempt, Frames(work.attempt))
      /\ UNCHANGED <<preparations, sessions, dispositions, accepted>>
  BY <1>1 DEF Prepared, FinishPrepare
<1>3. Payload[work.attempt] \in Seq(Frame) /\ Frames(work.attempt) = Payload[work.attempt]
  BY <1>1, <1>2, FramesAreThePayload
<1>4. /\ DOMAIN candidates' = DOMAIN candidates \cup {work.attempt}
      /\ candidates'[work.attempt] = Payload[work.attempt]
      /\ \A a \in DOMAIN candidates : candidates'[a] = candidates[a]
      /\ candidates' = [a \in DOMAIN candidates' |-> candidates'[a]]
  BY <1>1, <1>2, <1>3 DEF With
<1>5. TableTypes'
  BY <1>1, <1>2, <1>3, <1>4 DEF TableTypes
<1>6. SessionsFollowPayload'
  BY <1>2, <1>4 DEF SessionsFollowPayload, Decodes
<1>. QED BY <1>2, <1>4, <1>5, <1>6

\* A session is opened on the candidates, before the first of their frames.
LEMMA SessionOpens ==
    ASSUME TableTypes, ProcessTypes, SessionsFollowPayload, ProcessFollowsTables,
           OpenMaterialization
    PROVE  /\ TableTypes' /\ SessionsFollowPayload'
           /\ UNCHANGED <<preparations, candidates, accepted>>
           /\ work.attempt \notin DOMAIN sessions
           /\ DOMAIN sessions' = DOMAIN sessions \cup {work.attempt}
           /\ sessions'[work.attempt] = [next_frame_sequence |-> 0, closed |-> FALSE]
           /\ \A a \in DOMAIN sessions : /\ sessions'[a] = sessions[a]
                                         /\ dispositions'[a] = dispositions[a]
<1>1. /\ work.attempt \in Attempts /\ work.attempt \notin DOMAIN sessions
      /\ work.attempt \in DOMAIN candidates
  BY DEF OpenMaterialization, ProcessTypes, ProcessFollowsTables, Call
<1>2. DOMAIN dispositions = DOMAIN sessions
  BY DEF SessionsFollowPayload
<1>3. /\ sessions' = With(sessions, work.attempt,
                          [next_frame_sequence |-> 0, closed |-> FALSE])
      /\ dispositions' = With(dispositions, work.attempt, Nothing)
      /\ UNCHANGED <<preparations, candidates, accepted>>
  BY <1>1, <1>2 DEF OpenMaterialization, BeginMaterialization
<1>4. /\ DOMAIN sessions' = DOMAIN sessions \cup {work.attempt}
      /\ sessions'[work.attempt] = [next_frame_sequence |-> 0, closed |-> FALSE]
      /\ \A a \in DOMAIN sessions : sessions'[a] = sessions[a]
      /\ sessions' = [a \in DOMAIN sessions' |-> sessions'[a]]
  BY <1>1, <1>3 DEF With
<1>5. /\ DOMAIN dispositions' = DOMAIN sessions \cup {work.attempt}
      /\ dispositions'[work.attempt] = Nothing
      /\ \A a \in DOMAIN sessions : dispositions'[a] = dispositions[a]
      /\ dispositions' = [a \in DOMAIN dispositions' |-> dispositions'[a]]
  BY <1>1, <1>2, <1>3 DEF With
<1>6. TableTypes'
  <2>1. \A a \in DOMAIN sessions' :
          sessions'[a] \in [next_frame_sequence : Nat, closed : BOOLEAN]
    <3>1. \A a \in DOMAIN sessions :
            sessions[a] \in [next_frame_sequence : Nat, closed : BOOLEAN]
      BY DEF TableTypes
    <3>2. sessions'[work.attempt] \in [next_frame_sequence : Nat, closed : BOOLEAN]
      BY <1>4
    <3>. QED BY <1>4, <3>1, <3>2
  <2>. QED BY <1>1, <1>3, <1>4, <2>1 DEF TableTypes
<1>7. Nothing = [n \in 0..(0 - 1) |-> StatusOf(Payload[work.attempt][n + 1])]
  BY DEF Nothing
<1>8. Len(Payload[work.attempt]) \in Nat
  BY <1>1, TablesAssumption DEF SessionsFollowPayload, Decodes
<1>9. dispositions' = [a \in DOMAIN sessions' |->
         [n \in 0..(sessions'[a].next_frame_sequence - 1) |-> StatusOf(Payload[a][n + 1])]]
  <2>1. \A a \in DOMAIN sessions' : dispositions'[a] =
          [n \in 0..(sessions'[a].next_frame_sequence - 1) |-> StatusOf(Payload[a][n + 1])]
    <3>1. dispositions'[work.attempt] =
            [n \in 0..(sessions'[work.attempt].next_frame_sequence - 1)
               |-> StatusOf(Payload[work.attempt][n + 1])]
      BY <1>4, <1>5, <1>7
    <3>2. \A a \in DOMAIN sessions : dispositions[a] =
            [n \in 0..(sessions[a].next_frame_sequence - 1) |-> StatusOf(Payload[a][n + 1])]
      BY DEF SessionsFollowPayload
    <3>3. \A a \in DOMAIN sessions : dispositions'[a] =
            [n \in 0..(sessions'[a].next_frame_sequence - 1) |-> StatusOf(Payload[a][n + 1])]
      BY <1>4, <1>5, <3>2
    <3>. QED BY <1>4, <3>1, <3>3
  <2>. QED BY <1>4, <1>5, <2>1
<1>10. SessionsFollowPayload'
  <2>1. \A a \in DOMAIN sessions' :
          /\ sessions'[a].next_frame_sequence <= Len(Payload[a])
          /\ sessions'[a].closed => sessions'[a].next_frame_sequence = Len(Payload[a])
    BY <1>4, <1>8 DEF SessionsFollowPayload
  <2>2. DOMAIN sessions' \subseteq DOMAIN candidates'
    BY <1>1, <1>3, <1>4 DEF SessionsFollowPayload
  <2>3. \A a \in DOMAIN candidates' : Decodes(a) /\ candidates'[a] = Payload[a]
    BY <1>3 DEF SessionsFollowPayload
  <2>. QED BY <1>9, <2>1, <2>2, <2>3 DEF SessionsFollowPayload, Decodes
<1>. QED BY <1>1, <1>3, <1>4, <1>5, <1>6, <1>10

\* A page of dispositions is appended where the session stands; what is left
\* to read after it is what the session has still to go through.
LEMMA PageIsDisposed ==
    ASSUME TableTypes, ProcessTypes, SessionsFollowPayload, ProcessFollowsTables,
           DispositionsOfPage
    PROVE  /\ TableTypes' /\ SessionsFollowPayload'
           /\ UNCHANGED <<preparations, candidates, accepted>>
           /\ work.attempt \in DOMAIN sessions /\ ~sessions[work.attempt].closed
           /\ DOMAIN sessions' = DOMAIN sessions
           /\ ~sessions'[work.attempt].closed
           /\ \A a \in DOMAIN sessions \ {work.attempt} :
                sessions'[a] = sessions[a] /\ dispositions'[a] = dispositions[a]
           /\ sessions'[work.attempt].next_frame_sequence = work'.cursor
           /\ pc' = "dispositions" =>
                work'.cursor < Len(Payload[work.attempt]) \/ Len(Payload[work.attempt]) = 0
           /\ pc' = "finish_materialization" => work'.cursor = Len(Payload[work.attempt])
<1> DEFINE a == work.attempt
           length == Len(Payload[a])
           page == ReadCandidate(a, work.cursor - 1)
<1>1. /\ a \in DOMAIN sessions /\ a \in Attempts
      /\ sessions[a].next_frame_sequence = work.cursor /\ ~sessions[a].closed
      /\ work.cursor \in Nat /\ (work.cursor < length \/ length = 0)
  BY DEF DispositionsOfPage, ProcessTypes, ProcessFollowsTables, Call, Closed
<1>2. candidates[a] = Payload[a] /\ Payload[a] \in Seq(Frame)
  BY <1>1, TablesAssumption DEF SessionsFollowPayload, Decodes
<1>3. length \in Nat /\ work.cursor <= length
  BY <1>1, <1>2 DEF SessionsFollowPayload
<1>4. work' = [work EXCEPT !.cursor = IF page = {} THEN @ ELSE Last(page) + 1]
      /\ pc' = (IF MoreCandidates(a, work.cursor - 1) THEN "dispositions"
                ELSE "finish_materialization")
  BY DEF DispositionsOfPage, Goto
<1>5. DOMAIN dispositions = DOMAIN sessions
      /\ dispositions[a] = [n \in 0..(work.cursor - 1) |-> StatusOf(Payload[a][n + 1])]
  BY <1>1 DEF SessionsFollowPayload
<1>6. CASE length = 0
  <2>1. FramePage \in Nat /\ FramePage > 0
    BY TablesAssumption
  <2>2. page = {} /\ work.cursor = 0
    BY <1>1, <1>2, <1>3, <1>6 DEF ReadCandidate
  <2>3. ~MoreCandidates(a, work.cursor - 1)
    BY <1>2, <1>6, <2>1, <2>2 DEF MoreCandidates
  <2>4. UNCHANGED tableVars
    BY <2>2 DEF DispositionsOfPage
  <2>5. work'.cursor = work.cursor
    BY <1>4, <2>2 DEF ProcessTypes
  <2>6. TableTypes' /\ SessionsFollowPayload'
    BY <2>4 DEF tableVars, TableTypes, SessionsFollowPayload, Decodes
  <2>. QED BY <1>1, <1>4, <1>6, <2>2, <2>3, <2>4, <2>5, <2>6 DEF tableVars
<1>7. CASE length # 0
  <2>0. PICK cursor \in Nat : cursor = work.cursor
    BY <1>1
  <2>1. PICK last \in cursor..(Len(candidates[a]) - 1) : PageEndsAt(a, cursor, last)
    <3>1. Len(candidates[a]) \in Nat
      BY <1>2, <1>3
    <3>2. cursor < Len(candidates[a])
      BY <1>1, <1>2, <1>7, <2>0
    <3>. QED BY <3>1, <3>2, PageOfCandidates
  <2>2. /\ last \in Nat /\ work.cursor <= last /\ last < length
        /\ page = work.cursor..last
        /\ Last(page) = last
        /\ MoreCandidates(a, work.cursor - 1) => last + 1 < length
        /\ ~MoreCandidates(a, work.cursor - 1) => last + 1 = length
    BY <1>2, <1>3, <2>0, <2>1 DEF PageEndsAt
  <2>3. page # {}
    BY <1>1, <2>2
  <2>4. /\ dispositions' = [dispositions EXCEPT ![a] =
             [n \in DOMAIN @ \cup page |->
                IF n \in DOMAIN @ THEN @[n] ELSE StatusOf(candidates[a][n + 1])]]
        /\ sessions' = [sessions EXCEPT ![a].next_frame_sequence = Last(page) + 1]
        /\ UNCHANGED <<preparations, candidates, accepted>>
    BY <2>3 DEF DispositionsOfPage, AppendDispositions
  <2> HIDE DEF page, length, a
  <2>5. /\ DOMAIN sessions' = DOMAIN sessions
        /\ sessions'[a] = [next_frame_sequence |-> last + 1, closed |-> FALSE]
        /\ \A b \in DOMAIN sessions \ {a} : sessions'[b] = sessions[b]
        /\ sessions' = [b \in DOMAIN sessions |-> sessions'[b]]
    BY <1>1, <2>2, <2>4 DEF TableTypes
  <2>6. /\ DOMAIN dispositions' = DOMAIN sessions
        /\ dispositions'[a] = [n \in DOMAIN dispositions[a] \cup page |->
             IF n \in DOMAIN dispositions[a] THEN dispositions[a][n]
             ELSE StatusOf(candidates[a][n + 1])]
        /\ \A b \in DOMAIN sessions \ {a} : dispositions'[b] = dispositions[b]
        /\ dispositions' = [b \in DOMAIN sessions |-> dispositions'[b]]
    BY <1>1, <1>5, <2>4
  <2>7. dispositions'[a] = [n \in 0..(last + 1 - 1) |-> StatusOf(Payload[a][n + 1])]
    <3>1. (0..(work.cursor - 1)) \cup (work.cursor..last) = 0..(last + 1 - 1)
      BY <1>1, <2>2
    <3>2. DOMAIN dispositions[a] = 0..(work.cursor - 1)
      BY <1>5
    <3>3. \A n \in 0..(work.cursor - 1) : dispositions[a][n] = StatusOf(Payload[a][n + 1])
      BY <1>5
    <3>. QED BY <1>2, <2>2, <2>6, <3>1, <3>2, <3>3
  <2>8. TableTypes'
    BY <1>1, <2>2, <2>4, <2>5 DEF TableTypes
  <2>9. dispositions' = [b \in DOMAIN sessions' |->
          [n \in 0..(sessions'[b].next_frame_sequence - 1) |-> StatusOf(Payload[b][n + 1])]]
    <3>1. \A b \in DOMAIN sessions \ {a} : dispositions'[b] =
            [n \in 0..(sessions'[b].next_frame_sequence - 1) |-> StatusOf(Payload[b][n + 1])]
      BY <2>5, <2>6 DEF SessionsFollowPayload
    <3>2. dispositions'[a] =
            [n \in 0..(sessions'[a].next_frame_sequence - 1) |-> StatusOf(Payload[a][n + 1])]
      <4>1. sessions'[a].next_frame_sequence = last + 1
        BY <2>5
      <4>2. 0..(sessions'[a].next_frame_sequence - 1) = 0..(last + 1 - 1)
        BY <2>2, <4>1
      <4>. QED BY <2>7, <4>2
    <3>. QED BY <2>5, <2>6, <3>1, <3>2
  <2>10. \A b \in DOMAIN sessions' :
           /\ sessions'[b].next_frame_sequence <= Len(Payload[b])
           /\ sessions'[b].closed => sessions'[b].next_frame_sequence = Len(Payload[b])
    <3>1. last + 1 <= Len(Payload[a])
      BY <1>3, <2>2 DEF length
    <3>. QED BY <2>5, <3>1 DEF SessionsFollowPayload
  <2>11. SessionsFollowPayload'
    BY <2>4, <2>5, <2>9, <2>10 DEF SessionsFollowPayload, Decodes
  <2>12. work'.cursor = last + 1
    BY <1>4, <2>2, <2>3 DEF ProcessTypes
  <2>. QED BY <1>1, <1>4, <2>2, <2>4, <2>5, <2>6, <2>8, <2>11, <2>12 DEF a, length
<1>. QED BY <1>6, <1>7

\* The frames of an attempt whose disposition is to be accepted.
AcceptedFrames(a) == {n \in DOMAIN dispositions[a] : dispositions[a][n] = "accepted"}

\* A session closes once it went through the payload, and its delivery's
\* partition has a row for each accepted frame: no frame without typed fields
\* is accepted.
LEMMA SessionCloses ==
    ASSUME TableTypes, ProcessTypes, SessionsFollowPayload, ProcessFollowsTables,
           Materialized
    PROVE  /\ TableTypes' /\ SessionsFollowPayload'
           /\ UNCHANGED <<preparations, candidates, dispositions>>
           /\ work.attempt \in DOMAIN sessions /\ ~sessions[work.attempt].closed
           /\ DOMAIN sessions' = DOMAIN sessions
           /\ sessions'[work.attempt].closed
           /\ \A a \in DOMAIN sessions \ {work.attempt} : sessions'[a] = sessions[a]
           /\ AcceptedFrames(work.attempt) \subseteq Nat
           /\ IsFiniteSet(AcceptedFrames(work.attempt))
           /\ accepted' = accepted \o Rows(<<"delivery", work.attempt>>, work.attempt,
                                           AcceptedFrames(work.attempt))
<1> DEFINE a == work.attempt
<1>1. /\ a \in DOMAIN sessions /\ a \in Attempts /\ ~sessions[a].closed
      /\ sessions[a].next_frame_sequence = Len(Payload[a])
  BY DEF Materialized, ProcessTypes, ProcessFollowsTables, Call, Closed
<1>2. candidates[a] = Payload[a] /\ Payload[a] \in Seq(Frame)
  BY <1>1, TablesAssumption DEF SessionsFollowPayload, Decodes
<1>3. dispositions[a] = [n \in 0..(Len(Payload[a]) - 1) |-> StatusOf(Payload[a][n + 1])]
  BY <1>1 DEF SessionsFollowPayload
<1>4. Len(Payload[a]) \in Nat
  BY <1>2
<1>5. {n \in DOMAIN dispositions[a] : dispositions[a][n] = "accepted"
                                       /\ candidates[a][n + 1] # "broken"}
        = AcceptedFrames(a)
  <2>1. \A n \in DOMAIN dispositions[a] : dispositions[a][n] = "accepted" =>
          candidates[a][n + 1] # "broken"
    BY <1>2, <1>3 DEF StatusOf
  <2>. QED BY <2>1 DEF AcceptedFrames
<1>6. /\ accepted' = accepted \o Rows(<<"delivery", a>>, a, AcceptedFrames(a))
      /\ sessions' = [sessions EXCEPT ![a].closed = TRUE]
      /\ UNCHANGED <<preparations, candidates, dispositions>>
  BY <1>5 DEF Materialized, FinishMaterialization
<1>7. AcceptedFrames(a) \subseteq Nat /\ IsFiniteSet(AcceptedFrames(a))
  <2>1. AcceptedFrames(a) \in SUBSET (0..(Len(Payload[a]) - 1))
    BY <1>3 DEF AcceptedFrames
  <2>2. IsFiniteSet(0..(Len(Payload[a]) - 1))
    BY <1>4, FS_Interval
  <2>3. IsFiniteSet(AcceptedFrames(a))
    BY <2>1, <2>2, FS_Subset
  <2>. QED BY <1>4, <2>1, <2>3
<1> HIDE DEF a
<1>8. /\ DOMAIN sessions' = DOMAIN sessions
      /\ sessions'[a].closed
      /\ sessions'[a].next_frame_sequence = sessions[a].next_frame_sequence
      /\ sessions'[a] \in [next_frame_sequence : Nat, closed : BOOLEAN]
      /\ \A b \in DOMAIN sessions \ {a} : sessions'[b] = sessions[b]
      /\ sessions' = [b \in DOMAIN sessions |-> sessions'[b]]
  BY <1>1, <1>6 DEF TableTypes
<1>9. accepted' \in Seq(Row)
  <2>1. \A n \in AcceptedFrames(a) : RowOf(<<"delivery", a>>, a, n) \in Row
    BY <1>1, <1>7 DEF RowOf, Row
  <2>2. accepted \in Seq(Row)
    BY DEF TableTypes
  <2> DEFINE partition == <<"delivery", a>>
             frames == AcceptedFrames(a)
  <2>3. /\ accepted' = accepted \o Rows(partition, a, frames)
        /\ \A n \in frames : RowOf(partition, a, n) \in Row
        /\ frames \subseteq Nat /\ IsFiniteSet(frames)
    BY <1>6, <1>7, <2>1
  <2> HIDE DEF partition, frames
  <2>. QED BY <2>2, <2>3, RowsAppended DEF RowsFollow
<1>10. TableTypes'
  BY <1>1, <1>6, <1>8, <1>9 DEF TableTypes
<1>11. SessionsFollowPayload'
  <2>1. \A b \in DOMAIN sessions :
          sessions'[b].next_frame_sequence = sessions[b].next_frame_sequence
    BY <1>8
  <2>2. dispositions' = [b \in DOMAIN sessions' |->
          [n \in 0..(sessions'[b].next_frame_sequence - 1) |-> StatusOf(Payload[b][n + 1])]]
    BY <1>6, <1>8, <2>1 DEF SessionsFollowPayload
  <2>3. \A b \in DOMAIN sessions' :
          /\ sessions'[b].next_frame_sequence <= Len(Payload[b])
          /\ sessions'[b].closed => sessions'[b].next_frame_sequence = Len(Payload[b])
    BY <1>1, <1>8, <2>1 DEF SessionsFollowPayload
  <2>. QED BY <1>6, <1>8, <2>2, <2>3 DEF SessionsFollowPayload, Decodes
<1>. QED BY <1>1, <1>6, <1>7, <1>8, <1>10, <1>11 DEF a

\* No two of the rows are the same frame of the same attempt.
Once(rows) ==
    \A i, j \in 1..Len(rows) :
      (/\ rows[i].attempt = rows[j].attempt
       /\ rows[i].frame = rows[j].frame) => i = j

\* Rows of frames that have none yet keep every row the only one of its frame.
NoRowOf(rows, a, frames) ==
    \A i \in 1..Len(rows) : rows[i].attempt = a => rows[i].frame \notin frames

LEMMA OnceKept ==
    ASSUME NEW s, NEW q, NEW partition, NEW a, NEW frames,
           RowsFollow(s, q, partition, a, frames), Once(s), NoRowOf(s, a, frames)
    PROVE  Once(q)
<1>1. /\ Len(s) \in Nat /\ Len(q) \in Nat /\ Len(s) <= Len(q)
      /\ \A i \in 1..Len(s) : q[i] = s[i]
  BY DEF RowsFollow
<1>2. \A i \in 1..Len(q) : i \notin 1..Len(s) =>
        \E n \in frames : q[i] = RowOf(partition, a, n)
  BY DEF RowsFollow
<1>3. \A i, j \in 1..Len(q) :
        (i \notin 1..Len(s) /\ j \notin 1..Len(s) /\ q[i].frame = q[j].frame) => i = j
  BY DEF RowsFollow
<1>4. \A i \in 1..Len(q) : i \notin 1..Len(s) =>
        q[i].attempt = a /\ q[i].frame \in frames
  <2>1. \A n : RowOf(partition, a, n).attempt = a /\ RowOf(partition, a, n).frame = n
    BY DEF RowOf
  <2>. QED BY <1>2, <2>1
<1> SUFFICES ASSUME NEW i \in 1..Len(q), NEW j \in 1..Len(q),
                    q[i].attempt = q[j].attempt, q[i].frame = q[j].frame
             PROVE  i = j
  BY DEF Once
<1>5. CASE i \in 1..Len(s) /\ j \in 1..Len(s)
  BY <1>1, <1>5 DEF Once
<1>6. CASE i \in 1..Len(s) /\ j \notin 1..Len(s)
  BY <1>1, <1>4, <1>6 DEF NoRowOf
<1>7. CASE i \notin 1..Len(s) /\ j \in 1..Len(s)
  BY <1>1, <1>4, <1>7 DEF NoRowOf
<1>8. CASE i \notin 1..Len(s) /\ j \notin 1..Len(s)
  BY <1>3, <1>8
<1>. QED BY <1>5, <1>6, <1>7, <1>8

\* A release writes the row of a rejected frame of a closed session, unless its
\* partition is there.
ReleaseOf(a, n) ==
    /\ Evaluable(<<a, n>>)
    /\ work.decision.evaluation = <<a, n>>
    /\ <<"release", <<a, n>>>> \in Partitions => accepted' = accepted
    /\ <<"release", <<a, n>>>> \notin Partitions =>
         accepted' = accepted \o Rows(<<"release", <<a, n>>>>, a, {n})

LEMMA ReleaseWrites ==
    ASSUME ProcessTypes, DecisionsAreAboutRejected, ReleaseFollowsDecision, ReleaseRows
    PROVE  /\ UNCHANGED <<preparations, candidates, sessions, dispositions>>
           /\ \E a \in Attempts, n \in Nat : ReleaseOf(a, n)
<1> DEFINE d == work.decision
<1>1. /\ d.kind = "released" /\ Recorded(d)
      /\ d.locators = {d.evaluation} /\ work.attempt = d.evaluation[1]
  BY DEF ReleaseRows, ReleaseFollowsDecision, Call
<1>2. d \in Decision
  BY DEF ReleaseRows, ReleaseFollowsDecision, Call
<1>3. PICK a \in Attempts, n \in Nat : d.evaluation = <<a, n>>
  BY <1>2 DEF Decision, Dispositions
<1>4. Evaluable(<<a, n>>)
  BY <1>1, <1>3 DEF Recorded, DecisionsAreAboutRejected
<1>5. work.attempt = a /\ {l[2] : l \in d.locators} = {n}
  BY <1>1, <1>3
<1>6. /\ accepted' = IF <<"release", <<a, n>>>> \in Partitions THEN accepted
                     ELSE accepted \o Rows(<<"release", <<a, n>>>>, a, {n})
      /\ UNCHANGED <<preparations, candidates, sessions, dispositions>>
  BY <1>3, <1>5 DEF ReleaseRows, MaterializeRelease
<1>7. ReleaseOf(a, n)
  BY <1>3, <1>4, <1>6 DEF ReleaseOf
<1>. QED BY <1>6, <1>7

\* A closed session stays as it is.
ClosedStays ==
    /\ DOMAIN sessions \subseteq DOMAIN sessions'
    /\ \A a \in DOMAIN sessions : sessions[a].closed =>
         sessions'[a].closed /\ dispositions'[a] = dispositions[a]

\* A step keeps the source of every row.
LEMMA SourcesStay ==
    ASSUME ClosedStays, NEW row, HasSource(row)
    PROVE  HasSource(row)'
BY DEF ClosedStays, HasSource

\* The tables keep their types and follow the payloads, and what is closed
\* stays closed.
LEMMA TablesStep ==
    ASSUME TableTypes, ProcessTypes, SessionsFollowPayload, ProcessFollowsTables,
           DecisionsAreAboutRejected, ReleaseFollowsDecision, [Next]_vars
    PROVE  TableTypes' /\ SessionsFollowPayload' /\ ClosedStays
<1>1. CASE UNCHANGED tableVars
  BY <1>1 DEF tableVars, TableTypes, SessionsFollowPayload, Decodes, ClosedStays
<1>2. CASE OpenPreparation \/ ReadRaw
  <2>1. TableTypes' /\ UNCHANGED <<candidates, sessions, dispositions, accepted>>
    BY <1>2, PreparationSteps
  <2>. QED BY <2>1 DEF SessionsFollowPayload, Decodes, ClosedStays
<1>3. CASE Prepared
  <2>1. TableTypes' /\ SessionsFollowPayload' /\ UNCHANGED <<sessions, dispositions>>
    BY <1>3, PreparedStores
  <2>. QED BY <2>1 DEF ClosedStays
<1>4. CASE OpenMaterialization
  BY <1>4, SessionOpens DEF ClosedStays
<1>5. CASE DispositionsOfPage
  BY <1>5, PageIsDisposed DEF ClosedStays
<1>6. CASE Materialized
  <2>1. /\ TableTypes' /\ SessionsFollowPayload'
        /\ UNCHANGED dispositions
        /\ DOMAIN sessions' = DOMAIN sessions
        /\ sessions'[work.attempt].closed
        /\ \A a \in DOMAIN sessions \ {work.attempt} : sessions'[a] = sessions[a]
    BY <1>6, SessionCloses
  <2>. QED BY <2>1 DEF ClosedStays
<1>7. CASE ReleaseRows
  <2>1. UNCHANGED <<preparations, candidates, sessions, dispositions>>
    BY <1>7, ReleaseWrites
  <2>2. PICK a \in Attempts, n \in Nat : ReleaseOf(a, n)
    BY <1>7, ReleaseWrites
  <2> DEFINE partition == <<"release", <<a, n>>>>
             frames == {n}
  <2>3. accepted \in Seq(Row)
    BY DEF TableTypes
  <2>4. RowOf(partition, a, n) \in Row
    BY DEF RowOf, Row, Dispositions
  <2>5. accepted' = accepted \/ accepted' = accepted \o Rows(partition, a, frames)
    BY <2>2 DEF ReleaseOf
  <2>6. frames \subseteq Nat /\ IsFiniteSet(frames)
    BY FS_Singleton
  <2>7. \A m \in frames : RowOf(partition, a, m) \in Row
    BY <2>4
  <2> HIDE DEF partition, frames
  <2>8. ASSUME accepted' = accepted \o Rows(partition, a, frames)
        PROVE  accepted' \in Seq(Row)
    BY <2>3, <2>6, <2>7, <2>8, RowsAppended DEF RowsFollow
  <2>9. accepted' \in Seq(Row)
    BY <2>3, <2>5, <2>8
  <2>10. TableTypes'
    BY <2>1, <2>9 DEF TableTypes
  <2>11. SessionsFollowPayload' /\ ClosedStays
    BY <2>1 DEF SessionsFollowPayload, Decodes, ClosedStays
  <2>. QED BY <2>10, <2>11
<1>. QED BY <1>1, <1>2, <1>3, <1>4, <1>5, <1>6, <1>7, StepsOfTheTables

\* Rows that come from somewhere, each of a frame that has none yet, are added
\* to the table.
RowsCome(partition, a, frames) ==
    /\ frames \subseteq Nat /\ IsFiniteSet(frames)
    /\ \A n \in frames : RowOf(partition, a, n) \in Row
    /\ NoRowOf(accepted, a, frames)
    /\ accepted' = accepted \o Rows(partition, a, frames)

LEMMA RowsOfAStep ==
    ASSUME TableTypes, ProcessTypes, SessionsFollowPayload, ProcessFollowsTables,
           RowsHaveSource, DecisionsAreAboutRejected, ReleaseFollowsDecision, [Next]_vars
    PROVE  \/ UNCHANGED <<accepted, sessions, dispositions>>
           \/ UNCHANGED accepted /\ \A a \in DOMAIN sessions' :
                sessions'[a].closed => a \in DOMAIN sessions /\ sessions[a].closed
                                       /\ dispositions'[a] = dispositions[a]
           \/ /\ Materialized
              /\ RowsCome(<<"delivery", work.attempt>>, work.attempt,
                          AcceptedFrames(work.attempt))
           \/ \E a \in Attempts, n \in Nat :
                /\ ReleaseRows /\ UNCHANGED <<sessions, dispositions>>
                /\ Evaluable(<<a, n>>)
                /\ work.decision.evaluation = <<a, n>>
                /\ RowsCome(<<"release", <<a, n>>>>, a, {n})
<1>1. CASE UNCHANGED tableVars
  BY <1>1 DEF tableVars
<1>2. CASE OpenPreparation \/ ReadRaw
  BY <1>2, PreparationSteps
<1>3. CASE Prepared
  BY <1>3, PreparedStores
<1>4. CASE OpenMaterialization
  <2>1. /\ UNCHANGED accepted
        /\ DOMAIN sessions' = DOMAIN sessions \cup {work.attempt}
        /\ sessions'[work.attempt] = [next_frame_sequence |-> 0, closed |-> FALSE]
        /\ \A a \in DOMAIN sessions : sessions'[a] = sessions[a]
                                      /\ dispositions'[a] = dispositions[a]
    BY <1>4, SessionOpens
  <2>. QED BY <2>1
<1>5. CASE DispositionsOfPage
  <2>1. /\ UNCHANGED accepted
        /\ DOMAIN sessions' = DOMAIN sessions
        /\ ~sessions'[work.attempt].closed
        /\ \A a \in DOMAIN sessions \ {work.attempt} :
             sessions'[a] = sessions[a] /\ dispositions'[a] = dispositions[a]
    BY <1>5, PageIsDisposed
  <2>. QED BY <2>1
<1>6. CASE Materialized
  <2>1. /\ work.attempt \in DOMAIN sessions /\ ~sessions[work.attempt].closed
        /\ AcceptedFrames(work.attempt) \subseteq Nat
        /\ IsFiniteSet(AcceptedFrames(work.attempt))
        /\ accepted' = accepted \o Rows(<<"delivery", work.attempt>>, work.attempt,
                                        AcceptedFrames(work.attempt))
    BY <1>6, SessionCloses
  <2>2. \A n \in AcceptedFrames(work.attempt) :
          RowOf(<<"delivery", work.attempt>>, work.attempt, n) \in Row
    BY <2>1 DEF RowOf, Row, TableTypes
  <2>3. \A i \in 1..Len(accepted) : accepted[i].attempt # work.attempt
    <3>1. \A row : HasSource(row) =>
            row.attempt \in DOMAIN sessions /\ sessions[row.attempt].closed
      BY DEF HasSource, DeliveryRow, ReleaseRow
    <3>. QED BY <2>1, <3>1 DEF RowsHaveSource
  <2>. QED BY <1>6, <2>1, <2>2, <2>3 DEF RowsCome, NoRowOf
<1>7. CASE ReleaseRows
  <2>1. UNCHANGED <<sessions, dispositions>>
    BY <1>7, ReleaseWrites
  <2>2. PICK a \in Attempts, n \in Nat : ReleaseOf(a, n)
    BY <1>7, ReleaseWrites
  <2>3. CASE <<"release", <<a, n>>>> \in Partitions
    BY <2>1, <2>2, <2>3 DEF ReleaseOf
  <2>4. CASE <<"release", <<a, n>>>> \notin Partitions
    <3>1. accepted' = accepted \o Rows(<<"release", <<a, n>>>>, a, {n})
          /\ Evaluable(<<a, n>>) /\ work.decision.evaluation = <<a, n>>
      BY <2>2, <2>4 DEF ReleaseOf
    <3>2. {n} \subseteq Nat /\ IsFiniteSet({n})
      BY FS_Singleton
    <3>3. \A m \in {n} : RowOf(<<"release", <<a, n>>>>, a, m) \in Row
      BY DEF RowOf, Row, Dispositions
    <3>4. ASSUME NEW i \in 1..Len(accepted), accepted[i].attempt = a,
                 accepted[i].frame = n
          PROVE  FALSE
      <4>1. HasSource(accepted[i])
        BY <3>4 DEF RowsHaveSource
      <4>2. PICK b \in DOMAIN sessions :
              /\ sessions[b].closed
              /\ \E m \in DOMAIN dispositions[b] :
                   accepted[i] = IF dispositions[b][m] = "accepted" THEN DeliveryRow(b, m)
                                 ELSE ReleaseRow(b, m)
        BY <4>1 DEF HasSource
      <4>3. PICK m \in DOMAIN dispositions[b] :
              accepted[i] = IF dispositions[b][m] = "accepted" THEN DeliveryRow(b, m)
                            ELSE ReleaseRow(b, m)
        BY <4>2
      <4>4. b = a /\ m = n
        BY <3>4, <4>3 DEF DeliveryRow, ReleaseRow
      <4>5. dispositions[a][n] = "rejected"
        BY <3>1 DEF Evaluable, Rejected
      <4>6. accepted[i].partition = <<"release", <<a, n>>>>
        BY <4>3, <4>4, <4>5 DEF ReleaseRow
      <4>. QED BY <2>4, <3>4, <4>6 DEF Partitions
    <3>5. RowsCome(<<"release", <<a, n>>>>, a, {n})
      BY <3>1, <3>2, <3>3, <3>4 DEF RowsCome, NoRowOf
    <3>. QED BY <1>7, <2>1, <3>1, <3>5
  <2>. QED BY <2>3, <2>4
<1>. QED BY <1>1, <1>2, <1>3, <1>4, <1>5, <1>6, <1>7, StepsOfTheTables

\* Every row keeps or has its source, every frame its one row, and no
\* partition goes away.
LEMMA RowsStep ==
    ASSUME TableTypes, ProcessTypes, SessionsFollowPayload, ProcessFollowsTables,
           RowsHaveSource, RowAcceptedOnce, DecisionsAreAboutRejected,
           ReleaseFollowsDecision, [Next]_vars
    PROVE  RowsHaveSource' /\ RowAcceptedOnce' /\ Partitions \subseteq Partitions'
<1>1. ClosedStays
  BY TablesStep
<1>2. CASE UNCHANGED <<accepted, sessions, dispositions>>
  <2>1. RowsHaveSource'
    BY <1>2 DEF RowsHaveSource, HasSource
  <2>. QED BY <1>2, <2>1 DEF RowAcceptedOnce, Partitions
<1>3. CASE UNCHANGED accepted /\ \A a \in DOMAIN sessions' :
             sessions'[a].closed => a \in DOMAIN sessions /\ sessions[a].closed
                                    /\ dispositions'[a] = dispositions[a]
  <2>1. \A i \in 1..Len(accepted') : HasSource(accepted[i])'
    <3> SUFFICES ASSUME NEW i \in 1..Len(accepted') PROVE HasSource(accepted[i])'
      OBVIOUS
    <3>1. PICK row : row = accepted[i]
      OBVIOUS
    <3>2. HasSource(row)
      BY <1>3, <3>1 DEF RowsHaveSource
    <3>3. HasSource(row)'
      BY <1>1, <3>2, SourcesStay
    <3>. QED BY <1>3, <3>1, <3>3 DEF HasSource
  <2>2. \A a \in DOMAIN sessions' : sessions'[a].closed =>
          \A n \in DOMAIN dispositions'[a] : dispositions'[a][n] = "accepted" =>
            \E i \in 1..Len(accepted') : accepted'[i] = DeliveryRow(a, n)
    BY <1>3 DEF RowsHaveSource
  <2>3. RowsHaveSource'
    BY <2>1, <2>2 DEF RowsHaveSource
  <2>. QED BY <1>3, <2>3 DEF RowAcceptedOnce, Partitions
<1>4. ASSUME NEW partition, NEW a, NEW frames, RowsCome(partition, a, frames)
      PROVE  /\ RowAcceptedOnce' /\ Partitions \subseteq Partitions'
             /\ RowsFollow(accepted, accepted', partition, a, frames)
  <2>1. /\ frames \subseteq Nat /\ IsFiniteSet(frames)
        /\ \A n \in frames : RowOf(partition, a, n) \in Row
        /\ NoRowOf(accepted, a, frames)
        /\ accepted' = accepted \o Rows(partition, a, frames)
        /\ accepted \in Seq(Row)
    BY <1>4 DEF RowsCome, TableTypes
  <2>2. RowsFollow(accepted, accepted', partition, a, frames)
    BY <2>1, RowsAppended
  <2>3. Once(accepted)
    BY DEF RowAcceptedOnce, Once
  <2>4. Once(accepted')
    BY <2>1, <2>2, <2>3, OnceKept
  <2>5. RowAcceptedOnce'
    BY <2>4 DEF RowAcceptedOnce, Once
  <2>6. Partitions \subseteq Partitions'
    BY <2>2 DEF Partitions, RowsFollow
  <2>. QED BY <2>2, <2>5, <2>6
<1>5. ASSUME NEW partition, NEW a, NEW frames, RowsCome(partition, a, frames),
             \A n \in frames : HasSource(RowOf(partition, a, n))'
      PROVE  \A i \in 1..Len(accepted') : HasSource(accepted[i])'
  <2> SUFFICES ASSUME NEW i \in 1..Len(accepted') PROVE HasSource(accepted[i])'
    OBVIOUS
  <2>1. RowsFollow(accepted, accepted', partition, a, frames)
    BY <1>4, <1>5
  <2>2. PICK row : row = accepted'[i]
    OBVIOUS
  <2>3. CASE i \in 1..Len(accepted)
    <3>1. HasSource(row)
      BY <2>1, <2>2, <2>3 DEF RowsFollow, RowsHaveSource
    <3>2. HasSource(row)'
      BY <1>1, <3>1, SourcesStay
    <3>. QED BY <2>2, <3>2 DEF HasSource
  <2>4. CASE i \notin 1..Len(accepted)
    <3>1. PICK n \in frames : accepted'[i] = RowOf(partition, a, n)
      BY <2>1, <2>4 DEF RowsFollow
    <3>2. HasSource(RowOf(partition, a, n))'
      BY <1>5
    <3>. QED BY <3>1, <3>2 DEF HasSource
  <2>. QED BY <2>3, <2>4
<1>6. ASSUME Materialized,
             RowsCome(<<"delivery", work.attempt>>, work.attempt,
                      AcceptedFrames(work.attempt))
      PROVE  RowsHaveSource' /\ RowAcceptedOnce' /\ Partitions \subseteq Partitions'
  <2>1. /\ UNCHANGED dispositions
        /\ work.attempt \in DOMAIN sessions
        /\ DOMAIN sessions' = DOMAIN sessions
        /\ sessions'[work.attempt].closed
        /\ \A a \in DOMAIN sessions \ {work.attempt} : sessions'[a] = sessions[a]
    BY <1>6, SessionCloses
  <2>2. PICK a : a = work.attempt
    OBVIOUS
  <2>3. PICK frames : frames = AcceptedFrames(a)
    OBVIOUS
  <2>4. RowsCome(<<"delivery", a>>, a, frames)
    BY <1>6, <2>2, <2>3
  <2>5. \A n \in frames : HasSource(RowOf(<<"delivery", a>>, a, n))'
    <3> SUFFICES ASSUME NEW n \in frames
                 PROVE  HasSource(RowOf(<<"delivery", a>>, a, n))'
      OBVIOUS
    <3>1. n \in DOMAIN dispositions'[a] /\ dispositions'[a][n] = "accepted"
      BY <2>1, <2>3 DEF AcceptedFrames
    <3>2. a \in DOMAIN sessions' /\ sessions'[a].closed
      BY <2>1, <2>2
    <3>. QED BY <3>1, <3>2 DEF HasSource, RowOf, DeliveryRow
  <2>6. RowAcceptedOnce' /\ Partitions \subseteq Partitions'
        /\ RowsFollow(accepted, accepted', <<"delivery", a>>, a, frames)
    BY <1>4, <2>4
  <2>7. \A i \in 1..Len(accepted') : HasSource(accepted[i])'
    BY <1>5, <2>4, <2>5
  <2>8. ASSUME NEW b \in DOMAIN sessions', sessions'[b].closed,
               NEW n \in DOMAIN dispositions'[b], dispositions'[b][n] = "accepted"
        PROVE  \E i \in 1..Len(accepted') : accepted'[i] = DeliveryRow(b, n)
    <3>1. CASE b = a
      <4>1. n \in frames
        BY <2>1, <2>3, <2>8, <3>1 DEF AcceptedFrames
      <4>2. \E i \in 1..Len(accepted') : accepted'[i] = RowOf(<<"delivery", a>>, a, n)
        BY <2>6, <4>1 DEF RowsFollow
      <4>. QED BY <3>1, <4>2 DEF RowOf, DeliveryRow
    <3>2. CASE b # a
      <4>1. PICK i \in 1..Len(accepted) : accepted[i] = DeliveryRow(b, n)
        BY <2>1, <2>2, <2>8, <3>2 DEF RowsHaveSource
      <4>2. i \in 1..Len(accepted') /\ accepted'[i] = accepted[i]
        BY <2>6 DEF RowsFollow
      <4>. QED BY <4>1, <4>2
    <3>. QED BY <3>1, <3>2
  <2>9. RowsHaveSource'
    BY <2>7, <2>8 DEF RowsHaveSource
  <2>. QED BY <2>6, <2>9
<1>7. ASSUME NEW a \in Attempts, NEW n \in Nat,
             ReleaseRows, UNCHANGED <<sessions, dispositions>>, Evaluable(<<a, n>>),
             RowsCome(<<"release", <<a, n>>>>, a, {n})
      PROVE  RowsHaveSource' /\ RowAcceptedOnce' /\ Partitions \subseteq Partitions'
  <2> DEFINE partition == <<"release", <<a, n>>>>
             frames == {n}
  <2>1. \A m \in frames : HasSource(RowOf(partition, a, m))'
    <3>1. /\ a \in DOMAIN sessions' /\ sessions'[a].closed
          /\ n \in DOMAIN dispositions'[a] /\ dispositions'[a][n] = "rejected"
      BY <1>7 DEF Evaluable, Closed, Rejected
    <3>. QED BY <3>1 DEF HasSource, RowOf, ReleaseRow
  <2>2. RowsCome(partition, a, frames)
    BY <1>7
  <2> HIDE DEF partition, frames
  <2>3. RowAcceptedOnce' /\ Partitions \subseteq Partitions'
        /\ RowsFollow(accepted, accepted', partition, a, frames)
    BY <1>4, <2>2
  <2>4. \A i \in 1..Len(accepted') : HasSource(accepted[i])'
    BY <1>5, <2>1, <2>2
  <2>5. \A i \in 1..Len(accepted) : i \in 1..Len(accepted') /\ accepted'[i] = accepted[i]
    BY <2>3 DEF RowsFollow
  <2>6. \A b \in DOMAIN sessions' : sessions'[b].closed =>
          \A m \in DOMAIN dispositions'[b] : dispositions'[b][m] = "accepted" =>
            \E i \in 1..Len(accepted') : accepted'[i] = DeliveryRow(b, m)
    BY <1>7, <2>5 DEF RowsHaveSource
  <2>7. RowsHaveSource'
    BY <2>4, <2>6 DEF RowsHaveSource
  <2>. QED BY <2>3, <2>7
<1>. QED BY <1>2, <1>3, <1>6, <1>7, RowsOfAStep

-----------------------------------------------------------------------------
(* The decisions *)

\* A decision that is recorded is in the repository, and it alone is added.
RecordedUnder(d, known) == [decision |-> d, identity |-> IdentityOf(d, known)]

LEMMA DecisionRecorded ==
    ASSUME NEW d, NEW known, RecordDecision(d, known)
    PROVE  \/ decisions' = decisions /\ Recorded(d)
           \/ decisions' = decisions \cup {RecordedUnder(d, known)}
<1>1. CASE RecordOutcome(d) = "replayed"
  <2>1. decisions' = decisions
    BY <1>1 DEF RecordDecision
  <2>2. \E p \in Prior(d) : p.decision = d
    BY <1>1 DEF RecordOutcome
  <2>. QED BY <2>1, <2>2 DEF Prior, Recorded
<1>2. CASE RecordOutcome(d) # "replayed"
  BY <1>2 DEF RecordDecision, RecordedUnder
<1>. QED BY <1>1, <1>2

\* What a decision can be about stays what a decision can be about.
LEMMA EvaluableStays ==
    ASSUME ClosedStays, NEW d, Evaluable(d)
    PROVE  Evaluable(d)'
BY DEF ClosedStays, Evaluable, Closed, Rejected

\* The dispositions of closed sessions, by attempt and frame.
LEMMA EvaluableIsKnown ==
    ASSUME TableTypes, SessionsFollowPayload, NEW a, NEW n, Evaluable(<<a, n>>)
    PROVE  a \in Attempts /\ n \in Nat /\ <<a, n>> \in Known
<1>1. a \in DOMAIN sessions /\ n \in DOMAIN dispositions[a]
  BY DEF Evaluable, Closed, Rejected
<1>2. a \in DOMAIN dispositions
      /\ DOMAIN dispositions[a] = 0..(sessions[a].next_frame_sequence - 1)
  BY <1>1 DEF SessionsFollowPayload
<1>3. sessions[a].next_frame_sequence \in Nat /\ a \in Attempts
  BY <1>1 DEF TableTypes
<1>4. n \in Nat
  BY <1>1, <1>2, <1>3
<1>5. <<a, n>> \in {<<a, m>> : m \in DOMAIN dispositions[a]}
  BY <1>1
<1>6. <<a, n>> \in Known
  BY <1>2, <1>5 DEF Known
<1>. QED BY <1>3, <1>4, <1>6

\* quarantine release names the disposition of a rejected frame of a closed
\* session: it has a recorded evaluation.
LEMMA ReleaseTargetIsRejected ==
    ASSUME TableTypes, SessionsFollowPayload, DecisionsAreAboutRejected, StoreTypes,
           NEW d \in ReleaseTargets
    PROVE  Evaluable(d) /\ \E a \in Attempts, n \in Nat : d = <<a, n>>
<1>1. d \in Known /\ EvaluationFor(d) # {}
  BY DEF ReleaseTargets
<1>2. PICK a \in DOMAIN dispositions : \E n \in DOMAIN dispositions[a] : d = <<a, n>>
  <2>1. PICK S \in {{<<b, m>> : m \in DOMAIN dispositions[b]} : b \in DOMAIN dispositions} :
           d \in S
    BY <1>1 DEF Known
  <2>. QED BY <2>1
<1>. PICK n \in DOMAIN dispositions[a] : d = <<a, n>>
  BY <1>2
<1>3. a \in Attempts /\ n \in Nat
  <2>1. a \in DOMAIN sessions
        /\ DOMAIN dispositions[a] = 0..(sessions[a].next_frame_sequence - 1)
    BY DEF SessionsFollowPayload
  <2>2. sessions[a].next_frame_sequence \in Nat /\ a \in Attempts
    BY <2>1 DEF TableTypes
  <2>. QED BY <2>1, <2>2
<1>4. d # NoIdentity
  <2>1. d \in Attempts \X Nat
    BY <1>2, <1>3
  <2>. QED BY <2>1, QuarantineParameters
<1>5. Matches(d) # {}
  BY <1>1 DEF EvaluationFor, DecisionQuery
<1>6. PICK p \in decisions : \E i \in 1..Len(p.decision.disposition_ids) :
                               p.decision.disposition_ids[i] = d
  BY <1>4, <1>5 DEF Matches
<1>7. PICK i \in 1..Len(p.decision.disposition_ids) : p.decision.disposition_ids[i] = d
  BY <1>6
<1>8. p.decision.kind \in {"evaluated", "released"}
  BY DEF StoreTypes, Decision
<1>9. p.decision.kind # "released"
  <2> SUFFICES ASSUME p.decision.kind = "released" PROVE FALSE
    OBVIOUS
  <2>1. p.decision.disposition_ids = <<<<"locator", 0>>>>
    BY DEF DecisionsAreAboutRejected
  <2>2. d = <<"locator", 0>>
    BY <1>7, <2>1
  <2>. QED BY <1>2, <1>3, <2>2, QuarantineParameters
<1>10. p.decision.disposition_ids = <<p.decision.evaluation>>
       /\ Evaluable(p.decision.evaluation)
  BY <1>8, <1>9 DEF DecisionsAreAboutRejected
<1>11. d = p.decision.evaluation
  BY <1>7, <1>10
<1>. QED BY <1>2, <1>3, <1>10, <1>11

\* What a step records is a decision about a rejected frame of a closed session.
Sound(p) ==
    /\ p \in [decision : Decision, identity : {Stream, NoIdentity}]
    /\ Evaluable(p.decision.evaluation)
    /\ p.decision.kind = "evaluated" =>
         /\ p.decision.disposition_ids = <<p.decision.evaluation>>
         /\ p.identity = Stream
    /\ p.decision.kind = "released" =>
         p.decision.disposition_ids = <<<<"locator", 0>>>>

LEMMA EvaluationIsSound ==
    ASSUME TableTypes, SessionsFollowPayload, StoreTypes,
           NEW a, NEW n, Evaluable(<<a, n>>)
    PROVE  Sound(RecordedUnder(Evaluated(a, n), Known))
<1>1. a \in Attempts /\ n \in Nat /\ <<a, n>> \in Known
  BY EvaluableIsKnown
<1>2. Evaluated(a, n) \in Decision
  <2>1. <<a, n>> \in (Attempts \cup {"locator"}) \X Nat
    BY <1>1
  <2>2. <<<<a, n>>>> \in Seq((Attempts \cup {"locator"}) \X Nat)
    BY <2>1
  <2>3. <<a, n>> \in Dispositions
    BY <1>1 DEF Dispositions
  <2>4. clock \in Nat
    BY DEF StoreTypes
  <2>. QED BY <2>2, <2>3, <2>4 DEF Decision, Evaluated
<1>3. IdentityOf(Evaluated(a, n), Known) = Stream
  <2>1. Evaluated(a, n).disposition_ids[1] = <<a, n>>
    BY DEF Evaluated
  <2>. QED BY <1>1, <2>1 DEF IdentityOf
<1>4. /\ Evaluated(a, n).kind = "evaluated"
      /\ Evaluated(a, n).evaluation = <<a, n>>
      /\ Evaluated(a, n).disposition_ids = <<<<a, n>>>>
  BY DEF Evaluated
<1>. QED BY <1>2, <1>3, <1>4 DEF Sound, RecordedUnder

LEMMA ReleaseIsSound ==
    ASSUME TableTypes, SessionsFollowPayload, StoreTypes,
           NEW a, NEW n, Evaluable(<<a, n>>)
    PROVE  /\ Released(<<a, n>>, <<a, n>>) \in Decision
           /\ Sound(RecordedUnder(Released(<<a, n>>, <<a, n>>), Known))
<1>1. a \in Attempts /\ n \in Nat
  BY EvaluableIsKnown
<1>2. Released(<<a, n>>, <<a, n>>) \in Decision
  <2>1. <<"locator", 0>> \in (Attempts \cup {"locator"}) \X Nat
    OBVIOUS
  <2>2. <<<<"locator", 0>>>> \in Seq((Attempts \cup {"locator"}) \X Nat)
    BY <2>1
  <2>3. <<a, n>> \in Dispositions
    BY <1>1 DEF Dispositions
  <2>4. clock \in Nat
    BY DEF StoreTypes
  <2>. QED BY <2>2, <2>3, <2>4 DEF Decision, Released
<1>3. IdentityOf(Released(<<a, n>>, <<a, n>>), Known) \in {Stream, NoIdentity}
  BY DEF IdentityOf
<1>4. /\ Released(<<a, n>>, <<a, n>>).kind = "released"
      /\ Released(<<a, n>>, <<a, n>>).evaluation = <<a, n>>
      /\ Released(<<a, n>>, <<a, n>>).disposition_ids = <<<<"locator", 0>>>>
  BY DEF Released
<1>. QED BY <1>2, <1>3, <1>4 DEF Sound, RecordedUnder

\* The decision a step records, if it records one.
LEMMA DecisionsOfAStep ==
    ASSUME TableTypes, StoreTypes, ProcessTypes, SessionsFollowPayload,
           DecisionsAreAboutRejected, ProcessFollowsTables, [Next]_vars
    PROVE  decisions' = decisions \/ \E p : Sound(p) /\ decisions' = decisions \cup {p}
<1>1. CASE UNCHANGED decisions
  BY <1>1
<1>2. CASE Evaluate
  <2>1. /\ Closed(work.attempt) /\ work.left \subseteq Rejected(work.attempt)
        /\ work.left # {} /\ work.left \subseteq Nat
    BY <1>2 DEF Evaluate, ProcessFollowsTables, ProcessTypes, Call
  <2>2. PICK a, n : a = work.attempt /\ n = First(work.left)
    OBVIOUS
  <2>3. n \in work.left
    BY <2>1, <2>2, FirstIsLeast
  <2>4. Evaluable(<<a, n>>)
    BY <2>1, <2>2, <2>3 DEF Evaluable
  <2>5. Sound(RecordedUnder(Evaluated(a, n), Known))
    BY <2>4, EvaluationIsSound
  <2>6. RecordDecision(Evaluated(a, n), Known)
    BY <1>2, <2>2 DEF Evaluate
  <2>7. decisions' = decisions
        \/ decisions' = decisions \cup {RecordedUnder(Evaluated(a, n), Known)}
    BY <2>6, DecisionRecorded
  <2>. QED BY <2>5, <2>7
<1>3. ASSUME NEW d \in Known, ReleaseQuarantine(d)
      PROVE  decisions' = decisions \/ \E p : Sound(p) /\ decisions' = decisions \cup {p}
  <2>1. Evaluable(d)
    BY <1>3, ReleaseTargetIsRejected DEF ReleaseQuarantine
  <2>2. PICK a \in Attempts, n \in Nat : d = <<a, n>>
    BY <1>3, ReleaseTargetIsRejected DEF ReleaseQuarantine
  <2>3. Sound(RecordedUnder(Released(d, d), Known))
    BY <2>1, <2>2, ReleaseIsSound
  <2>4. decisions' = decisions
        \/ decisions' = decisions \cup {RecordedUnder(Released(d, d), Known)}
    BY <1>3, DecisionRecorded DEF ReleaseQuarantine
  <2>. QED BY <2>3, <2>4
<1>. QED BY <1>1, <1>2, <1>3, StepsOfTheRepository

\* The decisions stay about rejected frames of closed sessions.
LEMMA DecisionsStep ==
    ASSUME TableTypes, StoreTypes, ProcessTypes, SessionsFollowPayload,
           DecisionsAreAboutRejected, ProcessFollowsTables, ReleaseFollowsDecision,
           [Next]_vars
    PROVE  /\ DecisionsAreAboutRejected'
           /\ decisions' \subseteq [decision : Decision, identity : {Stream, NoIdentity}]
<1>1. ClosedStays
  BY TablesStep
<1>2. \A p \in decisions : Sound(p)
  BY DEF StoreTypes, DecisionsAreAboutRejected, Sound
<1>3. \A p \in decisions' : Sound(p)
  BY <1>2, DecisionsOfAStep
<1>4. ASSUME NEW p \in decisions' PROVE Evaluable(p.decision.evaluation)'
  <2>1. Evaluable(p.decision.evaluation)
    BY <1>3 DEF Sound
  <2>. QED BY <1>1, <2>1, EvaluableStays
<1>5. DecisionsAreAboutRejected'
  BY <1>3, <1>4 DEF DecisionsAreAboutRejected, Sound
<1>. QED BY <1>3, <1>5 DEF Sound

\* A recorded evaluation is in the page of decisions a query of its disposition
\* reads: no decision of the disposition is earlier than the earliest of them.
LEMMA EvaluationIsFound ==
    ASSUME StoreTypes, NEW a, NEW n, Evaluation(a, n)
    PROVE  EvaluationFor(<<a, n>>) # {}
<1> DEFINE found == Matches(<<a, n>>)
<1>1. found # {} /\ \A d \in found : d.decided_at \in Nat
  <2>1. PICK p \in decisions :
          p.identity = Stream /\ p.decision.disposition_ids = <<<<a, n>>>>
    BY DEF Evaluation
  <2>2. 1 \in 1..Len(p.decision.disposition_ids)
        /\ p.decision.disposition_ids[1] = <<a, n>>
    BY <2>1
  <2>3. p.decision \in found
    BY <2>1, <2>2 DEF Matches
  <2>4. \A d \in found : d.decided_at \in Nat
    BY DEF Matches, StoreTypes, Decision
  <2>. QED BY <2>3, <2>4
<1> HIDE DEF found
<1>2. PICK d \in found : \A e \in found : d.decided_at <= e.decided_at
  <2> DEFINE times == {e.decided_at : e \in found}
  <2>1. times \subseteq Nat /\ times # {}
    BY <1>1
  <2>2. PICK t \in times : \A u \in times : t <= u
    BY <2>1, LeastNatural
  <2>3. PICK d \in found : d.decided_at = t
    BY <2>2
  <2>. QED BY <2>2, <2>3
<1>3. {e \in found \ {d} : e.decided_at < d.decided_at} = {}
  BY <1>1, <1>2
<1>4. InPage(d, found)
  BY <1>3, FS_EmptySet, RepositoryAssumption DEF InPage
<1>5. d \in DecisionQuery(<<a, n>>)
  BY <1>2, <1>4 DEF DecisionQuery, found
<1>. QED BY <1>5 DEF EvaluationFor

-----------------------------------------------------------------------------
(* The attempts *)

\* An attempt nothing was written of stays without tables, unless it is the one
\* the process holds.
LEMMA OthersStayUntouched ==
    ASSUME TableTypes, ProcessTypes, SessionsFollowPayload, ProcessFollowsTables,
           DecisionsAreAboutRejected, ReleaseFollowsDecision, [Next]_vars,
           NEW a, attempt[a] = "absent",
           a \notin DOMAIN preparations \cup DOMAIN candidates \cup DOMAIN sessions
    PROVE  a \notin DOMAIN preparations' \cup DOMAIN candidates' \cup DOMAIN sessions'
<1>1. CASE UNCHANGED tableVars
  BY <1>1 DEF tableVars
<1>2. ASSUME OpenPreparation \/ ReadRaw \/ Prepared \/ OpenMaterialization
             \/ DispositionsOfPage \/ Materialized \/ ReleaseRows
      PROVE  a # work.attempt
  BY <1>2 DEF ProcessFollowsTables, OpenPreparation, ReadRaw, Prepared,
     OpenMaterialization, DispositionsOfPage, Materialized, ReleaseRows
<1>3. CASE OpenPreparation \/ ReadRaw
  <2>1. /\ UNCHANGED <<candidates, sessions>>
        /\ DOMAIN preparations' = DOMAIN preparations \cup {work.attempt}
    BY <1>3, PreparationSteps
  <2>. QED BY <1>2, <1>3, <2>1
<1>4. CASE Prepared
  <2>1. /\ UNCHANGED <<preparations, sessions>>
        /\ DOMAIN candidates' = DOMAIN candidates \cup {work.attempt}
    BY <1>4, PreparedStores
  <2>. QED BY <1>2, <1>4, <2>1
<1>5. CASE OpenMaterialization
  <2>1. /\ UNCHANGED <<preparations, candidates>>
        /\ DOMAIN sessions' = DOMAIN sessions \cup {work.attempt}
    BY <1>5, SessionOpens
  <2>. QED BY <1>2, <1>5, <2>1
<1>6. CASE DispositionsOfPage
  <2>1. UNCHANGED <<preparations, candidates>> /\ DOMAIN sessions' = DOMAIN sessions
    BY <1>6, PageIsDisposed
  <2>. QED BY <2>1
<1>7. CASE Materialized
  <2>1. UNCHANGED <<preparations, candidates>> /\ DOMAIN sessions' = DOMAIN sessions
    BY <1>7, SessionCloses
  <2>. QED BY <2>1
<1>8. CASE ReleaseRows
  <2>1. UNCHANGED <<preparations, candidates, sessions>>
    BY <1>8, ReleaseWrites
  <2>. QED BY <2>1
<1>. QED BY <1>1, <1>3, <1>4, <1>5, <1>6, <1>7, <1>8, StepsOfTheTables

\* What the tables have to hold of an attempt in a state they hold after a
\* step, if they held it before.
StateHolds(a, state) ==
    /\ state = "absent" =>
         a \notin DOMAIN preparations \cup DOMAIN candidates \cup DOMAIN sessions
    /\ state \in {"validating", "committing", "committed"} => Closed(a)
    /\ state \in {"committing", "committed"} => \A n \in Rejected(a) : Evaluation(a, n)

CheckpointHolds(d) ==
    d # NoIdentity =>
      /\ d.kind = "released"
      /\ Recorded(d)
      /\ <<"release", d.evaluation>> \in Partitions

LEMMA HoldsByParts ==
    ASSUME NEW a
    PROVE  AttemptFollowsTables(a) <=>
             StateHolds(a, attempt[a]) /\ CheckpointHolds(checkpoint[a])
BY DEF AttemptFollowsTables, StateHolds, CheckpointHolds

LEMMA StateStillHolds ==
    ASSUME ClosedStays, decisions \subseteq decisions', NEW a, NEW state,
           StateHolds(a, state),
           state = "absent" =>
             a \notin DOMAIN preparations' \cup DOMAIN candidates' \cup DOMAIN sessions'
    PROVE  StateHolds(a, state)'
<1>1. Closed(a) => Closed(a)' /\ Rejected(a)' = Rejected(a)
  BY DEF ClosedStays, Closed, Rejected
<1>2. \A n : Evaluation(a, n) => Evaluation(a, n)'
  BY DEF Evaluation
<1>. QED BY <1>1, <1>2 DEF StateHolds

LEMMA CheckpointStillHolds ==
    ASSUME decisions \subseteq decisions', Partitions \subseteq Partitions',
           NEW d, CheckpointHolds(d)
    PROVE  CheckpointHolds(d)'
<1>1. Recorded(d) => Recorded(d)'
  BY DEF Recorded
<1>. QED BY <1>1 DEF CheckpointHolds

\* The steps that write an attempt, and what they find.
LEMMA StepsOfTheAttempts ==
    ASSUME StoreTypes, ProcessTypes, ProcessFollowsTables, AttemptsFollowTables,
           [Next]_vars
    PROVE  \/ UNCHANGED <<attempt, checkpoint>>
           \/ \E a \in Attempts, state \in AttemptTypes :
                /\ attempt' = [attempt EXCEPT ![a] = state]
                /\ UNCHANGED <<checkpoint, tableVars>>
                /\ StateHolds(a, state)
           \/ /\ CheckpointRelease
              /\ checkpoint' = [checkpoint EXCEPT ![work.attempt] = work.decision]
              /\ UNCHANGED attempt
<1>1. CASE \E a \in Attempts : Submit(a)
  <2>1. PICK a \in Attempts : Submit(a)
    BY <1>1
  <2>2. StateHolds(a, "received")
    BY DEF StateHolds
  <2>. QED BY <2>1, <2>2 DEF Submit, AttemptTypes
<1>2. ASSUME NEW state, NEW then, Transition(work.attempt, state, then),
             work.attempt \in Attempts, state \in AttemptTypes,
             StateHolds(work.attempt, state)
      PROVE  \E a \in Attempts, s \in AttemptTypes :
                /\ attempt' = [attempt EXCEPT ![a] = s]
                /\ UNCHANGED <<checkpoint, tableVars>>
                /\ StateHolds(a, s)
  BY <1>2 DEF Transition
<1>3. CASE Prepare \/ PrepareFails \/ Materialize \/ Reject
  <2>1. /\ StateHolds(work.attempt, "preparing") /\ StateHolds(work.attempt, "failed")
        /\ StateHolds(work.attempt, "materializing")
    BY DEF StateHolds
  <2>2. work.attempt \in Attempts
    BY <1>3 DEF Prepare, PrepareFails, Materialize, Reject, ProcessTypes
  <2>. QED BY <1>2, <1>3, <2>1, <2>2 DEF Prepare, PrepareFails, Materialize, Reject,
                                          AttemptTypes
<1>4. CASE Validate
  <2>1. Closed(work.attempt) /\ work.attempt \in Attempts
    BY <1>4 DEF Validate, ProcessFollowsTables, ProcessTypes, Call
  <2>2. StateHolds(work.attempt, "validating")
    BY <2>1 DEF StateHolds
  <2>. QED BY <1>2, <1>4, <2>1, <2>2 DEF Validate, AttemptTypes
<1>5. CASE Commit
  <2>1. /\ Closed(work.attempt) /\ work.attempt \in Attempts
        /\ \A n \in Rejected(work.attempt) : Evaluation(work.attempt, n)
    BY <1>5 DEF Commit, ProcessFollowsTables, ProcessTypes, Call
  <2>2. StateHolds(work.attempt, "committing")
    BY <2>1 DEF StateHolds
  <2>. QED BY <1>2, <1>5, <2>1, <2>2 DEF Commit, AttemptTypes
<1>6. CASE Committed
  <2>1. attempt[work.attempt] = "committing" /\ work.attempt \in Attempts
    BY <1>6 DEF Committed, ProcessFollowsTables, ProcessTypes, Call
  <2>2. StateHolds(work.attempt, "committed")
    BY <2>1 DEF StateHolds, AttemptsFollowTables, AttemptFollowsTables
  <2>. QED BY <1>2, <1>6, <2>1, <2>2 DEF Committed, AttemptTypes
<1>7. CASE BumpAttempt
  <2>1. attempt[work.attempt] \in AttemptTypes /\ work.attempt \in Attempts
    BY <1>7 DEF BumpAttempt, ProcessFollowsTables, ProcessTypes, StoreTypes
  <2>2. StateHolds(work.attempt, attempt[work.attempt])
    BY <2>1, HoldsByParts DEF AttemptsFollowTables
  <2>. QED BY <1>2, <1>7, <2>1, <2>2 DEF BumpAttempt
<1>8. CASE CheckpointRelease
  BY <1>8 DEF CheckpointRelease
<1>. QED BY <1>1, <1>3, <1>4, <1>5, <1>6, <1>7, <1>8
  DEF vars, storeVars, Next, EmitLifecycle, Landing, OpenPreparation, ReadRaw, Prepared,
      OpenMaterialization, DispositionsOfPage, Materialized, BeginEvaluate, Evaluate,
      EmitEvidence, ReleaseQuarantine, Releasing, ReleaseRows, ReleaseRowsRefused,
      SilentTransition, Tick, Crash, Goto

\* Every attempt keeps to what the tables hold of it.
LEMMA AttemptsStep ==
    ASSUME TableTypes, StoreTypes, ProcessTypes, SessionsFollowPayload, RowsHaveSource,
           RowAcceptedOnce, DecisionsAreAboutRejected, AttemptsFollowTables,
           ProcessFollowsTables, ReleaseFollowsDecision, [Next]_vars
    PROVE  AttemptsFollowTables'
<1>1. ClosedStays
  BY TablesStep
<1>2. decisions \subseteq decisions'
  BY DecisionsStay
<1>3. Partitions \subseteq Partitions'
  BY RowsStep
<1> SUFFICES ASSUME NEW a \in Attempts
             PROVE  AttemptFollowsTables(a)'
  BY DEF AttemptsFollowTables
<1>4. StateHolds(a, attempt[a]) /\ CheckpointHolds(checkpoint[a])
  BY HoldsByParts DEF AttemptsFollowTables
<1>5. attempt[a] = "absent" =>
        a \notin DOMAIN preparations' \cup DOMAIN candidates' \cup DOMAIN sessions'
  BY OthersStayUntouched DEF AttemptsFollowTables, AttemptFollowsTables
<1>6. PICK state, d : state = attempt[a] /\ d = checkpoint[a]
  OBVIOUS
<1>7. StateHolds(a, state)'
  BY <1>1, <1>2, <1>4, <1>5, <1>6, StateStillHolds
<1>8. CheckpointHolds(d)'
  BY <1>2, <1>3, <1>4, <1>6, CheckpointStillHolds
<1>9. ASSUME NEW s, NEW c, s = attempt'[a], c = checkpoint'[a],
             StateHolds(a, s)', CheckpointHolds(c)'
      PROVE  AttemptFollowsTables(a)'
  BY <1>9 DEF AttemptFollowsTables, StateHolds, CheckpointHolds
<1>10. CASE UNCHANGED <<attempt, checkpoint>>
  BY <1>6, <1>7, <1>8, <1>9, <1>10
<1>11. ASSUME NEW b \in Attempts, NEW s,
              attempt' = [attempt EXCEPT ![b] = s],
              UNCHANGED <<checkpoint, tableVars>>, s \in AttemptTypes, StateHolds(b, s)
       PROVE  AttemptFollowsTables(a)'
  <2>1. CASE a = b
    <3>1. StateHolds(a, s)'
      BY <1>1, <1>2, <1>11, <2>1, StateStillHolds DEF AttemptTypes
    <3>2. s = attempt'[a] /\ d = checkpoint'[a]
      BY <1>6, <1>11, <2>1 DEF StoreTypes
    <3>. QED BY <1>8, <1>9, <3>1, <3>2
  <2>2. CASE a # b
    <3>1. state = attempt'[a] /\ d = checkpoint'[a]
      BY <1>6, <1>11, <2>2 DEF StoreTypes
    <3>. QED BY <1>7, <1>8, <1>9, <3>1
  <2>. QED BY <2>1, <2>2
<1>12. CASE /\ CheckpointRelease
            /\ checkpoint' = [checkpoint EXCEPT ![work.attempt] = work.decision]
            /\ UNCHANGED attempt
  <2>1. PICK e : e = work.decision
    OBVIOUS
  <2>2. CheckpointHolds(e)
    BY <1>12, <2>1 DEF CheckpointRelease, ReleaseFollowsDecision, Call, CheckpointHolds
  <2>3. CheckpointHolds(e)'
    BY <1>2, <1>3, <2>2, CheckpointStillHolds
  <2>4. state = attempt'[a] /\ checkpoint'[a] \in {d, e}
    BY <1>6, <1>12, <2>1 DEF StoreTypes
  <2>. QED BY <1>7, <1>8, <1>9, <2>3, <2>4
<1>. QED BY <1>10, <1>11, <1>12, StepsOfTheAttempts

-----------------------------------------------------------------------------
(* The process *)

\* A landing call finds the tables as the call before left them.
LEMMA ProcessStep ==
    ASSUME TableTypes, StoreTypes, ProcessTypes, SessionsFollowPayload, RowsHaveSource,
           DecisionsAreAboutRejected, AttemptsFollowTables, ProcessFollowsTables,
           ReleaseFollowsDecision, [Next]_vars
    PROVE  ProcessFollowsTables'
<1>1. CASE \E a \in Attempts : Submit(a)
  <2>1. PICK a \in Attempts : Submit(a)
    BY <1>1
  <2>2. attempt[a] = "absent" /\ UNCHANGED tableVars
    BY <2>1 DEF Submit
  <2>3. a \notin DOMAIN preparations \cup DOMAIN candidates \cup DOMAIN sessions
    BY <2>2 DEF AttemptsFollowTables, AttemptFollowsTables
  <2>4. pc' = "emit" /\ work'.attempt = a /\ work'.then = "prepare"
    BY <2>1 DEF Submit, NoWork
  <2>5. attempt'[a] = "received"
    BY <2>1 DEF Submit, StoreTypes
  <2>. QED BY <2>2, <2>3, <2>4, <2>5 DEF tableVars, ProcessFollowsTables, Call
<1>2. ASSUME NEW state, NEW then, Transition(work.attempt, state, then),
             work.attempt \in Attempts, state # "absent"
      PROVE  /\ work'.attempt = work.attempt /\ Call' = then
             /\ work'.cursor = work.cursor /\ work'.left = work.left
             /\ attempt'[work.attempt] = state
             /\ UNCHANGED <<preparations, candidates, sessions, dispositions, accepted>>
  BY <1>2 DEF Transition, Emitting, ProcessTypes, StoreTypes, tableVars, Call
<1>3. pc # "idle" => work.attempt \in Attempts
  BY DEF ProcessTypes
<1>4. CASE Prepare
  <2>1. Call = "prepare"
    BY <1>4 DEF Prepare, Call
  <2>. QED BY <1>2, <1>3, <1>4, <2>1 DEF Prepare, ProcessFollowsTables
<1>5. CASE PrepareFails
  <2>1. Call' = "idle" /\ attempt'[work.attempt] = "failed" /\ work'.attempt = work.attempt
    BY <1>2, <1>3, <1>5 DEF PrepareFails
  <2>. QED BY <2>1 DEF ProcessFollowsTables
<1>6. CASE Materialize
  <2>1. Call = "materialize"
    BY <1>6 DEF Materialize, Call
  <2>. QED BY <1>2, <1>3, <1>6, <2>1 DEF Materialize, ProcessFollowsTables
<1>7. CASE Validate
  <2>1. Call = "validate"
    BY <1>7 DEF Validate, Call
  <2>2. Call' = "begin_evaluate" /\ work'.attempt = work.attempt
        /\ attempt'[work.attempt] = "validating" /\ UNCHANGED sessions
    BY <1>2, <1>3, <1>7 DEF Validate
  <2>. QED BY <2>1, <2>2 DEF ProcessFollowsTables, Closed
<1>8. CASE Commit
  <2>1. Call = "evaluate"
    BY <1>8 DEF Commit, Call
  <2>2. Call' = "applied" /\ work'.attempt = work.attempt
        /\ attempt'[work.attempt] = "committing" /\ UNCHANGED sessions
    BY <1>2, <1>3, <1>8 DEF Commit
  <2>. QED BY <2>1, <2>2 DEF ProcessFollowsTables, Closed
<1>9. CASE Committed \/ Reject
  <2>1. Call' = "receipt" /\ work'.attempt = work.attempt
        /\ attempt'[work.attempt] # "absent"
    BY <1>2, <1>3, <1>9 DEF Committed, Reject
  <2>. QED BY <2>1 DEF ProcessFollowsTables
<1>10. CASE BumpAttempt
  <2>1. attempt[work.attempt] # "absent"
    BY <1>10 DEF BumpAttempt, ProcessFollowsTables
  <2>2. Call' = "checkpoint" /\ work'.attempt = work.attempt
        /\ attempt'[work.attempt] # "absent"
    BY <1>2, <1>3, <1>10, <2>1 DEF BumpAttempt
  <2>. QED BY <2>2 DEF ProcessFollowsTables
<1>11. CASE EmitLifecycle
  <2>1. /\ work'.attempt = work.attempt /\ work'.cursor = work.cursor
        /\ work'.left = work.left /\ Call' = Call
        /\ UNCHANGED <<tableVars, attempt, decisions>>
    BY <1>11 DEF EmitLifecycle, ProcessTypes, Call, Calls, storeVars, repositoryVars
  <2>2. pc # "idle"
    BY <1>11 DEF EmitLifecycle
  <2>3. /\ Closed(work.attempt)' <=> Closed(work.attempt)
        /\ Rejected(work.attempt)' = Rejected(work.attempt)
        /\ \A n : Evaluation(work.attempt, n)' <=> Evaluation(work.attempt, n)
    BY <2>1 DEF tableVars, Closed, Rejected, Evaluation
  <2>. QED BY <2>1, <2>2, <2>3 DEF ProcessFollowsTables, tableVars
<1>12. CASE EmitEvidence
  <2>1. /\ work'.attempt = work.attempt /\ UNCHANGED attempt /\ pc # "idle"
        /\ Call' \in {"quality", "lineage", "metadata", "idle"}
    BY <1>12 DEF EmitEvidence, Emitting, After, ProcessTypes, Call, storeVars
  <2>. QED BY <2>1 DEF ProcessFollowsTables
<1>13. CASE OpenPreparation \/ ReadRaw
  <2>1. /\ UNCHANGED <<candidates, sessions, dispositions, accepted>>
        /\ DOMAIN preparations' = DOMAIN preparations \cup {work.attempt}
        /\ preparations'[work.attempt].raw = work'.cursor
        /\ work'.cursor <= Bytes(work.attempt)
        /\ pc' = "finish_prepare" => work'.cursor = Bytes(work.attempt)
    BY <1>13, PreparationSteps
  <2>2. /\ work'.attempt = work.attempt /\ UNCHANGED attempt
        /\ Call' = pc' /\ pc' \in {"append_raw", "finish_prepare"}
        /\ Call \in {"begin_prepare", "append_raw"} /\ pc # "idle"
    BY <1>13 DEF OpenPreparation, ReadRaw, Goto, ProcessTypes, Call, storeVars
  <2>. QED BY <2>1, <2>2 DEF ProcessFollowsTables, Bytes
<1>14. CASE Prepared
  <2>1. /\ UNCHANGED <<preparations, sessions, dispositions, accepted>>
        /\ DOMAIN candidates' = DOMAIN candidates \cup {work.attempt}
    BY <1>14, PreparedStores
  <2>2. /\ work' = work /\ UNCHANGED attempt /\ Call' = "materialize"
        /\ Call = "finish_prepare" /\ pc # "idle"
    BY <1>14 DEF Prepared, Goto, Call, storeVars
  <2>. QED BY <2>1, <2>2 DEF ProcessFollowsTables
<1>15. CASE OpenMaterialization
  <2>1. /\ DOMAIN sessions' = DOMAIN sessions \cup {work.attempt}
        /\ sessions'[work.attempt] = [next_frame_sequence |-> 0, closed |-> FALSE]
        /\ UNCHANGED candidates
    BY <1>15, SessionOpens
  <2>2. /\ work'.attempt = work.attempt /\ work'.cursor = 0 /\ UNCHANGED attempt
        /\ Call' = "dispositions" /\ Call = "begin_materialization" /\ pc # "idle"
    BY <1>15 DEF OpenMaterialization, Goto, ProcessTypes, Call, storeVars
  <2>3. Len(Payload[work.attempt]) \in Nat
    BY <1>3, <2>2, TablesAssumption
       DEF ProcessFollowsTables, SessionsFollowPayload, Decodes
  <2>. QED BY <2>1, <2>2, <2>3 DEF ProcessFollowsTables, Closed
<1>16. CASE DispositionsOfPage
  <2>1. /\ work.attempt \in DOMAIN sessions
        /\ DOMAIN sessions' = DOMAIN sessions
        /\ ~sessions'[work.attempt].closed
        /\ sessions'[work.attempt].next_frame_sequence = work'.cursor
        /\ pc' = "dispositions" =>
             work'.cursor < Len(Payload[work.attempt]) \/ Len(Payload[work.attempt]) = 0
        /\ pc' = "finish_materialization" => work'.cursor = Len(Payload[work.attempt])
    BY <1>16, PageIsDisposed
  <2>2. /\ work'.attempt = work.attempt /\ UNCHANGED attempt
        /\ Call' = pc' /\ pc' \in {"dispositions", "finish_materialization"}
        /\ pc # "idle"
    BY <1>16 DEF DispositionsOfPage, Goto, ProcessTypes, Call, storeVars
  <2>. QED BY <2>1, <2>2 DEF ProcessFollowsTables, Closed
<1>17. CASE Materialized
  <2>1. /\ work.attempt \in DOMAIN sessions
        /\ DOMAIN sessions' = DOMAIN sessions
        /\ sessions'[work.attempt].closed
    BY <1>17, SessionCloses
  <2>2. work' = work /\ UNCHANGED attempt /\ Call' = "validate" /\ pc # "idle"
    BY <1>17 DEF Materialized, Goto, Call, storeVars
  <2>. QED BY <2>1, <2>2 DEF ProcessFollowsTables, Closed
<1>18. CASE BeginEvaluate
  <2>1. /\ work'.attempt = work.attempt /\ work'.left = Rejected(work.attempt)
        /\ UNCHANGED <<attempt, tableVars>> /\ Call' = "evaluate"
        /\ Call = "begin_evaluate" /\ pc # "idle"
    BY <1>18 DEF BeginEvaluate, Goto, ProcessTypes, Call, storeVars
  <2>. QED BY <2>1 DEF ProcessFollowsTables, tableVars, Closed, Rejected
<1>19. CASE Evaluate
  <2>1. /\ Call = "evaluate" /\ pc # "idle" /\ work.left # {} /\ work.left \subseteq Nat
        /\ Closed(work.attempt) /\ work.left \subseteq Rejected(work.attempt)
    BY <1>19 DEF Evaluate, ProcessFollowsTables, ProcessTypes, Call
  <2>2. PICK a, n : a = work.attempt /\ n = First(work.left)
    OBVIOUS
  <2>3. n \in work.left
    BY <2>1, <2>2, FirstIsLeast
  <2>4. Evaluable(<<a, n>>)
    BY <2>1, <2>2, <2>3 DEF Evaluable
  <2>5. RecordDecision(Evaluated(a, n), Known)
    BY <1>19, <2>2 DEF Evaluate
  <2>6. /\ work'.attempt = a /\ work'.left = work.left \ {n}
        /\ UNCHANGED <<attempt, tableVars>> /\ Call' = "evaluate"
    BY <1>19, <2>2 DEF Evaluate, Goto, ProcessTypes, Call, storeVars
  <2>7. Evaluation(a, n)'
    <3>1. Evaluated(a, n).kind = "evaluated"
          /\ Evaluated(a, n).disposition_ids = <<<<a, n>>>>
          /\ Evaluated(a, n).evaluation = <<a, n>>
      BY DEF Evaluated
    <3>2. CASE decisions' = decisions /\ Recorded(Evaluated(a, n))
      BY <3>1, <3>2 DEF Recorded, DecisionsAreAboutRejected, Evaluation
    <3>3. CASE decisions' = decisions \cup {RecordedUnder(Evaluated(a, n), Known)}
      <4>1. Sound(RecordedUnder(Evaluated(a, n), Known))
        BY <2>4, EvaluationIsSound
      <4>2. PICK p : p = RecordedUnder(Evaluated(a, n), Known)
        OBVIOUS
      <4>3. /\ p.decision.disposition_ids = <<<<a, n>>>> /\ p.identity = Stream
            /\ p \in decisions'
        BY <3>1, <3>3, <4>1, <4>2 DEF Sound, RecordedUnder
      <4>. QED BY <4>3 DEF Evaluation
    <3>. QED BY <2>5, <3>2, <3>3, DecisionRecorded
  <2>8. \A m : Evaluation(a, m) => Evaluation(a, m)'
    BY DecisionsStay DEF Evaluation
  <2>9. \A m \in Rejected(a) \ work'.left : Evaluation(a, m)'
    <3>1. \A m \in Rejected(a) \ work.left : Evaluation(a, m)
      BY <2>1, <2>2 DEF ProcessFollowsTables
    <3>. QED BY <2>6, <2>7, <2>8, <3>1
  <2>10. Closed(a)' /\ Rejected(a)' = Rejected(a) /\ work'.left \subseteq Rejected(a)
    BY <2>1, <2>2, <2>6 DEF tableVars, Closed, Rejected
  <2>11. attempt'[a] # "absent"
    BY <2>1, <2>2, <2>6 DEF ProcessFollowsTables
  <2>12. Closed(work.attempt)' /\ Rejected(work.attempt)' = Rejected(a)
    BY <2>6, <2>10 DEF Closed, Rejected
  <2>13. \A m \in Rejected(work.attempt)' \ work'.left : Evaluation(work.attempt, m)'
    BY <2>6, <2>9, <2>12 DEF Evaluation
  <2>. QED BY <2>6, <2>10, <2>11, <2>12, <2>13 DEF ProcessFollowsTables
<1>20. CASE \E d \in Known : ReleaseQuarantine(d)
  <2>1. PICK d \in Known : ReleaseQuarantine(d)
    BY <1>20
  <2>2. Evaluable(d)
    BY <2>1, ReleaseTargetIsRejected DEF ReleaseQuarantine
  <2>3. d[1] \in Attempts /\ attempt[d[1]] # "absent"
    BY <2>2 DEF Evaluable, Closed, TableTypes, AttemptsFollowTables, AttemptFollowsTables
  <2>4. work'.attempt = d[1] /\ Call' = "materialize_release" /\ UNCHANGED attempt
    BY <2>1 DEF ReleaseQuarantine, NoWork, Call, storeVars
  <2>. QED BY <2>3, <2>4 DEF ProcessFollowsTables
<1>21. CASE ReleaseRows
  <2>1. work' = work /\ Call' = "bump" /\ UNCHANGED attempt /\ pc # "idle"
    BY <1>21 DEF ReleaseRows, Goto, Call, storeVars
  <2>. QED BY <2>1 DEF ProcessFollowsTables
<1>22. CASE ReleaseRowsRefused \/ CheckpointRelease \/ Crash
  <2>1. pc' = "idle" /\ Call' = "idle"
    BY <1>22 DEF ReleaseRowsRefused, CheckpointRelease, Crash, Goto, Call
  <2>. QED BY <2>1 DEF ProcessFollowsTables
<1>23. CASE SilentTransition \/ Tick \/ UNCHANGED vars
  <2>1. UNCHANGED <<tableVars, decisions, attempt, pc, work>>
    BY <1>23 DEF SilentTransition, Tick, vars, storeVars, repositoryVars
  <2>2. /\ Call' = Call /\ UNCHANGED <<preparations, candidates, sessions>>
        /\ Closed(work.attempt)' <=> Closed(work.attempt)
        /\ Rejected(work.attempt)' = Rejected(work.attempt)
        /\ \A n : Evaluation(work.attempt, n)' <=> Evaluation(work.attempt, n)
    BY <2>1 DEF tableVars, Call, Closed, Rejected, Evaluation
  <2>. QED BY <2>1, <2>2 DEF ProcessFollowsTables
<1>. QED BY <1>1, <1>4, <1>5, <1>6, <1>7, <1>8, <1>9, <1>10, <1>11, <1>12, <1>13, <1>14,
            <1>15, <1>16, <1>17, <1>18, <1>19, <1>20, <1>21, <1>22, <1>23
      DEF Next, Landing, Releasing

-----------------------------------------------------------------------------
(* The release *)

\* After the second write of a release the partition of it is there.
LEMMA ReleaseIsWritten ==
    ASSUME TableTypes, ProcessTypes, DecisionsAreAboutRejected, ReleaseFollowsDecision,
           ReleaseRows
    PROVE  <<"release", work.decision.evaluation>> \in Partitions'
<1>1. PICK a \in Attempts, n \in Nat : ReleaseOf(a, n)
  BY ReleaseWrites
<1> DEFINE partition == <<"release", <<a, n>>>>
           frames == {n}
<1>2. CASE partition \in Partitions
  BY <1>1, <1>2 DEF ReleaseOf, Partitions
<1>3. CASE partition \notin Partitions
  <2>1. /\ accepted' = accepted \o Rows(partition, a, frames)
        /\ accepted \in Seq(Row)
    BY <1>1, <1>3 DEF ReleaseOf, TableTypes
  <2>2. frames \subseteq Nat /\ IsFiniteSet(frames)
    BY FS_Singleton
  <2>3. \A m \in frames : RowOf(partition, a, m) \in Row
    BY DEF RowOf, Row, Dispositions
  <2>4. n \in frames
    OBVIOUS
  <2> HIDE DEF partition, frames
  <2>5. RowsFollow(accepted, accepted', partition, a, frames)
    BY <2>1, <2>2, <2>3, RowsAppended
  <2>6. PICK i \in 1..Len(accepted') : accepted'[i] = RowOf(partition, a, n)
    BY <2>4, <2>5 DEF RowsFollow
  <2>7. accepted'[i].partition = partition
    BY <2>6 DEF RowOf
  <2>8. partition \in Partitions'
    BY <2>7 DEF Partitions
  <2>. QED BY <1>1, <2>8 DEF ReleaseOf, partition
<1>. QED BY <1>2, <1>3

\* A release holds the recorded decision it is of.
ReleaseCalls == {"materialize_release", "bump", "checkpoint"}

LEMMA ReleaseStep ==
    ASSUME TableTypes, StoreTypes, ProcessTypes, SessionsFollowPayload, RowsHaveSource,
           RowAcceptedOnce, DecisionsAreAboutRejected, ProcessFollowsTables,
           ReleaseFollowsDecision, [Next]_vars
    PROVE  ReleaseFollowsDecision'
<1>1. decisions \subseteq decisions'
  BY DecisionsStay
<1>2. Partitions \subseteq Partitions'
  BY RowsStep
<1>3. ASSUME Call' = Call, work'.decision = work.decision, work'.attempt = work.attempt
      PROVE  ReleaseFollowsDecision'
  BY <1>1, <1>2, <1>3 DEF ReleaseFollowsDecision, Recorded
<1>4. ASSUME Call' \notin ReleaseCalls PROVE ReleaseFollowsDecision'
  BY <1>4 DEF ReleaseFollowsDecision, ReleaseCalls
<1>5. CASE EmitLifecycle
  <2>1. /\ Call' = Call /\ work'.decision = work.decision
        /\ work'.attempt = work.attempt
    BY <1>5 DEF EmitLifecycle, ProcessTypes, Call, Calls
  <2>. QED BY <1>3, <2>1
<1>6. CASE SilentTransition \/ Tick \/ UNCHANGED vars
  <2>1. UNCHANGED <<pc, work>>
    BY <1>6 DEF SilentTransition, Tick, vars
  <2>. QED BY <1>3, <2>1 DEF Call
<1>7. CASE BumpAttempt
  <2>1. /\ Call = "bump" /\ Call' = "checkpoint" /\ work'.decision = work.decision
        /\ work'.attempt = work.attempt
    BY <1>7 DEF BumpAttempt, Transition, Emitting, ProcessTypes, Call
  <2>. QED BY <1>1, <1>2, <2>1 DEF ReleaseFollowsDecision, Recorded
<1>8. CASE ReleaseRows
  <2>1. /\ Call = "materialize_release" /\ Call' = "bump" /\ work' = work
    BY <1>8 DEF ReleaseRows, Goto, Call
  <2>2. <<"release", work.decision.evaluation>> \in Partitions'
    BY <1>8, ReleaseIsWritten
  <2>. QED BY <1>1, <2>1, <2>2 DEF ReleaseFollowsDecision, Recorded
<1>9. CASE \E d \in Known : ReleaseQuarantine(d)
  <2>1. PICK d \in Known : ReleaseQuarantine(d)
    BY <1>9
  <2>2. Evaluable(d)
    BY <2>1, ReleaseTargetIsRejected DEF ReleaseQuarantine
  <2>3. PICK a \in Attempts, n \in Nat : d = <<a, n>>
    BY <2>1, ReleaseTargetIsRejected DEF ReleaseQuarantine
  <2>4. Released(d, d) \in Decision
    BY <2>2, <2>3, ReleaseIsSound
  <2>5. RecordDecision(Released(d, d), Known)
    BY <2>1 DEF ReleaseQuarantine
  <2>6. PICK r : r = Released(d, d)
    OBVIOUS
  <2>7. Recorded(r)'
    <3>1. CASE decisions' = decisions /\ Recorded(Released(d, d))
      BY <2>6, <3>1 DEF Recorded
    <3>2. CASE decisions' = decisions \cup {RecordedUnder(Released(d, d), Known)}
      <4>1. PICK p : p = RecordedUnder(Released(d, d), Known)
        OBVIOUS
      <4>2. p \in decisions' /\ p.decision = r
        BY <2>6, <3>2, <4>1 DEF RecordedUnder
      <4>. QED BY <4>2 DEF Recorded
    <3>. QED BY <2>5, <3>1, <3>2, DecisionRecorded
  <2>8. /\ Call' = "materialize_release" /\ work'.attempt = d[1]
        /\ work'.decision = r
    BY <2>1, <2>6 DEF ReleaseQuarantine, NoWork, Call
  <2>9. /\ r.kind = "released" /\ r.evaluation = d /\ r.locators = {d}
        /\ r \in Decision
    BY <2>4, <2>6 DEF Released
  <2>. QED BY <2>7, <2>8, <2>9 DEF ReleaseFollowsDecision, Recorded
<1>10. CASE (\E a \in Attempts : Submit(a)) \/ Landing
            \/ ReleaseRowsRefused \/ CheckpointRelease \/ Crash
  <2>1. Call' \notin ReleaseCalls
    BY <1>10 DEF ReleaseCalls, Call, Submit, Landing, Prepare, OpenPreparation, ReadRaw,
       Prepared, PrepareFails, Materialize, OpenMaterialization, DispositionsOfPage,
       Materialized, Validate, BeginEvaluate, Evaluate, Commit, Committed, Reject,
       EmitEvidence, ReleaseRowsRefused, CheckpointRelease, Crash, Transition, Emitting,
       Goto, After, NoWork, ProcessTypes
  <2>. QED BY <1>4, <2>1
<1>. QED BY <1>5, <1>6, <1>7, <1>8, <1>9, <1>10 DEF Next, Releasing

-----------------------------------------------------------------------------
(* What the process holds, and the log *)

\* A step that announces an envelope: it is owed, at the revision it was made.
Announces ==
    /\ pc # "emit" /\ pc' = "emit"
    /\ work'.event \in LifecycleEvent
    /\ work'.event.revision = revision'
    /\ revision' \in {revision, revision + 1}
    /\ owed' = owed \cup {work'.event}
    /\ UNCHANGED <<events, crashes>>

\* A step that has no part in the emission of an envelope.
LeavesEvents ==
    /\ pc' = "emit" => pc = "emit"
    /\ pc = "emit" => UNCHANGED <<pc, work, revision>>
    /\ revision' \in {revision, revision + 1}
    /\ UNCHANGED <<events, owed, crashes>>

LEMMA EventIsTyped ==
    ASSUME NEW a \in Attempts, NEW rev \in Nat,
           NEW type \in AttemptTypes \cup {"receipt", "quality", "lineage", "metadata"}
    PROVE  Event(a, type, rev) \in LifecycleEvent /\ Event(a, type, rev).revision = rev
BY DEF Event, LifecycleEvent

LEMMA TransitionAnnounces ==
    ASSUME StoreTypes, ProcessTypes, pc \notin {"idle", "emit"},
           NEW state \in AttemptTypes, NEW then \in Calls,
           Transition(work.attempt, state, then)
    PROVE  /\ Announces
           /\ ProcessTypes'
           /\ revision' \in Nat
<1>1. work.attempt \in Attempts /\ revision + 1 \in Nat
  BY DEF ProcessTypes, StoreTypes
<1>2. PICK e : e = Event(work.attempt, state, revision + 1)
  OBVIOUS
<1>3. e \in LifecycleEvent /\ e.revision = revision + 1
  BY <1>1, <1>2, EventIsTyped
<1>4. /\ pc' = "emit" /\ owed' = owed \cup {e}
      /\ work' = [work EXCEPT !.event = e, !.then = then]
      /\ revision' = revision + 1 /\ UNCHANGED <<events, crashes>>
  BY <1>2 DEF Transition, Emitting, boundVars
<1>5. work'.event = e
  BY <1>4 DEF ProcessTypes
<1>6. Announces
  BY <1>3, <1>4, <1>5 DEF Announces
<1>7. ProcessTypes'
  BY <1>1, <1>3, <1>4 DEF ProcessTypes
<1>. QED BY <1>1, <1>4, <1>6, <1>7

\* A step that goes on to another call, with the part of the work it changes.
LEMMA GoingOn ==
    ASSUME ProcessTypes, pc \notin {"idle", "emit"}, NEW step \in Calls, Goto(step),
           NEW cursor \in Nat, NEW left \in SUBSET Nat,
           work' = [work EXCEPT !.cursor = cursor, !.left = left]
    PROVE  LeavesEvents /\ ProcessTypes'
<1>1. /\ pc' = step /\ UNCHANGED <<events, owed, crashes, revision>>
  BY DEF Goto, storeVars, boundVars
<1>2. pc' # "emit"
  BY <1>1 DEF Calls
<1>3. ProcessTypes'
  BY <1>1, <1>2 DEF ProcessTypes
<1>. QED BY <1>1, <1>2, <1>3 DEF LeavesEvents

\* With nothing in memory the process is idle.
LEMMA NothingHeld ==
    ASSUME pc' = "idle", work' = NoWork
    PROVE  ProcessTypes'
BY DEF ProcessTypes, NoWork, Calls

\* The process holds what its type says after every step, and a step announces an
\* envelope, sends the one announced, dies, or has no part in the emission.
LEMMA StepsOfTheEvents ==
    ASSUME TableTypes, StoreTypes, ProcessTypes, SessionsFollowPayload,
           DecisionsAreAboutRejected, ProcessFollowsTables, ReleaseFollowsDecision,
           [Next]_vars
    PROVE  /\ ProcessTypes'
           /\ revision' \in Nat
           /\ Announces \/ EmitLifecycle \/ Crash \/ LeavesEvents
<1>1. revision \in Nat /\ revision + 1 \in Nat
  BY DEF StoreTypes
<1>2. TableTypes'
  BY TablesStep
<1>3. LeavesEvents => revision' \in Nat
  BY <1>1 DEF LeavesEvents
<1>4. CASE \E a \in Attempts : Submit(a)
  <2>1. PICK a \in Attempts : Submit(a)
    BY <1>4
  <2>2. PICK e : e = Event(a, "received", revision + 1)
    OBVIOUS
  <2>3. e \in LifecycleEvent /\ e.revision = revision + 1
    BY <1>1, <2>2, EventIsTyped DEF AttemptTypes
  <2>4. /\ pc = "idle" /\ pc' = "emit" /\ owed' = owed \cup {e}
        /\ revision' = revision + 1 /\ UNCHANGED <<events, crashes>>
        /\ work' = [NoWork EXCEPT !.attempt = a, !.then = "prepare", !.event = e]
    BY <2>1, <2>2 DEF Submit, boundVars
  <2>5. work'.event = e
    BY <2>4 DEF NoWork
  <2>6. Announces
    BY <2>3, <2>4, <2>5 DEF Announces
  <2>7. ProcessTypes'
    BY <2>3, <2>4 DEF ProcessTypes, NoWork, Calls
  <2>. QED BY <1>1, <2>4, <2>6, <2>7
<1>5. CASE Prepare \/ PrepareFails \/ Materialize \/ Validate \/ Commit \/ Committed
           \/ Reject
  <2>1. /\ pc \notin {"idle", "emit"}
        /\ \E state \in AttemptTypes, then \in Calls : Transition(work.attempt, state, then)
    BY <1>5 DEF Prepare, PrepareFails, Materialize, Validate, Commit, Committed, Reject,
       AttemptTypes, Calls
  <2>. QED BY <2>1, TransitionAnnounces
<1>6. CASE BumpAttempt
  <2>1. work.attempt \in Attempts /\ attempt[work.attempt] # "absent"
    BY <1>6 DEF BumpAttempt, ProcessTypes, ProcessFollowsTables
  <2>2. attempt[work.attempt] \in AttemptTypes
    BY <2>1 DEF StoreTypes
  <2>3. /\ pc \notin {"idle", "emit"}
        /\ Transition(work.attempt, attempt[work.attempt], "checkpoint")
    BY <1>6 DEF BumpAttempt
  <2>4. "checkpoint" \in Calls
    BY DEF Calls
  <2>. QED BY <2>2, <2>3, <2>4, TransitionAnnounces
<1>7. CASE EmitEvidence
  <2>1. /\ pc \in {"receipt", "quality", "lineage", "metadata"}
        /\ work.attempt \in Attempts
    BY <1>7 DEF EmitEvidence, ProcessTypes
  <2>2. PICK e : e = Event(work.attempt, pc, revision)
    OBVIOUS
  <2>3. e \in LifecycleEvent /\ e.revision = revision
    BY <1>1, <2>1, <2>2, EventIsTyped
  <2>4. /\ pc' = "emit" /\ owed' = owed \cup {e}
        /\ work' = [work EXCEPT !.event = e, !.then = After(pc)]
        /\ revision' = revision /\ UNCHANGED <<events, crashes>>
    BY <1>7, <2>2 DEF EmitEvidence, Emitting, storeVars, boundVars
  <2>5. work'.event = e
    BY <2>4 DEF ProcessTypes
  <2>6. After(pc) \in Calls
    BY <2>1 DEF After, Calls
  <2>7. Announces
    BY <2>1, <2>3, <2>4, <2>5 DEF Announces
  <2>8. ProcessTypes'
    BY <2>1, <2>3, <2>4, <2>6 DEF ProcessTypes
  <2>. QED BY <1>1, <2>4, <2>7, <2>8
<1>8. CASE EmitLifecycle
  <2>1. ProcessTypes'
    BY <1>8 DEF EmitLifecycle, ProcessTypes, Calls
  <2>2. revision' = revision
    BY <1>8 DEF EmitLifecycle, storeVars
  <2>. QED BY <1>1, <1>8, <2>1, <2>2
<1>9. /\ work.cursor \in Nat /\ work.left \in SUBSET Nat
      /\ work = [work EXCEPT !.cursor = work.cursor, !.left = work.left]
      /\ \A c : [work EXCEPT !.cursor = c]
                  = [work EXCEPT !.cursor = c, !.left = work.left]
      /\ \A l : [work EXCEPT !.left = l]
                  = [work EXCEPT !.cursor = work.cursor, !.left = l]
  BY DEF ProcessTypes
<1>10. CASE OpenPreparation \/ ReadRaw
  <2>1. work'.cursor \in Nat
    BY <1>10, PreparationSteps
  <2>2. PICK step \in {"append_raw", "finish_prepare"} :
          Goto(step) /\ \E c : work' = [work EXCEPT !.cursor = c]
    <3>1. CASE OpenPreparation
      BY <3>1 DEF OpenPreparation
    <3>2. CASE ReadRaw
      <4>1. Goto("append_raw") \/ Goto("finish_prepare")
        BY <3>2 DEF ReadRaw
      <4>2. \E c : work' = [work EXCEPT !.cursor = c]
        BY <3>2 DEF ReadRaw
      <4>. QED BY <4>1, <4>2
    <3>. QED BY <1>10, <3>1, <3>2
  <2>3. PICK c : work' = [work EXCEPT !.cursor = c]
    BY <2>2
  <2>4. c \in Nat
    BY <2>1, <2>3 DEF ProcessTypes
  <2>5. pc \notin {"idle", "emit"} /\ step \in Calls
    BY <1>10 DEF OpenPreparation, ReadRaw, Calls
  <2>. QED BY <1>3, <1>9, <2>2, <2>3, <2>4, <2>5, GoingOn
<1>11. CASE DispositionsOfPage \/ OpenMaterialization
  <2>1. PICK step \in {"dispositions", "finish_materialization"} :
          Goto(step) /\ \E c : work' = [work EXCEPT !.cursor = c]
    <3>1. CASE OpenMaterialization
      BY <3>1 DEF OpenMaterialization
    <3>2. CASE DispositionsOfPage
      <4>1. Goto("dispositions") \/ Goto("finish_materialization")
        BY <3>2 DEF DispositionsOfPage
      <4>2. \E c : work' = [work EXCEPT !.cursor = c]
        BY <3>2 DEF DispositionsOfPage
      <4>. QED BY <4>1, <4>2
    <3>. QED BY <1>11, <3>1, <3>2
  <2>2. PICK c : work' = [work EXCEPT !.cursor = c]
    BY <2>1
  <2>3. c \in Nat
    <3>1. CASE OpenMaterialization
      BY <2>2, <3>1 DEF OpenMaterialization, ProcessTypes
    <3>2. CASE DispositionsOfPage
      <4>1. /\ work.attempt \in DOMAIN sessions'
            /\ sessions'[work.attempt].next_frame_sequence = work'.cursor
        BY <3>2, PageIsDisposed
      <4>. QED BY <1>2, <2>2, <4>1 DEF TableTypes, ProcessTypes
    <3>. QED BY <1>11, <3>1, <3>2
  <2>4. pc \notin {"idle", "emit"} /\ step \in Calls
    BY <1>11 DEF DispositionsOfPage, OpenMaterialization, Calls
  <2>. QED BY <1>3, <1>9, <2>1, <2>2, <2>3, <2>4, GoingOn
<1>12. CASE Prepared \/ Materialized \/ ReleaseRows
  <2>1. PICK step \in {"materialize", "validate", "bump"} : work' = work /\ Goto(step)
    BY <1>12 DEF Prepared, Materialized, ReleaseRows
  <2>2. pc \notin {"idle", "emit"} /\ step \in Calls
    BY <1>12 DEF Prepared, Materialized, ReleaseRows, Calls
  <2>. QED BY <1>3, <1>9, <2>1, <2>2, GoingOn
<1>13. CASE BeginEvaluate \/ Evaluate
  <2>1. PICK l : work' = [work EXCEPT !.left = l] /\ Goto("evaluate")
                 /\ (l = Rejected(work.attempt) \/ l \subseteq work.left)
    BY <1>13 DEF BeginEvaluate, Evaluate
  <2>2. pc \notin {"idle", "emit"} /\ "evaluate" \in Calls
    BY <1>13 DEF BeginEvaluate, Evaluate, Calls
  <2>3. l \in SUBSET Nat
    <3>1. CASE BeginEvaluate
      <4>1. work.attempt \in DOMAIN sessions
        BY <3>1 DEF BeginEvaluate, ProcessFollowsTables, Call, Closed
      <4>2. Rejected(work.attempt) \subseteq Nat
        BY <4>1 DEF SessionsFollowPayload, Rejected, TableTypes
      <4>3. work'.left = Rejected(work.attempt) /\ work'.left = l
        BY <2>1, <3>1 DEF BeginEvaluate, ProcessTypes
      <4>. QED BY <4>2, <4>3
    <3>2. CASE Evaluate
      <4>1. work'.left \subseteq work.left /\ work'.left = l
        BY <2>1, <3>2 DEF Evaluate, ProcessTypes
      <4>. QED BY <1>9, <4>1
    <3>. QED BY <1>13, <3>1, <3>2
  <2>. QED BY <1>3, <1>9, <2>1, <2>2, <2>3, GoingOn
<1>14. CASE \E d \in Known : ReleaseQuarantine(d)
  <2>1. PICK d \in Known : ReleaseQuarantine(d)
    BY <1>14
  <2>2. Evaluable(d)
    BY <2>1, ReleaseTargetIsRejected DEF ReleaseQuarantine
  <2>3. PICK a \in Attempts, n \in Nat : d = <<a, n>>
    BY <2>1, ReleaseTargetIsRejected DEF ReleaseQuarantine
  <2>4. PICK r \in Decision : r = Released(d, d)
    BY <2>2, <2>3, ReleaseIsSound
  <2>5. /\ pc = "idle" /\ pc' = "materialize_release"
        /\ work' = [NoWork EXCEPT !.attempt = a, !.decision = r]
        /\ UNCHANGED <<events, owed, crashes, revision>>
    BY <2>1, <2>3, <2>4 DEF ReleaseQuarantine, storeVars
  <2>6. ProcessTypes'
    BY <2>5 DEF ProcessTypes, NoWork, Calls
  <2>7. LeavesEvents
    BY <2>5 DEF LeavesEvents
  <2>. QED BY <1>3, <2>6, <2>7
<1>15. CASE ReleaseRowsRefused \/ CheckpointRelease
  <2>1. /\ pc # "emit" /\ pc' = "idle" /\ work' = NoWork
        /\ UNCHANGED <<events, owed, crashes, revision>>
    BY <1>15 DEF ReleaseRowsRefused, CheckpointRelease, Goto, storeVars, boundVars
  <2>2. LeavesEvents
    BY <2>1 DEF LeavesEvents
  <2>. QED BY <1>3, <2>1, <2>2, NothingHeld
<1>16. CASE Crash
  <2>1. pc' = "idle" /\ work' = NoWork /\ UNCHANGED revision
    BY <1>16 DEF Crash, storeVars
  <2>. QED BY <1>1, <1>16, <2>1, NothingHeld
<1>17. CASE SilentTransition \/ Tick \/ UNCHANGED vars
  <2>1. /\ UNCHANGED <<pc, work, events, owed, crashes>>
        /\ revision' \in {revision, revision + 1}
        /\ pc = "emit" => UNCHANGED revision
    BY <1>17 DEF SilentTransition, Tick, vars, storeVars, boundVars
  <2>2. LeavesEvents
    BY <2>1 DEF LeavesEvents
  <2>3. ProcessTypes'
    BY <2>1 DEF ProcessTypes
  <2>. QED BY <1>3, <2>2, <2>3
<1>. QED BY <1>4, <1>5, <1>6, <1>7, <1>8, <1>10, <1>11, <1>12, <1>13, <1>14, <1>15,
            <1>16, <1>17 DEF Next, Landing, Releasing

\* The sink stores what the process sends, at the next place: the wrapper's number
\* is one the sink takes.
LEMMA EmissionStores ==
    ASSUME StoreTypes, ProcessTypes, LogFollowsRevisions, EmitLifecycle
    PROVE  /\ work.event \in LifecycleEvent /\ work.event.revision = revision
           /\ \/ Stored(work.event) /\ UNCHANGED events
              \/ events' = Append(events, [event |-> work.event, ordinal |-> Len(events) + 1])
<1>1. pc = "emit" /\ ProjectEvents(work.event)
  BY DEF EmitLifecycle
<1>2. EnvelopesLast = Len(events)
  <2>1. CASE events = <<>>
    BY <2>1 DEF EnvelopesLast
  <2>2. CASE events # <<>>
    <3>1. Len(events) \in 1..Len(events)
      BY <2>2 DEF StoreTypes
    <3>. QED BY <2>2, <3>1 DEF EnvelopesLast, LogFollowsRevisions, LogIsGapFree
  <2>. QED BY <2>1, <2>2
<1>3. SinkAccepts(NextOrdinal(work.event))
  BY DEF SinkAccepts, NextOrdinal
<1>. QED BY <1>1, <1>2, <1>3 DEF ProjectEvents, NextOrdinal, ProcessTypes, LogFollowsRevisions

\* The stores keep their types.
LEMMA StoresStep ==
    ASSUME TableTypes, StoreTypes, ProcessTypes, SessionsFollowPayload,
           DecisionsAreAboutRejected, AttemptsFollowTables, ProcessFollowsTables,
           ReleaseFollowsDecision, LogFollowsRevisions, [Next]_vars
    PROVE  StoreTypes'
<1>1. decisions' \subseteq [decision : Decision, identity : {Stream, NoIdentity}]
  BY DecisionsStep
<1>2. events' \in Seq([event : LifecycleEvent, ordinal : Nat])
  <2>1. CASE UNCHANGED events
    BY <2>1 DEF StoreTypes
  <2>2. CASE EmitLifecycle
    <3>1. CASE UNCHANGED events
      BY <3>1 DEF StoreTypes
    <3>2. CASE events' = Append(events, [event |-> work.event, ordinal |-> Len(events) + 1])
      <4>1. work.event \in LifecycleEvent /\ Len(events) + 1 \in Nat
        BY <2>2, EmissionStores DEF StoreTypes
      <4>2. [event |-> work.event, ordinal |-> Len(events) + 1]
              \in [event : LifecycleEvent, ordinal : Nat]
        BY <4>1
      <4>. QED BY <3>2, <4>2 DEF StoreTypes
    <3>. QED BY <2>2, <3>1, <3>2, EmissionStores
  <2>. QED BY <2>1, <2>2, StepsOfTheLog
<1>3. revision' \in Nat
  BY StepsOfTheEvents
<1>4. /\ attempt' \in [Attempts -> AttemptTypes \cup {"absent"}]
      /\ checkpoint' \in [Attempts -> Decision \cup {NoIdentity}]
  <2>1. CASE UNCHANGED <<attempt, checkpoint>>
    BY <2>1 DEF StoreTypes
  <2>2. CASE \E a \in Attempts, state \in AttemptTypes :
                /\ attempt' = [attempt EXCEPT ![a] = state]
                /\ UNCHANGED <<checkpoint, tableVars>>
                /\ StateHolds(a, state)
    BY <2>2 DEF StoreTypes
  <2>3. CASE /\ CheckpointRelease
             /\ checkpoint' = [checkpoint EXCEPT ![work.attempt] = work.decision]
             /\ UNCHANGED attempt
    <3>1. work.decision \in Decision
      BY <2>3 DEF CheckpointRelease, ReleaseFollowsDecision, Call
    <3>. QED BY <2>3, <3>1 DEF StoreTypes
  <2>4. \/ UNCHANGED <<attempt, checkpoint>>
        \/ \E a \in Attempts, state \in AttemptTypes :
             /\ attempt' = [attempt EXCEPT ![a] = state]
             /\ UNCHANGED <<checkpoint, tableVars>>
             /\ StateHolds(a, state)
        \/ /\ CheckpointRelease
           /\ checkpoint' = [checkpoint EXCEPT ![work.attempt] = work.decision]
           /\ UNCHANGED attempt
    BY StepsOfTheAttempts
  <2>. QED BY <2>1, <2>2, <2>3, <2>4
<1>5. clock' \in {clock, clock + 1} /\ crashes' \in {crashes, crashes + 1}
  BY DEF vars, boundVars, Next, Submit, EmitLifecycle, Landing, Prepare, OpenPreparation,
     ReadRaw, Prepared, PrepareFails, Materialize, OpenMaterialization,
     DispositionsOfPage, Materialized, Validate, BeginEvaluate, Evaluate, Commit,
     Committed, Reject, EmitEvidence, ReleaseQuarantine, Releasing, ReleaseRows,
     ReleaseRowsRefused, BumpAttempt, CheckpointRelease, SilentTransition, Tick, Crash,
     Transition, Goto
<1>6. clock' \in Nat /\ crashes' \in Nat
  BY <1>5 DEF StoreTypes
<1>. QED BY <1>1, <1>2, <1>3, <1>4, <1>6 DEF StoreTypes

\* The log has no gap, and no envelope of it is of a later revision than the
\* stream's.
LEMMA LogStep ==
    ASSUME TableTypes, StoreTypes, ProcessTypes, SessionsFollowPayload,
           DecisionsAreAboutRejected, ProcessFollowsTables, ReleaseFollowsDecision,
           LogFollowsRevisions, [Next]_vars
    PROVE  LogFollowsRevisions'
<1>1. /\ revision \in Nat
      /\ \A i \in 1..Len(events) : events[i].event.revision \in Nat
  <2>1. events \in Seq([event : LifecycleEvent, ordinal : Nat])
    BY DEF StoreTypes
  <2>2. \A i \in 1..Len(events) : events[i] \in [event : LifecycleEvent, ordinal : Nat]
    BY <2>1, ElementOfSeq
  <2>3. \A i \in 1..Len(events) : events[i].event \in LifecycleEvent
    BY <2>2
  <2>. QED BY <2>3 DEF StoreTypes, LifecycleEvent
<1>2. CASE Announces \/ LeavesEvents
  <2>1. UNCHANGED events /\ revision' \in {revision, revision + 1}
        /\ (pc' = "emit" => work'.event.revision = revision')
    BY <1>2 DEF Announces, LeavesEvents, LogFollowsRevisions
  <2>. QED BY <1>1, <2>1 DEF LogFollowsRevisions, LogIsGapFree
<1>3. CASE Crash
  <2>1. UNCHANGED <<events, revision>> /\ pc' = "idle"
    BY <1>3 DEF Crash, storeVars
  <2>. QED BY <2>1 DEF LogFollowsRevisions, LogIsGapFree
<1>4. CASE EmitLifecycle
  <2>1. pc' # "emit" /\ UNCHANGED revision
    BY <1>4 DEF EmitLifecycle, ProcessTypes, Calls, storeVars
  <2>2. CASE UNCHANGED events
    BY <2>1, <2>2 DEF LogFollowsRevisions, LogIsGapFree
  <2>3. CASE events' = Append(events, [event |-> work.event, ordinal |-> Len(events) + 1])
    <3>1. PICK r : r = [event |-> work.event, ordinal |-> Len(events) + 1]
      OBVIOUS
    <3>2. /\ Len(events') = Len(events) + 1 /\ Len(events) \in Nat
          /\ \A i \in 1..Len(events) : events'[i] = events[i]
          /\ events'[Len(events) + 1] = r
      BY <2>3, <3>1 DEF StoreTypes
    <3>3. r.ordinal = Len(events) + 1 /\ r.event.revision = revision
      BY <1>4, <3>1, EmissionStores
    <3>4. \A i \in 1..Len(events') : i \in 1..Len(events) \/ i = Len(events) + 1
      BY <3>2
    <3>5. \A i \in 1..Len(events') : events'[i].ordinal = i
      BY <3>2, <3>3, <3>4 DEF LogFollowsRevisions, LogIsGapFree
    <3>6. \A i \in 1..Len(events') : events'[i].event.revision <= revision
      BY <1>1, <3>2, <3>3, <3>4 DEF LogFollowsRevisions
    <3>7. ASSUME NEW i \in 1..(Len(events') - 1)
          PROVE  events'[i].event.revision <= events'[i + 1].event.revision
      <4>1. CASE i = Len(events)
        BY <1>1, <3>2, <3>3, <4>1 DEF LogFollowsRevisions
      <4>2. CASE i # Len(events)
        <5>1. i \in 1..(Len(events) - 1) /\ i \in 1..Len(events) /\ i + 1 \in 1..Len(events)
          BY <3>2, <4>2
        <5>. QED BY <3>2, <5>1 DEF LogFollowsRevisions, LogIsGapFree
      <4>. QED BY <4>1, <4>2
    <3>. QED BY <2>1, <3>5, <3>6, <3>7 DEF LogFollowsRevisions, LogIsGapFree
  <2>. QED BY <1>4, <2>2, <2>3, EmissionStores
<1>. QED BY <1>2, <1>3, <1>4, StepsOfTheEvents

\* What is neither stored nor about to be grows only when the process dies, by the
\* one envelope it held.
LEMMA LossStep ==
    ASSUME TableTypes, StoreTypes, ProcessTypes, SessionsFollowPayload,
           DecisionsAreAboutRejected, ProcessFollowsTables, ReleaseFollowsDecision,
           LogFollowsRevisions, LossIsBounded, [Next]_vars
    PROVE  LossIsBounded'
<1>1. /\ IsFiniteSet(Lost) /\ Cardinality(Lost) \in Nat /\ crashes \in Nat
      /\ Cardinality(Lost) <= crashes
  <2>1. Lost \subseteq owed
    BY DEF Lost
  <2>2. IsFiniteSet(Lost)
    BY <2>1, FS_Subset DEF LossIsBounded
  <2>. QED BY <2>2, FS_CardinalityType DEF LossIsBounded, StoreTypes
<1>2. ASSUME IsFiniteSet(owed'), UNCHANGED crashes, Lost' \subseteq Lost
      PROVE  LossIsBounded'
  <2>1. Cardinality(Lost') <= Cardinality(Lost) /\ IsFiniteSet(Lost')
    BY <1>1, <1>2, FS_Subset
  <2>2. Cardinality(Lost') \in Nat
    BY <2>1, FS_CardinalityType
  <2>3. Cardinality(Lost') <= crashes'
    BY <1>1, <1>2, <2>1, <2>2
  <2>. QED BY <1>2, <2>3 DEF LossIsBounded
<1>3. CASE Announces
  <2>1. /\ owed' = owed \cup {work'.event} /\ pc # "emit" /\ pc' = "emit"
        /\ UNCHANGED <<events, crashes>>
    BY <1>3 DEF Announces
  <2>2. IsFiniteSet(owed')
    BY <2>1, FS_AddElement DEF LossIsBounded
  <2>3. Lost' \subseteq Lost
    BY <2>1 DEF Lost, Stored
  <2>. QED BY <1>2, <2>1, <2>2, <2>3
<1>4. CASE LeavesEvents
  <2>1. UNCHANGED <<events, owed, crashes>>
    BY <1>4 DEF LeavesEvents
  <2>2. pc = "emit" => pc' = "emit" /\ work'.event = work.event
    BY <1>4 DEF LeavesEvents
  <2>3. pc' = "emit" => pc = "emit"
    BY <1>4 DEF LeavesEvents
  <2>4. Lost' \subseteq Lost
    BY <2>1, <2>2, <2>3 DEF Lost, Stored
  <2>. QED BY <1>2, <2>1, <2>4 DEF LossIsBounded
<1>5. CASE EmitLifecycle
  <2>1. UNCHANGED <<owed, crashes>> /\ pc = "emit"
    BY <1>5 DEF EmitLifecycle, boundVars
  <2>2. PICK e : e = work.event
    OBVIOUS
  <2>3. Stored(e)'
    <3>1. CASE Stored(e) /\ UNCHANGED events
      BY <3>1 DEF Stored
    <3>2. CASE events' = Append(events, [event |-> e, ordinal |-> Len(events) + 1])
      <4>1. /\ Len(events) + 1 \in 1..Len(events')
            /\ events'[Len(events) + 1] = [event |-> e, ordinal |-> Len(events) + 1]
        BY <3>2 DEF StoreTypes
      <4>2. events'[Len(events) + 1].event = e
        BY <4>1
      <4>. QED BY <4>1, <4>2 DEF Stored
    <3>. QED BY <1>5, <2>2, <3>1, <3>2, EmissionStores
  <2>4. \A x : Stored(x) => Stored(x)'
    <3>1. CASE UNCHANGED events
      BY <3>1 DEF Stored
    <3>2. CASE events' = Append(events, [event |-> e, ordinal |-> Len(events) + 1])
      <4>1. \A i \in 1..Len(events) : i \in 1..Len(events') /\ events'[i] = events[i]
        BY <3>2 DEF StoreTypes
      <4>. QED BY <4>1 DEF Stored
    <3>. QED BY <1>5, <2>2, <3>1, <3>2, EmissionStores
  <2>5. Lost' \subseteq Lost
    BY <2>1, <2>2, <2>3, <2>4 DEF Lost
  <2>. QED BY <1>2, <2>1, <2>5 DEF LossIsBounded
<1>6. CASE Crash
  <2>1. UNCHANGED <<owed, events>> /\ pc' = "idle" /\ crashes' = crashes + 1
    BY <1>6 DEF Crash
  <2>2. Lost' \subseteq Lost \cup {work.event}
    BY <2>1 DEF Lost, Stored
  <2>3. /\ IsFiniteSet(Lost \cup {work.event})
        /\ Cardinality(Lost \cup {work.event}) <= Cardinality(Lost) + 1
        /\ Cardinality(Lost \cup {work.event}) \in Nat
    <3>1. PICK S : S = Lost
      OBVIOUS
    <3>2. IsFiniteSet(S) /\ Cardinality(S) \in Nat
      BY <1>1, <3>1
    <3>3. /\ IsFiniteSet(S \cup {work.event})
          /\ Cardinality(S \cup {work.event}) = Cardinality(S)
             \/ Cardinality(S \cup {work.event}) = Cardinality(S) + 1
      BY <3>2, FS_AddElement
    <3>. QED BY <3>1, <3>2, <3>3
  <2>4. Cardinality(Lost') <= Cardinality(Lost \cup {work.event}) /\ IsFiniteSet(Lost')
    BY <2>2, <2>3, FS_Subset
  <2>5. Cardinality(Lost') \in Nat
    BY <2>4, FS_CardinalityType
  <2>6. Cardinality(Lost') <= crashes'
    BY <1>1, <2>1, <2>3, <2>4, <2>5
  <2>. QED BY <2>1, <2>6 DEF LossIsBounded
<1>. QED BY <1>3, <1>4, <1>5, <1>6, StepsOfTheEvents

-----------------------------------------------------------------------------
(* The theorems *)

LEMMA QuarantineInitially ==
    ASSUME Init
    PROVE  QuarantineInductive
<1>1. /\ preparations = Nothing /\ candidates = Nothing /\ sessions = Nothing
      /\ dispositions = Nothing /\ accepted = <<>> /\ decisions = {} /\ events = <<>>
      /\ pc = "idle" /\ work = NoWork /\ owed = {} /\ crashes = 0 /\ clock = 0
      /\ revision = 0 /\ attempt = [a \in Attempts |-> "absent"]
      /\ checkpoint = [a \in Attempts |-> NoIdentity]
  BY DEF Init, TablesInit, RepositoryInit, SinkInit
<1>2. /\ DOMAIN preparations = {} /\ DOMAIN candidates = {} /\ DOMAIN sessions = {}
      /\ preparations = [x \in {} |-> x] /\ candidates = [x \in {} |-> x]
      /\ sessions = [x \in {} |-> x] /\ dispositions = [x \in {} |-> x]
      /\ Len(accepted) = 0 /\ Len(events) = 0
  BY <1>1 DEF Nothing
<1>3. TableTypes
  BY <1>1, <1>2 DEF TableTypes
<1>4. StoreTypes
  BY <1>1 DEF StoreTypes
<1>5. ProcessTypes
  BY <1>1 DEF ProcessTypes, NoWork, Calls
<1>6. SessionsFollowPayload
  BY <1>2 DEF SessionsFollowPayload
<1>7. RowsHaveSource /\ RowAcceptedOnce
  BY <1>2 DEF RowsHaveSource, RowAcceptedOnce
<1>8. DecisionsAreAboutRejected
  BY <1>1 DEF DecisionsAreAboutRejected
<1>9. AttemptsFollowTables
  BY <1>1, <1>2 DEF AttemptsFollowTables, AttemptFollowsTables
<1>10. ProcessFollowsTables /\ ReleaseFollowsDecision
  BY <1>1 DEF ProcessFollowsTables, ReleaseFollowsDecision, Call
<1>11. LogFollowsRevisions
  BY <1>1, <1>2 DEF LogFollowsRevisions, LogIsGapFree
<1>12. LossIsBounded
  <2>1. Lost = {}
    BY <1>1 DEF Lost
  <2>. QED BY <1>1, <2>1, FS_EmptySet DEF LossIsBounded
<1>. QED BY <1>3, <1>4, <1>5, <1>6, <1>7, <1>8, <1>9, <1>10, <1>11, <1>12
        DEF QuarantineInductive

LEMMA QuarantineStep ==
    ASSUME QuarantineInductive, [Next]_vars
    PROVE  QuarantineInductive'
<1>1. /\ TableTypes /\ StoreTypes /\ ProcessTypes /\ SessionsFollowPayload
      /\ RowsHaveSource /\ RowAcceptedOnce /\ DecisionsAreAboutRejected
      /\ AttemptsFollowTables /\ ProcessFollowsTables /\ ReleaseFollowsDecision
      /\ LogFollowsRevisions /\ LossIsBounded
  BY DEF QuarantineInductive
<1>2. TableTypes' /\ SessionsFollowPayload'
  BY <1>1, TablesStep
<1>3. StoreTypes'
  BY <1>1, StoresStep
<1>4. ProcessTypes'
  BY <1>1, StepsOfTheEvents
<1>5. RowsHaveSource' /\ RowAcceptedOnce'
  BY <1>1, RowsStep
<1>6. DecisionsAreAboutRejected'
  BY <1>1, DecisionsStep
<1>7. AttemptsFollowTables'
  BY <1>1, AttemptsStep
<1>8. ProcessFollowsTables'
  BY <1>1, ProcessStep
<1>9. ReleaseFollowsDecision'
  BY <1>1, ReleaseStep
<1>10. LogFollowsRevisions'
  BY <1>1, LogStep
<1>11. LossIsBounded'
  BY <1>1, LossStep
<1>. QED BY <1>2, <1>3, <1>4, <1>5, <1>6, <1>7, <1>8, <1>9, <1>10, <1>11
        DEF QuarantineInductive

\* Every state of the quarantine has the inductive invariant: the tables, the
\* repository, the log and what the process holds are in step, at every port call
\* and after every crash (runtime.py: _land_and_validate, _checkpoint_release).
THEOREM QuarantineAlways == Spec => []QuarantineInductive
<1>1. Init => QuarantineInductive
  BY QuarantineInitially
<1>2. QuarantineInductive /\ [Next]_vars => QuarantineInductive'
  BY QuarantineStep
<1>. QED BY <1>1, <1>2, PTL DEF Spec

\* No row of a delivery is accepted twice, by its delivery and by a release or by
\* two releases of it, however often a command is repeated after a crash
\* (duckdb_landing.py: finish_materialization, materialize_release).
THEOREM RowsAreAcceptedOnce == Spec => []RowAcceptedOnce
<1>1. QuarantineInductive => RowAcceptedOnce
  BY DEF QuarantineInductive
<1>. QED BY <1>1, QuarantineAlways, PTL

\* A checkpoint names a recorded decision and a release whose rows are in the
\* landing tables (runtime.py: _checkpoint_release).
THEOREM CheckpointsAreMaterialized == Spec => []CheckpointIsMaterialized
<1>1. QuarantineInductive => CheckpointIsMaterialized
  BY DEF QuarantineInductive, AttemptsFollowTables, AttemptFollowsTables, Recorded,
         CheckpointIsMaterialized
<1>. QED BY <1>1, QuarantineAlways, PTL

LEMMA DeliveriesAreWhole ==
    ASSUME TableTypes, SessionsFollowPayload, RowsHaveSource, NEW a, Closed(a)
    PROVE  /\ candidates[a] = Payload[a]
           /\ DOMAIN dispositions[a] = 0..(Len(Payload[a]) - 1)
           /\ \A n \in DOMAIN dispositions[a] :
                (Payload[a][n + 1] = "ok") <=>
                  \E i \in 1..Len(accepted) : accepted[i] = DeliveryRow(a, n)
<1>1. a \in DOMAIN sessions /\ sessions[a].closed /\ a \in DOMAIN candidates
  BY DEF Closed, SessionsFollowPayload
<1>2. sessions[a].next_frame_sequence = Len(Payload[a])
  BY <1>1 DEF SessionsFollowPayload
<1>3. /\ DOMAIN dispositions[a] = 0..(Len(Payload[a]) - 1)
      /\ \A n \in DOMAIN dispositions[a] : dispositions[a][n] = StatusOf(Payload[a][n + 1])
  BY <1>1, <1>2 DEF SessionsFollowPayload
<1>4. \A n \in DOMAIN dispositions[a] :
        dispositions[a][n] = "accepted" <=> Payload[a][n + 1] = "ok"
  BY <1>3 DEF StatusOf
<1>5. ASSUME NEW n \in DOMAIN dispositions[a], NEW i \in 1..Len(accepted),
             accepted[i] = DeliveryRow(a, n)
      PROVE  dispositions[a][n] = "accepted"
  <2>1. HasSource(accepted[i])
    BY DEF RowsHaveSource
  <2>2. PICK b \in DOMAIN sessions : \E m \in DOMAIN dispositions[b] :
          accepted[i] = IF dispositions[b][m] = "accepted" THEN DeliveryRow(b, m)
                        ELSE ReleaseRow(b, m)
    BY <2>1 DEF HasSource
  <2>3. PICK m \in DOMAIN dispositions[b] :
          accepted[i] = IF dispositions[b][m] = "accepted" THEN DeliveryRow(b, m)
                        ELSE ReleaseRow(b, m)
    BY <2>2
  <2>4. accepted[i].partition = <<"delivery", a>> /\ accepted[i].attempt = a
        /\ accepted[i].frame = n
    BY <1>5 DEF DeliveryRow
  <2>5. dispositions[b][m] = "accepted"
    <3>1. SUFFICES ASSUME dispositions[b][m] # "accepted" PROVE FALSE
      OBVIOUS
    <3>2. accepted[i].partition = <<"release", <<b, m>>>>
      BY <2>3, <3>1 DEF ReleaseRow
    <3>. QED BY <2>4, <3>2
  <2>6. b = a /\ m = n
    BY <2>3, <2>4, <2>5 DEF DeliveryRow
  <2>. QED BY <2>5, <2>6
<1>6. \A n \in DOMAIN dispositions[a] : dispositions[a][n] = "accepted" =>
        \E i \in 1..Len(accepted) : accepted[i] = DeliveryRow(a, n)
  BY <1>1 DEF RowsHaveSource
<1>7. candidates[a] = Payload[a]
  BY <1>1 DEF SessionsFollowPayload
<1>. QED BY <1>3, <1>4, <1>5, <1>6, <1>7

LEMMA QuarantineIsTyped ==
    ASSUME QuarantineInductive
    PROVE  QuarantineTypeOK
<1>1. /\ TableTypes /\ StoreTypes /\ ProcessTypes /\ SessionsFollowPayload
      /\ AttemptsFollowTables
  BY DEF QuarantineInductive
<1>2. TablesTypeOK
  <2>1. ASSUME NEW a \in DOMAIN dispositions, NEW n \in DOMAIN dispositions[a]
        PROVE  dispositions[a][n] \in Status
    <3>1. dispositions[a][n] = StatusOf(Payload[a][n + 1])
      BY <1>1 DEF SessionsFollowPayload
    <3>. QED BY <3>1 DEF StatusOf, Status
  <2>. QED BY <1>1, <2>1 DEF TableTypes, TablesTypeOK
<1>3. \A a \in Attempts : checkpoint[a] = NoIdentity \/ checkpoint[a].kind = "released"
  BY <1>1 DEF AttemptsFollowTables, AttemptFollowsTables
<1>4. /\ pc # "idle" => work.attempt \in Attempts
      /\ work.left \subseteq Nat
  BY <1>1 DEF ProcessTypes
<1>. QED BY <1>1, <1>2, <1>3, <1>4 DEF QuarantineTypeOK, StoreTypes

\* A delivery that reached validation was landed whole, a committed one left no
\* rejected row without its evaluation, and the log has no gap, whatever the pages
\* and the chunks and wherever the process dies
\* (runtime.py: _prepare, _materialize, _commit; duckdb_lifecycle.py: project_events).
THEOREM QuarantineIsInvariant == Spec => []QuarantineInvariant
<1>1. QuarantineInductive => QuarantineInvariant
  <2> SUFFICES ASSUME QuarantineInductive PROVE QuarantineInvariant
    OBVIOUS
  <2>1. /\ TableTypes /\ StoreTypes /\ SessionsFollowPayload /\ RowsHaveSource
        /\ AttemptsFollowTables /\ LogFollowsRevisions
    BY DEF QuarantineInductive
  <2>2. LandedWhole
    <3> SUFFICES ASSUME NEW a \in Attempts,
                        attempt[a] \in {"validating", "committing", "committed"}
                 PROVE  /\ candidates[a] = Payload[a]
                        /\ DOMAIN dispositions[a] = 0..(Len(Payload[a]) - 1)
                        /\ \A n \in DOMAIN dispositions[a] :
                             (Payload[a][n + 1] = "ok") <=>
                               \E i \in 1..Len(accepted) :
                                 accepted[i] = [partition |-> <<"delivery", a>>,
                                                attempt |-> a, frame |-> n]
      BY DEF LandedWhole
    <3>1. Closed(a)
      BY <2>1 DEF AttemptsFollowTables, AttemptFollowsTables
    <3>. QED BY <2>1, <3>1, DeliveriesAreWhole DEF DeliveryRow
  <2>3. CommittedIsEvaluated
    <3> SUFFICES ASSUME NEW a \in Attempts, attempt[a] \in {"committing", "committed"},
                        NEW n \in Rejected(a)
                 PROVE  EvaluationFor(<<a, n>>) # {}
      BY DEF CommittedIsEvaluated
    <3>1. Evaluation(a, n)
      BY <2>1 DEF AttemptsFollowTables, AttemptFollowsTables
    <3>. QED BY <2>1, <3>1, EvaluationIsFound
  <2>4. LogIsGapFree
    BY <2>1 DEF LogFollowsRevisions
  <2>. QED BY <2>2, <2>3, <2>4, QuarantineIsTyped DEF QuarantineInvariant
<1>. QED BY <1>1, QuarantineAlways, PTL

\* No more envelopes are missing from the log than processes died, beside the one
\* that is about to be sent: a revision without an envelope costs no later one its
\* place (runtime.py: _transition, _emit_lifecycle; duckdb_lifecycle.py:
\* project_events).
THEOREM EventsAreLostOnlyByCrash == Spec => []EventsLostOnlyByCrash
<1>1. QuarantineInductive => EventsLostOnlyByCrash
  <2> SUFFICES ASSUME QuarantineInductive PROVE EventsLostOnlyByCrash
    OBVIOUS
  <2> DEFINE missing == {e \in owed : ~Stored(e)}
  <2>1. /\ IsFiniteSet(owed) /\ Cardinality(Lost) <= crashes /\ crashes \in Nat
    BY DEF QuarantineInductive, LossIsBounded, StoreTypes
  <2>2. IsFiniteSet(Lost) /\ IsFiniteSet(missing)
    <3>1. Lost \subseteq owed /\ missing \subseteq owed
      BY DEF Lost
    <3>. QED BY <2>1, <3>1, FS_Subset
  <2>3. Cardinality(Lost) \in Nat /\ Cardinality(missing) \in Nat
    BY <2>2, FS_CardinalityType
  <2>4. CASE pc # "emit"
    <3>1. missing = Lost
      BY <2>4 DEF Lost
    <3>. QED BY <2>1, <2>3, <2>4, <3>1 DEF EventsLostOnlyByCrash
  <2>5. CASE pc = "emit"
    <3>1. PICK S : S = Lost
      OBVIOUS
    <3>2. /\ IsFiniteSet(S \cup {work.event})
          /\ Cardinality(S \cup {work.event}) = Cardinality(S)
             \/ Cardinality(S \cup {work.event}) = Cardinality(S) + 1
      BY <2>2, <3>1, FS_AddElement
    <3>3. missing \subseteq S \cup {work.event}
      BY <2>5, <3>1 DEF Lost
    <3>4. Cardinality(missing) <= Cardinality(S \cup {work.event})
      BY <3>2, <3>3, FS_Subset
    <3>5. Cardinality(missing) <= crashes + 1
      BY <2>1, <2>3, <3>1, <3>2, <3>4
    <3>. QED BY <2>5, <3>5 DEF EventsLostOnlyByCrash
  <2>. QED BY <2>4, <2>5
<1>. QED BY <1>1, QuarantineAlways, PTL
=============================================================================
