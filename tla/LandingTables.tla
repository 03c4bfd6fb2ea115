---------------------------- MODULE LandingTables ----------------------------
(***************************************************************************)
(* The landing side of the DuckDB file: the preparations, candidate frames, *)
(* dispositions and accepted partitions the landing adapter writes          *)
(* (ergasterion/ingestion/duckdb_landing.py).                               *)
(*                                                                         *)
(* One attempt prepares one raw receipt, so a preparation, its candidate    *)
(* partition and its materialization session are named by the attempt.      *)
(* Frames are numbered from 0.  A frame is "ok", "bad" (it is typed and has *)
(* a finding) or "broken" (it has a finding and no typed fields); a raw     *)
(* payload is the sequence of its frames, one byte each, or Undecodable.    *)
(***************************************************************************)
EXTENDS Naturals, Sequences, FiniteSets

CONSTANTS
    Attempts,      \* the attempts, one per raw receipt
    Payload,       \* the frames of each attempt's receipt, or Undecodable
    Undecodable,   \* a payload no codec reads
    FramePage      \* max_frames of one CandidateReadQuery

VARIABLES
    preparations,  \* attempt -> [raw, next_offset, closed], once begun
    candidates,    \* attempt -> its candidate frames, once prepared
    sessions,      \* attempt -> [next_frame_sequence, closed], once begun
    dispositions,  \* attempt -> frame -> "accepted" or "rejected"
    accepted       \* the accepted rows in the order they were inserted

tableVars == <<preparations, candidates, sessions, dispositions, accepted>>

Frame == {"ok", "bad", "broken"}
Status == {"accepted", "rejected"}

ASSUME TablesAssumption ==
    /\ Payload \in [Attempts -> Seq(Frame) \cup {Undecodable}]
    /\ FramePage \in Nat \ {0}

Bytes(a) == IF Payload[a] = Undecodable THEN 1 ELSE Len(Payload[a])

\* f with a value for x, whether or not x was in its domain.
With(f, x, v) == [y \in DOMAIN f \cup {x} |-> IF y = x THEN v ELSE f[y]]

Nothing == [x \in {} |-> x]

TablesInit ==
    /\ preparations = Nothing
    /\ candidates = Nothing
    /\ sessions = Nothing
    /\ dispositions = Nothing
    /\ accepted = <<>>

-----------------------------------------------------------------------------
(* Preparation *)

\* begin_prepare: a preparation that exists is handed back as it is.
BeginPrepare(a) ==
    /\ preparations' =
         IF a \in DOMAIN preparations THEN preparations
         ELSE With(preparations, a,
                   [raw |-> 0, next_offset |-> 0, closed |-> FALSE])
    /\ UNCHANGED <<candidates, sessions, dispositions, accepted>>

CanAppendRaw(a, offset) ==
    /\ a \in DOMAIN preparations
    /\ ~preparations[a].closed
    /\ offset = preparations[a].next_offset

\* append_raw of the page that starts at offset; eof closes the preparation.
AppendRaw(a, offset, length, eof) ==
    /\ CanAppendRaw(a, offset)
    /\ preparations' = [preparations EXCEPT ![a] =
         [raw |-> @.raw + length, next_offset |-> offset + length,
          closed |-> eof]]
    /\ UNCHANGED <<candidates, sessions, dispositions, accepted>>

\* The frames the bytes of a preparation hold: only what was appended is read.
Frames(a) == SubSeq(Payload[a], 1, preparations[a].raw)

Decodes(a) == Payload[a] # Undecodable

\* finish_prepare inserts the candidate partition and its frames in one
\* transaction, once.
FinishPrepare(a) ==
    /\ a \in DOMAIN preparations
    /\ Decodes(a)
    /\ candidates' =
         IF a \in DOMAIN candidates THEN candidates
         ELSE With(candidates, a, Frames(a))
    /\ UNCHANGED <<preparations, sessions, dispositions, accepted>>

-----------------------------------------------------------------------------
(* Materialization *)

\* begin_materialization: a session that exists is handed back.
BeginMaterialization(a) ==
    /\ sessions' =
         IF a \in DOMAIN sessions THEN sessions
         ELSE With(sessions, a, [next_frame_sequence |-> 0, closed |-> FALSE])
    /\ dispositions' =
         IF a \in DOMAIN dispositions THEN dispositions
         ELSE With(dispositions, a, Nothing)
    /\ UNCHANGED <<preparations, candidates, accepted>>

\* read_candidate: the frames after the cursor, at most a page of them.
ReadCandidate(a, after) ==
    {n \in 0..(Len(candidates[a]) - 1) : n > after /\ n <= after + FramePage}

\* Mutant of MoreCandidates: the last frame is never on a page of its own.
MoreThanOne(a, after) == after + FramePage + 1 < Len(candidates[a]) - 1

MoreCandidates(a, after) == after + FramePage < Len(candidates[a]) - 1

StatusOf(frame) == IF frame = "ok" THEN "accepted" ELSE "rejected"

First(page) == CHOOSE n \in page : \A m \in page : n <= m
Last(page) == CHOOSE n \in page : \A m \in page : m <= n

CanAppendDispositions(a, page) ==
    /\ a \in DOMAIN sessions
    /\ ~sessions[a].closed
    /\ First(page) = sessions[a].next_frame_sequence

\* append_dispositions: the page must start where the session stands.
AppendDispositions(a, page) ==
    /\ CanAppendDispositions(a, page)
    /\ dispositions' = [dispositions EXCEPT ![a] =
         [n \in DOMAIN @ \cup page |->
            IF n \in DOMAIN @ THEN @[n] ELSE StatusOf(candidates[a][n + 1])]]
    /\ sessions' = [sessions EXCEPT ![a].next_frame_sequence = Last(page) + 1]
    /\ UNCHANGED <<preparations, candidates, accepted>>

\* The i-th frame of a set of them, in their order: i - 1 of the set are before it.
FrameAt(frames, i) ==
    CHOOSE n \in frames : Cardinality({m \in frames : m < n}) = i - 1

\* A row for each of the frames, in their order.
Rows(partition, a, frames) ==
    [i \in 1..Cardinality(frames) |->
       [partition |-> partition, attempt |-> a, frame |-> FrameAt(frames, i)]]

Partitions == {accepted[i].partition : i \in 1..Len(accepted)}

\* finish_materialization: the accepted dispositions that have typed fields
\* become rows of the delivery's partition, and the session closes.
FinishMaterialization(a) ==
    /\ a \in DOMAIN sessions
    /\ ~sessions[a].closed
    /\ accepted' = accepted \o Rows(<<"delivery", a>>, a,
         {n \in DOMAIN dispositions[a] :
            /\ dispositions[a][n] = "accepted"
            /\ candidates[a][n + 1] # "broken"})
    /\ sessions' = [sessions EXCEPT ![a].closed = TRUE]
    /\ UNCHANGED <<preparations, candidates, dispositions>>

-----------------------------------------------------------------------------
(* Release *)

\* Every selected frame is a candidate with typed fields.
CanMaterializeRelease(a, frames) ==
    \A n \in frames : /\ n + 1 \in 1..Len(candidates[a])
                      /\ candidates[a][n + 1] # "broken"

\* Mutant of MaterializeRelease: no look at the partitions that exist.
MaterializeReleaseAgain(release, a, frames) ==
    /\ CanMaterializeRelease(a, frames)
    /\ accepted' = accepted \o Rows(<<"release", release>>, a, frames)
    /\ UNCHANGED <<preparations, candidates, sessions, dispositions>>

\* materialize_release: the partition of a release is written once; a repeat
\* hands it back.
MaterializeRelease(release, a, frames) ==
    /\ \/ <<"release", release>> \in Partitions
       \/ CanMaterializeRelease(a, frames)
    /\ accepted' =
         IF <<"release", release>> \in Partitions THEN accepted
         ELSE accepted \o Rows(<<"release", release>>, a, frames)
    /\ UNCHANGED <<preparations, candidates, sessions, dispositions>>

TablesTypeOK ==
    /\ \A a \in DOMAIN preparations :
         preparations[a] \in [raw : Nat, next_offset : Nat, closed : BOOLEAN]
    /\ DOMAIN candidates \subseteq Attempts
    /\ \A a \in DOMAIN candidates : candidates[a] \in Seq(Frame)
    /\ \A a \in DOMAIN sessions :
         sessions[a] \in [next_frame_sequence : Nat, closed : BOOLEAN]
    /\ \A a \in DOMAIN dispositions :
         \A n \in DOMAIN dispositions[a] : dispositions[a][n] \in Status
=============================================================================
