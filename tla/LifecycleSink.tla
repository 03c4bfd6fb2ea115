---------------------------- MODULE LifecycleSink ----------------------------
(***************************************************************************)
(* The lifecycle log of one stream: the DuckDB sink                         *)
(* (ergasterion/ingestion/duckdb_lifecycle.py) behind the wrapper of the     *)
(* local platform that numbers the envelopes                                *)
(* (ergasterion/ingestion/reference_runtime.py).                            *)
(*                                                                         *)
(* An event is named by its attempt, its type and the state revision it was *)
(* made at; one name has one payload.                                       *)
(***************************************************************************)
EXTENDS Naturals, Sequences

VARIABLE events    \* the stored envelopes in insertion order

SinkInit == events = <<>>

Stored(event) == \E i \in 1..Len(events) : events[i].event = event

\* _envelopes_last: the highest ordinal of the stream, 0 when it has none.
EnvelopesLast == IF events = <<>> THEN 0 ELSE events[Len(events)].ordinal

\* _GapFreeLifecycleSink numbers an event after the last stored envelope.
NextOrdinal(event) == EnvelopesLast + 1

\* The sink refuses an ordinal that leaves a gap.
SinkAccepts(ordinal) ==
    events = <<>> \/ ordinal \in {EnvelopesLast, EnvelopesLast + 1}

\* Mutant of ProjectEvents: a gap in the revisions is taken for a gap.
ProjectConsecutive(event) ==
    events' =
      IF \/ Stored(event)
         \/ events # <<>> /\ event.revision > events[Len(events)].event.revision + 1
      THEN events
      ELSE Append(events, [event |-> event, ordinal |-> NextOrdinal(event)])

\* project_events of one event: stored once, refused when it leaves a gap.
ProjectEvents(event) ==
    events' =
      IF Stored(event) \/ ~SinkAccepts(NextOrdinal(event)) THEN events
      ELSE Append(events, [event |-> event, ordinal |-> NextOrdinal(event)])

AttemptTypes ==
    {"received", "preparing", "validating", "materializing", "committing",
     "committed", "failed"}

\* The log reads in the order it was written: the order of evidence_query by
\* revision and ordinal is the order of insertion, with no ordinal missing.
LogIsGapFree ==
    /\ \A i \in 1..Len(events) : events[i].ordinal = i
    /\ \A i \in 1..(Len(events) - 1) :
         events[i].event.revision <= events[i + 1].event.revision
=============================================================================
