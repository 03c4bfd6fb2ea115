---------------------------- MODULE PublicationLog ----------------------------
(***************************************************************************)
(* What a landing stream promises to those who read it: an append-only log  *)
(* of projections, each with the next revision and each delivery claim in   *)
(* it once; a published prefix of that log that grows by one projection at  *)
(* a time; and acknowledgements, only of what is published.                 *)
(***************************************************************************)
EXTENDS Integers, Sequences

CONSTANT None   \* the claim of a projection that publishes no delivery

VARIABLES
    log,            \* the projections reserved
    published,      \* the projections readers see
    acknowledged    \* the revisions the stream knows to be published

abstractVars == <<log, published, acknowledged>>

LogInit ==
    /\ log = <<>>
    /\ published = <<>>
    /\ acknowledged = {}

\* The projection at the end of the new log is the one reserved.
Reserve ==
    LET p == log'[Len(log) + 1] IN
    /\ Len(log') = Len(log) + 1
    /\ log' = Append(log, p)
    /\ p.projection_revision = Len(log) + 1
    /\ \A r \in 1..Len(log) : p.claim # None => log[r].claim # p.claim
    /\ UNCHANGED <<published, acknowledged>>

Publish ==
    /\ Len(published) < Len(log)
    /\ published' = Append(published, log[Len(published) + 1])
    /\ UNCHANGED <<log, acknowledged>>

Acknowledge(r) ==
    /\ r \in 1..Len(published)
    /\ acknowledged' = acknowledged \cup {r}
    /\ UNCHANGED <<log, published>>

LogNext ==
    \/ Reserve
    \/ Publish
    \/ \E r \in 1..Len(published) : Acknowledge(r)

LogSpec == LogInit /\ [][LogNext]_abstractVars

=============================================================================
