---- MODULE MCQuarantine ----
(* Instances of Quarantine for TLC. *)
EXTENDS Quarantine

CONSTANTS a1, a2, a3

\* A delivery of each kind: rows of every kind, no rows, and no codec reads it.
MixedPayloads ==
    [a \in Attempts |->
       CASE a = a1 -> <<"ok", "bad", "broken">>
         [] a = a2 -> <<>>
         [] OTHER  -> Undecodable]

====
