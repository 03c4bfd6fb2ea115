--------------------------- MODULE MCLandingRuntime ---------------------------
(* Instances of LandingRuntime for TLC. *)
EXTENDS LandingRuntime, TLC

CONSTANTS c1, c2, k1, s1, s2, o1, o2

\* Two deliveries, and two claims over one delivery.
DistinctDeliveries == [c \in Claims |-> c]
SameDelivery == [c \in Claims |-> c1]

\* One lease owner for every session, and one for each.
OneOwner == [s \in Sessions |-> o1]
OwnOwner == [s \in Sessions |-> IF s = s1 THEN o1 ELSE o2]

\* Two deliveries are interchangeable.
ClaimSymmetry == Permutations(Claims)

\* So are two claims over one delivery, and two sessions when each takes its
\* lease owner along.
SessionSymmetry ==
    {claims @@ sessions :
       claims \in Permutations(Claims),
       sessions \in {<<>>, (s1 :> s2) @@ (s2 :> s1) @@ (o1 :> o2) @@ (o2 :> o1)}}

=============================================================================
