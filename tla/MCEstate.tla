------------------------------ MODULE MCEstate ------------------------------
(***************************************************************************)
(* One estate for TLC: the passes of emit-products over its trees, and the *)
(* activation of the contracts of one landing table.  The two machines     *)
(* share no variable and every property speaks of one of them, so each     *)
(* moves while the other rests and their states add up instead of          *)
(* multiplying.                                                            *)
(***************************************************************************)
EXTENDS MCContractRegistry, Emission

CONSTANTS p, q, two, bad, wide, dev, prod, none, edited

\* A text whose product has a private relation beside the one it publishes, a
\* text every emitter refuses, a text whose models break a budget.
TheRelations == [t \in {two, bad, wide} |-> {"main"}]
ThePrivate == [t \in {two, bad, wide} |-> IF t = two THEN {"step"} ELSE {}]
TheRefusals ==
    [stage \in {"models", "read_contracts", "read_descriptors", "read_graph"} |-> {bad}]

-----------------------------------------------------------------------------

InitEstate == Init /\ InitEmission

RegistryAtRest == Init
EmissionAtRest == Declared(estate) = {} /\ \A bound \in DOMAIN spent : spent[bound] = 0

NextEstate ==
    \/ EmissionAtRest /\ Next /\ UNCHANGED emissionVars
    \/ RegistryAtRest /\ NextEmission /\ UNCHANGED vars

SpecEstate == InitEstate /\ [][NextEstate]_<<vars, emissionVars>>
=============================================================================
