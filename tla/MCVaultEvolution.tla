-------------------------- MODULE MCVaultEvolution --------------------------
(* Instances of VaultEvolution for TLC. *)
EXTENDS VaultEvolution, TLC

CONSTANTS detail, nothing, a, b

Section(kind, payload, exclusions, type) ==
    [kind |-> kind, change_column |-> "changed_on", payload |-> payload,
     exclusions |-> exclusions, types |-> [c \in ToSet(payload) |-> type]]

\* One column, an extension with and without an exclusion, a removal, another
\* kind and another type.
SectionsOfASatellite ==
    {Section("current", <<a>>, {}, "string"),
     Section("current", <<a, b>>, {}, "string"),
     Section("current", <<a, b>>, {b}, "string"),
     Section("history", <<a>>, {}, "string"),
     Section("current", <<b>>, {}, "int64")}
=============================================================================
