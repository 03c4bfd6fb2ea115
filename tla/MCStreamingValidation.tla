---- MODULE MCStreamingValidation ----
(* Instances of StreamingValidation for TLC. *)
EXTENDS StreamingValidation

CONSTANTS e1, e2

\* Two unique keys, one of them a warning, a field rule of each kind and a
\* bound on the rows.
MCRules ==
    << [kind |-> "unique_key", fields |-> <<"k">>, severity |-> "error"],
       [kind |-> "unique_key", fields |-> <<"k", "x">>, severity |-> "warn"],
       [kind |-> "not_null", field |-> "k", severity |-> "warn"],
       [kind |-> "accepted_values", field |-> "x", values |-> {1, 2, 3},
        nullable |-> TRUE, allow_null |-> FALSE, severity |-> "warn"],
       [kind |-> "range", field |-> "x", min |-> 1, max |-> 2,
        nullable |-> TRUE, allow_null |-> TRUE, severity |-> "error"],
       [kind |-> "row_count", min |-> 1, max |-> 8, severity |-> "error"] >>

Parsed(k, x) == [size |-> 2, parsed |-> TRUE, values |-> [k |-> k, x |-> x]]
Unparsed == [size |-> 2, parsed |-> FALSE, values |-> [k |-> Null, x |-> Null]]

MCFrameKinds == {Parsed(1, 1), Parsed(2, 1), Parsed(1, 2), Parsed(Null, 3), Unparsed}

MCPolicies ==
    { [mode |-> "publish_valid_rows", fraction |-> 50,
       delivery |-> "append_only", progress |-> "opaque_batch"],
      [mode |-> "all_or_nothing", fraction |-> 0,
       delivery |-> "complete_snapshot", progress |-> "opaque_batch"] }
====
