-------------------------- MODULE MCContractRegistry --------------------------
(* Instances of ContractRegistry for TLC. *)
EXTENDS ContractRegistry, TLC

CONSTANTS o1, o2, noContract, noSnapshot

Column(type, nullable) == [type |-> type, nullable |-> nullable]
Published(source, type, nullable) ==
    [source |-> source, type |-> type, nullable |-> nullable]

First ==
    [identity |-> "table", version |-> <<1, 0, 0>>, domain |-> "d",
     coordinates |-> "c", codec |-> "csv", encodings |-> {"identity"},
     mode |-> "append_only", progress |-> "sequence", timestamps |-> "load",
     record_key |-> <<"k">>, delete_strategy |-> "none", tombstone |-> "none",
     schedule |-> "daily", facts |-> "f", quality |-> "q", rest |-> "r",
     integration |-> [kind |-> "managed", references |-> {}, trust |-> {}],
     snapshot |-> noSnapshot,
     columns |-> ("k" :> Column("int64", FALSE)),
     projection |-> ("k" :> Published("k", "int64", FALSE))]

External == [kind |-> "external", references |-> {"epoch"}, trust |-> {"key1"}]

WithColumn(c, name, nullable) ==
    [c EXCEPT !.columns = @ @@ (name :> Column("string", nullable))]
WithPublished(c, name, nullable) ==
    [c EXCEPT !.projection = @ @@ (name :> Published("b", "string", nullable))]

At(c, version) == [c EXCEPT !.version = version]

\* The contracts of two operators: additions, a description, a removal that
\* takes them back, a required column under two versions, a table of another
\* name, and an external integration that later trusts another key.
ContractsOfTheTable ==
    {First,
     At([First EXCEPT !.rest = "words"], <<1, 0, 1>>),
     At(WithColumn(First, "b", TRUE), <<1, 1, 0>>),
     At(WithPublished(WithColumn(First, "b", TRUE), "b", TRUE), <<1, 2, 0>>),
     At(First, <<1, 3, 0>>),
     At(WithColumn(First, "b", FALSE), <<1, 3, 1>>),
     At(WithColumn(First, "b", FALSE), <<2, 0, 0>>),
     At([First EXCEPT !.identity = "other"], <<1, 0, 2>>),
     At([First EXCEPT !.integration = External], <<2, 1, 0>>),
     At([First EXCEPT !.integration = [External EXCEPT !.trust = {"key2"}]],
        <<2, 2, 0>>)}
=============================================================================
