------------------------------ MODULE Emission ------------------------------
(***************************************************************************)
(* ergasterion emit-products over the estate's generated trees: models,    *)
(* manifests and shape ledgers, the structural gate, then the contract,    *)
(* descriptor and product-graph emitters, each of which reads the          *)
(* declarations again.  A pass writes or only checks; it may die between   *)
(* two files, and a person may edit the declarations or a file meanwhile.  *)
(*                                                                         *)
(* The text of an artefact is abstracted to what it was generated from:    *)
(* the declaration of its product, the whole estate's declarations for the *)
(* graph, the runtime binding for a landing projection.                    *)
(***************************************************************************)
EXTENDS Naturals

CONSTANTS
    Products,       \* the products an estate may declare
    Texts,          \* the declarations of one product, as texts
    Bindings,       \* the runtime bindings a pass may be given
    Relations,      \* [Texts -> the relations the product publishes]
    Private,        \* [Texts -> its translator-private relations]
    Ledgered,       \* the texts whose shape keeps a ledger
    Refuses,        \* the texts each emitter refuses when it reads them
    OverBudget,     \* the texts whose models break a structural budget
    Lands,          \* whether a production landing contract is declared
    Absent,         \* no declaration, no file, no binding
    Edited,         \* the content of a file a person changed
    MaxChanges,     \* bound: the edits a person makes
    MaxPasses,      \* bound: the passes started
    MaxDeaths       \* bound: the passes that die

\* Products, bindings and texts are things of different sorts, and none of them
\* is the absence of one.
ASSUME EmissionParameters ==
    /\ Products \cap Bindings = {}
    /\ Absent \notin Products \cup Bindings \cup Texts \cup {Edited}
    /\ Absent \notin [Products -> Texts \cup {Absent}]
    /\ {MaxChanges, MaxPasses, MaxDeaths} \subseteq Nat

VARIABLES
    estate,     \* the text each product is declared by
    disk,       \* the content of every artefact path
    pass,       \* the running pass
    report,     \* what the last pass said: nothing, clean, stale or failed
    spent       \* bound: the edits, passes and deaths so far

emissionVars == <<estate, disk, pass, report, spent>>

-----------------------------------------------------------------------------
(* Artefacts and their writers *)

File(directory, kind, of, part) ==
    [directory |-> directory, kind |-> kind, of |-> of, part |-> part]

\* Each writer prunes the kinds it writes under its directory; the ledgers
\* are never pruned.
DirectoryOf ==
    [models |-> "models", manifests |-> "manifests", ledgers |-> "root",
     landing_contracts |-> "landing", contracts |-> "contracts",
     landing_descriptors |-> "landing", descriptors |-> "contracts",
     graph |-> "graphs"]

PatternsOf ==
    [models |-> {"sql", "yml"}, manifests |-> {"json"}, ledgers |-> {},
     landing_contracts |-> {"odcs"}, contracts |-> {"odcs", "contract"},
     landing_descriptors |-> {"odps"}, descriptors |-> {"odps"},
     graph |-> {"product"}]

Writers == DOMAIN DirectoryOf

Declared(e) == {p \in Products : e[p] # Absent}

ModelFiles(p, text) ==
    {File("models", "sql", p, r) : r \in Relations[text] \cup Private[text]}
        \cup {File("models", "yml", p, "schema")}
ContractFiles(p, text) ==
    {File("contracts", "odcs", p, r) : r \in Relations[text]}
        \cup {File("contracts", "contract", p, "contract")}
ManifestFile(p) == File("manifests", "json", p, "manifest")
LedgerFile(p) == File("root", "ledger", p, "ledger")
DescriptorFile(p) == File("contracts", "odps", p, "descriptor")
LandingFile(kind, binding) == File("landing", kind, binding, "landing")
GraphFile == File("graphs", "product", Absent, "graph")

ProductFiles(w, p, text) ==
    CASE w = "models" -> ModelFiles(p, text)
      [] w = "manifests" -> {ManifestFile(p)}
      [] w = "ledgers" -> IF text \in Ledgered THEN {LedgerFile(p)} ELSE {}
      [] w = "contracts" -> ContractFiles(p, text)
      [] w = "descriptors" -> {DescriptorFile(p)}
      [] OTHER -> {}

LandingFiles(w, binding) ==
    IF ~ Lands THEN {}
    ELSE CASE w = "landing_contracts" -> {LandingFile("odcs", binding)}
           [] w = "landing_descriptors" -> {LandingFile("odps", binding)}
           [] OTHER -> {}

\* The files a writer generates, and what each one is generated from.
Files(w, e, binding) ==
    (UNION {ProductFiles(w, p, e[p]) : p \in Declared(e)})
        \cup LandingFiles(w, binding)
        \cup (IF w = "graph" /\ Declared(e) # {} THEN {GraphFile} ELSE {})

Text(file, e) ==
    IF file = GraphFile THEN e
    ELSE IF file.of \in Products THEN e[file.of] ELSE file.of

Paths ==
    (UNION {ProductFiles(w, p, text) : w \in Writers, p \in Products, text \in Texts})
        \cup (UNION {LandingFiles(w, binding) : w \in Writers, binding \in Bindings})
        \cup {GraphFile}

OnDisk == {file \in Paths : disk[file] # Absent}

\* The files on disk a writer would prune.
Orphans(w, e, binding) ==
    {file \in OnDisk :
        /\ file.directory = DirectoryOf[w]
        /\ file.kind \in PatternsOf[w]
        /\ file \notin Files(w, e, binding)}

\* A mutant: the check looks at the generated files only.
MatchesFiles(w, e, binding) ==
    \A file \in Files(w, e, binding) : disk[file] = Text(file, e)

\* check_generated_files: nothing missing, nothing drifted, no orphan.
Matches(w, e, binding) ==
    /\ \A file \in Files(w, e, binding) : disk[file] = Text(file, e)
    /\ Orphans(w, e, binding) = {}

\* write_generated_files
Written(pruned, files, e) ==
    [file \in Paths |->
        IF file \in files THEN Text(file, e)
        ELSE IF file \in pruned THEN Absent ELSE disk[file]]

-----------------------------------------------------------------------------
(* A pass *)

Idle == [stage |-> "idle"]

\* A mutant: the gate runs over the contracts too, at the end.
AfterContracts ==
    [models |-> "manifests", manifests |-> "ledgers", ledgers |-> "read_contracts",
     gate |-> "done", read_contracts |-> "landing_contracts",
     landing_contracts |-> "contracts", contracts |-> "read_descriptors",
     read_descriptors |-> "landing_descriptors",
     landing_descriptors |-> "descriptors", descriptors |-> "read_graph",
     read_graph |-> "graph", graph |-> "gate"]

\* What follows a stage that went through.  The three later emitters open by
\* reading the declarations again.
After ==
    [models |-> "manifests", manifests |-> "ledgers", ledgers |-> "gate",
     gate |-> "read_contracts", read_contracts |-> "landing_contracts",
     landing_contracts |-> "contracts", contracts |-> "read_descriptors",
     read_descriptors |-> "landing_descriptors",
     landing_descriptors |-> "descriptors", descriptors |-> "read_graph",
     read_graph |-> "graph", graph |-> "done"]

\* generate() plans, routes, renders and gates what the later emitters only
\* validate and resolve.
Accepts(stage, e) == \A p \in Declared(e) : e[p] \notin Refuses[stage]

InitEmission ==
    /\ estate \in [Products -> Texts \cup {Absent}]
    /\ disk = [file \in Paths |-> Absent]
    /\ pass = Idle
    /\ report = "nothing"
    /\ spent = [edits |-> 0, passes |-> 0, deaths |-> 0]

Fail == pass' = Idle /\ report' = "failed"

Finish ==
    /\ pass' = Idle
    /\ report' = IF pass.disturbed THEN "stale" ELSE "clean"

Advance(read) ==
    IF After[pass.stage] = "done" THEN Finish
    ELSE /\ pass' = [pass EXCEPT !.stage = After[pass.stage], !.read = read]
         /\ UNCHANGED report

\* generate(): everything is validated, planned, routed, rendered and gated
\* as text before the first write.
Begin ==
    /\ pass = Idle
    /\ spent.passes < MaxPasses
    /\ spent' = [spent EXCEPT !.passes = @ + 1]
    /\ IF Accepts("models", estate)
       THEN \E mode \in {"write", "check"}, binding \in Bindings \cup {Absent} :
                /\ pass' = [stage |-> "models", mode |-> mode, read |-> estate,
                            binding |-> binding, disturbed |-> FALSE]
                /\ report' = "nothing"
       ELSE Fail
    /\ UNCHANGED <<estate, disk>>

Writing == pass # Idle /\ pass.mode = "write" /\ pass.stage \in Writers

WriteTree ==
    /\ Writing
    /\ disk' = Written(Orphans(pass.stage, pass.read, pass.binding),
                       Files(pass.stage, pass.read, pass.binding), pass.read)
    /\ Advance(pass.read)
    /\ UNCHANGED <<estate, spent>>

\* One emitter's trees are checked together; every divergence of any of them
\* ends the pass.
CheckTree ==
    /\ pass # Idle
    /\ pass.mode = "check"
    /\ pass.stage \in Writers
    /\ IF Matches(pass.stage, pass.read, pass.binding)
       THEN Advance(pass.read) ELSE Fail
    /\ UNCHANGED <<estate, disk, spent>>

\* The models on disk that break a budget, whoever put them there.
Offenders == {file \in OnDisk : file.kind = "sql" /\ disk[file] \in OverBudget}

StructuralGate ==
    /\ pass # Idle
    /\ pass.stage = "gate"
    /\ IF Offenders = {} THEN Advance(pass.read) ELSE Fail
    /\ UNCHANGED <<estate, disk, spent>>

\* The contract and descriptor emitters resolve the declarations again, and a
\* landing projection needs the binding.
ReadAgain ==
    IF Accepts(pass.stage, estate) /\ (~ Lands \/ pass.binding # Absent)
    THEN Advance(estate) ELSE Fail

ReadForContracts ==
    /\ pass # Idle
    /\ pass.stage = "read_contracts"
    /\ ReadAgain
    /\ UNCHANGED <<estate, disk, spent>>

ReadForDescriptors ==
    /\ pass # Idle
    /\ pass.stage = "read_descriptors"
    /\ ReadAgain
    /\ UNCHANGED <<estate, disk, spent>>

\* The graph of an estate that declares no product is reported as clean
\* without a look at the disk.
ReadForGraph ==
    /\ pass # Idle
    /\ pass.stage = "read_graph"
    /\ CASE ~ Accepts(pass.stage, estate) -> Fail
         [] Accepts(pass.stage, estate) /\ Declared(estate) = {} -> Finish
         [] OTHER -> Advance(estate)
    /\ UNCHANGED <<estate, disk, spent>>

\* The process dies in the middle of one tree: some of the orphans are gone
\* and nothing is written yet, or all are gone and some files are written.
Die ==
    /\ Writing
    /\ spent.deaths < MaxDeaths
    /\ spent' = [spent EXCEPT !.deaths = @ + 1]
    /\ LET orphans == Orphans(pass.stage, pass.read, pass.binding)
           files == Files(pass.stage, pass.read, pass.binding)
       IN  \/ \E pruned \in SUBSET orphans :
                  disk' = Written(pruned, {}, pass.read)
           \/ \E written \in SUBSET files :
                  disk' = Written(orphans, written, pass.read)
    /\ pass' = Idle
    /\ report' = "nothing"
    /\ UNCHANGED estate

-----------------------------------------------------------------------------
(* The people around it *)

Disturb ==
    /\ spent.edits < MaxChanges
    /\ spent' = [spent EXCEPT !.edits = @ + 1]
    /\ report' = "nothing"
    /\ pass' = IF pass = Idle THEN pass ELSE [pass EXCEPT !.disturbed = TRUE]

EditProduct(p) ==
    /\ Disturb
    /\ \E text \in (Texts \cup {Absent}) \ {estate[p]} :
           estate' = [estate EXCEPT ![p] = text]
    /\ UNCHANGED disk

EditFile(file) ==
    /\ disk[file] \notin {Absent, Edited}
    /\ Disturb
    /\ \E content \in {Absent, Edited} :
           disk' = [disk EXCEPT ![file] = content]
    /\ UNCHANGED estate

NextEmission ==
    \/ Begin
    \/ WriteTree
    \/ CheckTree
    \/ StructuralGate
    \/ ReadForContracts
    \/ ReadForDescriptors
    \/ ReadForGraph
    \/ Die
    \/ \E p \in Products : EditProduct(p)
    \/ \E file \in Paths : EditFile(file)

SpecEmission == InitEmission /\ [][NextEmission]_emissionVars

-----------------------------------------------------------------------------
(* Properties *)

\* What a path holds once an estate was emitted for one binding.
Stands(file, binding) ==
    LET writers == {w \in Writers : file \in Files(w, estate, binding)} IN
    IF writers # {} THEN disk[file] = Text(file, estate)
    ELSE \/ disk[file] = Absent
         \/ file.kind = "ledger"
         \/ file = GraphFile /\ Declared(estate) = {}

\* A pass that ends with exit code 0, whether it wrote or only checked, found
\* or left every tree as the declarations say, no file missing, drifted or
\* orphaned, whatever died or was edited before it (emit_products.py:864-950).
\* The exceptions are a ledger, which outlives its product, and the product
\* graph, which an estate that declares no product any more keeps.
CleanIsCurrent ==
    report = "clean" =>
        \E binding \in Bindings \cup {Absent} :
            \A file \in Paths : Stands(file, binding)

\* Contracts, descriptors and the graph are published only beside models that
\* were generated from the same declarations and passed the structural gate
\* (main runs the gate before the downstream emitters).
DownstreamFollowsModels ==
    WriteTree /\ pass.stage \in {"contracts", "descriptors", "graph"} /\ ~ pass.disturbed
      => Matches("models", pass.read, pass.binding) /\ Offenders = {}

\* The relations the standalone gate reads as private are those of the
\* manifests on disk; the pass exempts those the translator registered.
PrivateInManifests ==
    UNION {Private[disk[file]] \X {file.of} :
               file \in {f \in OnDisk : f.kind = "json" /\ disk[f] \in Texts}}
PrivateRegistered(e) ==
    UNION {Private[e[p]] \X {p} : p \in Declared(e)}

\* The in-route gate and the standalone gate exempt the same views once the
\* trees are written.
GatesExemptAlike ==
    pass # Idle =>
        (pass.stage = "gate" /\ pass.mode = "write" /\ ~ pass.disturbed
            => PrivateInManifests = PrivateRegistered(pass.read))

\* A pass removes only what no declared product generates any more, and never
\* a ledger, across the directories several emitters share.
PrunesOnlyOrphans ==
    pass.stage \in Writers /\ spent'.edits = spent.edits
      => \A file \in OnDisk :
           disk'[file] = Absent =>
             /\ file.kind # "ledger"
             /\ pass.disturbed \/ \A w \in Writers :
                  file \notin Files(w, pass.read, pass.binding)

\* What a pass that succeeded leaves on disk, and what its gate reads there,
\* follow from the declarations alone.
TreesAreCurrent ==
    /\ CleanIsCurrent
    /\ GatesExemptAlike

\* A pass writes in the order in which one tree relies on another, and removes
\* only what it would have written itself.
PassesRespectTrees == [][DownstreamFollowsModels /\ PrunesOnlyOrphans]_emissionVars
=============================================================================
