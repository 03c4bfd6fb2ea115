---------------------------- MODULE EmissionProofs ----------------------------
(***************************************************************************)
(* Proofs about Emission for any products, texts, bindings, refusals and     *)
(* budgets, and any bounds.                                                  *)
(***************************************************************************)
EXTENDS Emission, Integers, TLAPS

Estates == [Products -> Texts \cup {Absent}]

Contents == Texts \cup Bindings \cup Estates \cup {Absent, Edited}

Stages == DOMAIN After

Passes ==
    [stage : Stages, mode : {"write", "check"}, read : Estates,
     binding : Bindings \cup {Absent}, disturbed : BOOLEAN]

EmissionTypeOK ==
    /\ estate \in Estates
    /\ disk \in [Paths -> Contents]
    /\ pass \in Passes \cup {Idle}
    /\ spent \in [edits : Nat, passes : Nat, deaths : Nat]

\* The kinds of file a writer generates.
KindsOf ==
    [models |-> {"sql", "yml"}, manifests |-> {"json"}, ledgers |-> {"ledger"},
     landing_contracts |-> {"odcs"}, contracts |-> {"odcs", "contract"},
     landing_descriptors |-> {"odps"}, descriptors |-> {"odps"},
     graph |-> {"product"}]

\* The stages in the order a pass goes through them, the writers whose trees it
\* has gone through, and the stages behind the gate and behind the first reading
\* that asks for a binding.
Rank ==
    [models |-> 0, manifests |-> 1, ledgers |-> 2, gate |-> 3, read_contracts |-> 4,
     landing_contracts |-> 5, contracts |-> 6, read_descriptors |-> 7,
     landing_descriptors |-> 8, descriptors |-> 9, read_graph |-> 10, graph |-> 11]

Through(stage) == {w \in Writers : Rank[w] < Rank[stage]}
PastGate == {stage \in Stages : Rank[stage] > 3}
PastBinding == {stage \in Stages : Rank[stage] > 4}

\* A landing file is only ever generated for a binding.
Bound(binding) == binding \in Bindings \/ ~ Lands

\* What a pass that nobody disturbed knows: it read the estate as it is, every
\* tree behind it matches, and behind the gate no model breaks a budget.
PassIsSound ==
    pass # Idle =>
        /\ report = "nothing"
        /\ pass.stage \in PastBinding => Bound(pass.binding)
        /\ ~ pass.disturbed =>
             /\ pass.read = estate
             /\ \A w \in Through(pass.stage) : Matches(w, estate, pass.binding)
             /\ pass.stage \in PastGate => Offenders = {}

EmissionInductive ==
    /\ EmissionTypeOK
    /\ PassIsSound
    /\ CleanIsCurrent

-----------------------------------------------------------------------------
(* Files and their writers *)

LEMMA WritersAre ==
    Writers = {"models", "manifests", "ledgers", "landing_contracts", "contracts",
               "landing_descriptors", "descriptors", "graph"}
BY DEF Writers, DirectoryOf

LEMMA StagesAre ==
    Stages = {"models", "manifests", "ledgers", "gate", "read_contracts",
              "landing_contracts", "contracts", "read_descriptors",
              "landing_descriptors", "descriptors", "read_graph", "graph"}
BY DEF Stages, After

\* Two writers share a directory only with kinds of their own.
LEMMA WritersAreApart ==
    ASSUME NEW v \in Writers, NEW w \in Writers, v # w,
           DirectoryOf[v] = DirectoryOf[w]
    PROVE  KindsOf[v] \cap KindsOf[w] = {}
BY WritersAre DEF DirectoryOf, KindsOf

LEMMA PatternsAreKinds ==
    ASSUME NEW w \in Writers
    PROVE  /\ PatternsOf[w] \subseteq KindsOf[w]
           /\ "ledger" \notin PatternsOf[w]
           /\ \A kind \in KindsOf[w] : kind = "ledger" \/ kind \in PatternsOf[w]
BY WritersAre DEF PatternsOf, KindsOf

\* Where the files of one product stand.
LEMMA ProductFilesStand ==
    ASSUME NEW w \in Writers, NEW p, NEW text, NEW file \in ProductFiles(w, p, text)
    PROVE  /\ file.directory = DirectoryOf[w]
           /\ file.kind \in KindsOf[w]
           /\ file.of = p
           /\ w \notin {"landing_contracts", "landing_descriptors", "graph"}
           /\ w = "manifests" => file = ManifestFile(p)
<1>1. CASE w = "models"
  BY <1>1 DEF ProductFiles, ModelFiles, File, DirectoryOf, KindsOf
<1>2. CASE w = "manifests"
  BY <1>2 DEF ProductFiles, ManifestFile, File, DirectoryOf, KindsOf
<1>3. CASE w = "ledgers"
  BY <1>3 DEF ProductFiles, LedgerFile, File, DirectoryOf, KindsOf
<1>4. CASE w = "contracts"
  BY <1>4 DEF ProductFiles, ContractFiles, File, DirectoryOf, KindsOf
<1>5. CASE w = "descriptors"
  BY <1>5 DEF ProductFiles, DescriptorFile, File, DirectoryOf, KindsOf
<1>6. CASE w \in {"landing_contracts", "landing_descriptors", "graph"}
  BY <1>6 DEF ProductFiles
<1>. QED BY <1>1, <1>2, <1>3, <1>4, <1>5, <1>6, WritersAre

LEMMA LandingFilesStand ==
    ASSUME NEW w \in Writers, NEW binding, NEW file \in LandingFiles(w, binding)
    PROVE  /\ file.directory = DirectoryOf[w]
           /\ file.kind \in KindsOf[w]
           /\ file.of = binding
           /\ Lands
           /\ w \in {"landing_contracts", "landing_descriptors"}
<1>1. Lands
  BY DEF LandingFiles
<1>2. CASE w = "landing_contracts"
  BY <1>1, <1>2 DEF LandingFiles, LandingFile, File, DirectoryOf, KindsOf
<1>3. CASE w = "landing_descriptors"
  BY <1>1, <1>3 DEF LandingFiles, LandingFile, File, DirectoryOf, KindsOf
<1>4. CASE w \notin {"landing_contracts", "landing_descriptors"}
  BY <1>1, <1>4 DEF LandingFiles
<1>. QED BY <1>1, <1>2, <1>3, <1>4

LEMMA GraphStands ==
    /\ GraphFile.directory = DirectoryOf["graph"]
    /\ GraphFile.kind \in KindsOf["graph"]
    /\ GraphFile.of = Absent
    /\ "graph" \in Writers
BY WritersAre DEF GraphFile, File, DirectoryOf, KindsOf

\* A generated file is a product's, a binding's or the graph.
LEMMA FilesCases ==
    ASSUME NEW w \in Writers, NEW e, NEW binding, NEW file \in Files(w, e, binding)
    PROVE  \/ \E p \in Declared(e) : file \in ProductFiles(w, p, e[p])
           \/ file \in LandingFiles(w, binding)
           \/ w = "graph" /\ Declared(e) # {} /\ file = GraphFile
BY DEF Files

\* The directory and the kind of a file tell its writer.
LEMMA FilesStand ==
    ASSUME NEW w \in Writers, NEW e, NEW binding, NEW file \in Files(w, e, binding)
    PROVE  file.directory = DirectoryOf[w] /\ file.kind \in KindsOf[w]
BY FilesCases, ProductFilesStand, LandingFilesStand, GraphStands

LEMMA PathsCases ==
    ASSUME NEW file \in Paths
    PROVE  \/ \E w \in Writers, p \in Products, text \in Texts :
                file \in ProductFiles(w, p, text)
           \/ \E w \in Writers, binding \in Bindings : file \in LandingFiles(w, binding)
           \/ file = GraphFile
BY DEF Paths

LEMMA PathsStand ==
    ASSUME NEW file \in Paths
    PROVE  \E w \in Writers : file.directory = DirectoryOf[w] /\ file.kind \in KindsOf[w]
BY PathsCases, ProductFilesStand, LandingFilesStand, GraphStands

LEMMA ManifestPaths ==
    ASSUME NEW file \in Paths, file.kind = "json"
    PROVE  \E p \in Products : file = ManifestFile(p)
<1>1. \A w \in Writers : "json" \in KindsOf[w] => w = "manifests"
  BY WritersAre DEF KindsOf
<1>. QED BY PathsCases, <1>1, ProductFilesStand, LandingFilesStand, GraphStands

LEMMA GraphPath ==
    ASSUME NEW file \in Paths, file.kind \in KindsOf["graph"]
    PROVE  file = GraphFile
<1>1. \A w \in Writers : \A kind \in KindsOf["graph"] : kind \in KindsOf[w] => w = "graph"
  BY WritersAre DEF KindsOf
<1>. QED BY PathsCases, <1>1, ProductFilesStand, LandingFilesStand

\* What is generated for an estate and a binding has a path and a content.
LEMMA FilesArePaths ==
    ASSUME NEW w \in Writers, NEW e \in Estates, NEW binding,
           Bound(binding) \/ w \notin {"landing_contracts", "landing_descriptors"},
           NEW file \in Files(w, e, binding)
    PROVE  /\ file \in Paths
           /\ Text(file, e) \in Contents
           /\ Text(file, e) # Absent
<1>1. CASE \E p \in Declared(e) : file \in ProductFiles(w, p, e[p])
  <2>1. PICK p \in Declared(e) : file \in ProductFiles(w, p, e[p])
    BY <1>1
  <2>2. p \in Products /\ e[p] \in Texts
    BY DEF Declared, Estates
  <2>3. file \in Paths
    BY <2>1, <2>2 DEF Paths
  <2>4. file.of = p /\ file # GraphFile
    BY <2>1, <2>2, ProductFilesStand, GraphStands, EmissionParameters
  <2>. QED BY <2>2, <2>3, <2>4, EmissionParameters DEF Text, Contents
<1>2. CASE file \in LandingFiles(w, binding)
  <2>1. file.of = binding /\ Lands /\ w \in {"landing_contracts", "landing_descriptors"}
    BY <1>2, LandingFilesStand
  <2>2. binding \in Bindings
    BY <2>1 DEF Bound
  <2>3. file \in Paths
    BY <1>2, <2>2 DEF Paths
  <2>4. file # GraphFile /\ binding \notin Products
    BY <2>1, <2>2, GraphStands, EmissionParameters
  <2>. QED BY <2>1, <2>2, <2>3, <2>4, EmissionParameters DEF Text, Contents
<1>3. CASE file = GraphFile
  <2>1. Text(file, e) = e
    BY <1>3 DEF Text
  <2>. QED BY <1>3, <2>1, EmissionParameters DEF Paths, Contents, Estates
<1>. QED BY <1>1, <1>2, <1>3, FilesCases

-----------------------------------------------------------------------------
(* Writing a tree *)

\* The files one writer prunes or writes, whether it dies on the way or not.
Touches(w, e, binding, pruned, files) ==
    /\ pruned \subseteq Orphans(w, e, binding)
    /\ files \subseteq Files(w, e, binding)
    /\ disk' = Written(pruned, files, e)

LEMMA OrphansStand ==
    ASSUME NEW w \in Writers, NEW e, NEW binding, NEW file \in Orphans(w, e, binding)
    PROVE  /\ file \in Paths
           /\ disk[file] # Absent
           /\ file.directory = DirectoryOf[w]
           /\ file.kind \in PatternsOf[w]
           /\ file.kind \in KindsOf[w]
           /\ file \notin Files(w, e, binding)
BY PatternsAreKinds DEF Orphans, OnDisk

\* A writer leaves the files of the others alone.
LEMMA OthersAreUntouched ==
    ASSUME disk \in [Paths -> Contents],
           NEW v \in Writers, NEW w \in Writers, v # w, NEW e, NEW binding,
           NEW pruned, NEW files, Touches(w, e, binding, pruned, files),
           NEW file \in Paths,
           file.directory = DirectoryOf[v], file.kind \in KindsOf[v]
    PROVE  disk'[file] = disk[file]
<1>1. ~ (file.directory = DirectoryOf[w] /\ file.kind \in KindsOf[w])
  BY WritersAreApart
<1>2. file \notin pruned /\ file \notin files
  BY <1>1, OrphansStand, FilesStand DEF Touches
<1>. QED BY <1>2 DEF Touches, Written

\* So a tree that matched matches still.
LEMMA OthersStillMatch ==
    ASSUME disk \in [Paths -> Contents],
           NEW v \in Writers, NEW w \in Writers, v # w,
           NEW e \in Estates, NEW binding, NEW pruned, NEW files,
           Touches(w, e, binding, pruned, files),
           Bound(binding) \/ v \notin {"landing_contracts", "landing_descriptors"},
           Matches(v, e, binding)
    PROVE  Matches(v, e, binding)'
<1>1. ASSUME NEW file \in Files(v, e, binding)
      PROVE  disk'[file] = Text(file, e)
  <2>1. file \in Paths
    BY <1>1, FilesArePaths
  <2>2. file.directory = DirectoryOf[v] /\ file.kind \in KindsOf[v]
    BY <1>1, FilesStand
  <2>3. disk'[file] = disk[file]
    BY <2>1, <2>2, OthersAreUntouched
  <2>. QED BY <1>1, <2>3 DEF Matches
<1>2. ASSUME NEW file \in Paths, disk'[file] # Absent,
             file.directory = DirectoryOf[v], file.kind \in PatternsOf[v],
             file \notin Files(v, e, binding)
      PROVE  FALSE
  <2>1. disk'[file] = disk[file]
    BY <1>2, PatternsAreKinds, OthersAreUntouched
  <2>2. file \in Orphans(v, e, binding)
    BY <1>2, <2>1 DEF Orphans, OnDisk
  <2>. QED BY <2>2 DEF Matches
<1>. QED BY <1>1, <1>2 DEF Matches, Orphans, OnDisk

\* A tree written whole matches.
LEMMA WrittenMatches ==
    ASSUME disk \in [Paths -> Contents],
           NEW w \in Writers, NEW e \in Estates, NEW binding,
           Bound(binding) \/ w \notin {"landing_contracts", "landing_descriptors"},
           disk' = Written(Orphans(w, e, binding), Files(w, e, binding), e)
    PROVE  Matches(w, e, binding)'
<1>1. ASSUME NEW file \in Files(w, e, binding)
      PROVE  disk'[file] = Text(file, e)
  BY <1>1, FilesArePaths DEF Written
<1>2. ASSUME NEW file \in Paths, disk'[file] # Absent,
             file.directory = DirectoryOf[w], file.kind \in PatternsOf[w],
             file \notin Files(w, e, binding)
      PROVE  FALSE
  <2>1. file \notin Orphans(w, e, binding) /\ disk'[file] = disk[file]
    BY <1>2 DEF Written
  <2>. QED BY <1>2, <2>1 DEF Orphans, OnDisk
<1>. QED BY <1>1, <1>2 DEF Matches, Orphans, OnDisk

LEMMA WrittenIsTyped ==
    ASSUME disk \in [Paths -> Contents],
           NEW w \in Writers, NEW e \in Estates, NEW binding,
           Bound(binding) \/ w \notin {"landing_contracts", "landing_descriptors"},
           NEW pruned, NEW files, Touches(w, e, binding, pruned, files)
    PROVE  disk' \in [Paths -> Contents]
<1>1. ASSUME NEW file \in Paths
      PROVE  (IF file \in files THEN Text(file, e)
              ELSE IF file \in pruned THEN Absent ELSE disk[file]) \in Contents
  <2>1. CASE file \in files
    BY <2>1, FilesArePaths DEF Touches
  <2>2. CASE file \notin files
    BY <2>2 DEF Contents
  <2>. QED BY <2>1, <2>2
<1>. QED BY <1>1 DEF Touches, Written

\* A writer removes only what it would have written, and no ledger.
LEMMA OnlyOrphansGo ==
    ASSUME disk \in [Paths -> Contents],
           NEW w \in Writers, NEW e \in Estates, NEW binding,
           Bound(binding) \/ w \notin {"landing_contracts", "landing_descriptors"},
           NEW pruned, NEW files, Touches(w, e, binding, pruned, files),
           NEW file \in OnDisk, disk'[file] = Absent
    PROVE  /\ file.kind # "ledger"
           /\ \A v \in Writers : file \notin Files(v, e, binding)
<1>1. file \in Paths /\ disk[file] # Absent
  BY DEF OnDisk
<1>2. file \notin files
  <2> SUFFICES ASSUME file \in files PROVE FALSE
    OBVIOUS
  <2>1. disk'[file] = Text(file, e)
    BY <1>1 DEF Touches, Written
  <2>2. Text(file, e) # Absent
    BY FilesArePaths DEF Touches
  <2>. QED BY <2>1, <2>2
<1>3. file \in Orphans(w, e, binding)
  BY <1>1, <1>2 DEF Touches, Written
<1>4. ASSUME NEW v \in Writers PROVE file \notin Files(v, e, binding)
  <2>1. CASE v = w
    BY <1>3, <2>1, OrphansStand
  <2>2. CASE v # w
    BY <1>3, <2>2, OrphansStand, FilesStand, WritersAreApart
  <2>. QED BY <2>1, <2>2
<1>5. file.kind # "ledger"
  BY <1>3, OrphansStand, PatternsAreKinds
<1>. QED BY <1>4, <1>5

\* A pass that leaves the disk alone leaves every tree as it matched.
LEMMA MatchesStays ==
    ASSUME UNCHANGED disk, NEW w, NEW e, NEW binding
    PROVE  Matches(w, e, binding)' <=> Matches(w, e, binding)
BY DEF Matches, Orphans, OnDisk

-----------------------------------------------------------------------------
(* The steps of a pass *)

\* The parts of a state a step of a pass starts from.
LEMMA RunningPass ==
    ASSUME EmissionInductive, pass # Idle
    PROVE  /\ pass \in Passes
           /\ pass.stage \in Stages /\ pass.read \in Estates
           /\ pass.binding \in Bindings \cup {Absent} /\ pass.disturbed \in BOOLEAN
           /\ estate \in Estates /\ disk \in [Paths -> Contents]
           /\ pass.stage \in PastBinding => Bound(pass.binding)
BY DEF EmissionInductive, EmissionTypeOK, PassIsSound, Passes

\* The landing writers are behind the stage that asks for the binding.
LEMMA WritersAreBound ==
    ASSUME EmissionInductive, pass # Idle, pass.stage \in Writers
    PROVE  Bound(pass.binding)
             \/ pass.stage \notin {"landing_contracts", "landing_descriptors"}
BY RunningPass, StagesAre DEF PastBinding, Rank

LEMMA StagesAreRanked ==
    /\ Writers \subseteq Stages
    /\ \A stage \in Stages : Rank[stage] \in Nat
    /\ \A v, w \in Stages : Rank[v] = Rank[w] => v = w
    /\ \A stage \in Stages : After[stage] # "done" =>
         After[stage] \in Stages /\ Rank[After[stage]] = Rank[stage] + 1
    /\ Rank["gate"] = 3 /\ Rank["read_contracts"] = 4 /\ Rank["graph"] = 11
    /\ {"gate", "read_contracts", "graph"} \subseteq Stages
<1>1. Writers \subseteq Stages /\ {"gate", "read_contracts", "graph"} \subseteq Stages
  BY StagesAre, WritersAre
<1>2. \A stage \in Stages : Rank[stage] \in Nat
  BY StagesAre DEF Rank
<1>3. \A v, w \in Stages : Rank[v] = Rank[w] => v = w
  BY StagesAre DEF Rank
<1>4. \A stage \in Stages : After[stage] # "done" => After[stage] \in Stages
  BY StagesAre DEF After
<1>5. \A stage \in Stages : After[stage] # "done" =>
         Rank[After[stage]] = Rank[stage] + 1
  BY StagesAre DEF After, Rank
<1>6. Rank["gate"] = 3 /\ Rank["read_contracts"] = 4 /\ Rank["graph"] = 11
  BY DEF Rank
<1>. QED BY <1>1, <1>2, <1>3, <1>4, <1>5, <1>6

\* What the next stage has behind it.
LEMMA AfterStage ==
    ASSUME NEW stage \in Stages, After[stage] # "done"
    PROVE  /\ After[stage] \in Stages
           /\ Through(After[stage]) \subseteq Through(stage) \cup ({stage} \cap Writers)
           /\ After[stage] \in PastGate => stage \in PastGate \cup {"gate"}
           /\ After[stage] \in PastBinding =>
                stage \in PastBinding \cup {"read_contracts"}
<1>1. After[stage] \in Stages /\ Rank[After[stage]] = Rank[stage] + 1
  BY StagesAreRanked
<1>2. Through(After[stage]) \subseteq Through(stage) \cup ({stage} \cap Writers)
  BY <1>1, StagesAreRanked DEF Through
<1>3. /\ After[stage] \in PastGate => stage \in PastGate \cup {"gate"}
      /\ After[stage] \in PastBinding =>
           stage \in PastBinding \cup {"read_contracts"}
  BY <1>1, StagesAreRanked DEF PastGate, PastBinding
<1>. QED BY <1>1, <1>2, <1>3

LEMMA ThroughAreWriters ==
    ASSUME NEW stage \in Stages
    PROVE  /\ Through(stage) \subseteq Writers
           /\ stage \notin Through(stage)
           /\ {"landing_contracts", "landing_descriptors"} \cap Through(stage) # {}
                => stage \in PastBinding
<1>1. Rank["landing_contracts"] = 5 /\ Rank["landing_descriptors"] = 8
  BY DEF Rank
<1>. QED BY <1>1, StagesAreRanked DEF Through, PastBinding

\* A stage that hands on: what it knew, and what it adds, the next one knows.
LEMMA AdvanceKeepsSound ==
    ASSUME EmissionInductive, pass # Idle, estate' = estate,
           After[pass.stage] # "done",
           NEW read \in Estates, Advance(read), NEW binding, binding = pass.binding,
           pass.disturbed \/ read = estate,
           pass.stage = "read_contracts" => Bound(pass.binding),
           ~ pass.disturbed =>
             /\ \A w \in Through(pass.stage) \cup ({pass.stage} \cap Writers) :
                  Matches(w, estate, binding)'
             /\ pass.stage \in PastGate \cup {"gate"} => Offenders' = {}
    PROVE  PassIsSound' /\ pass' \in Passes \cup {Idle} /\ report' = "nothing"
<1>1. /\ pass' = [pass EXCEPT !.stage = After[pass.stage], !.read = read]
      /\ report' = report
  BY DEF Advance
<1>2. pass \in Passes /\ report = "nothing"
  BY RunningPass DEF EmissionInductive, PassIsSound
<1>3. /\ pass'.stage = After[pass.stage] /\ pass'.read = read
      /\ pass'.binding = pass.binding /\ pass'.disturbed = pass.disturbed
  BY <1>1, <1>2 DEF Passes
<1>4. pass' \in Passes
  BY <1>1, <1>2, RunningPass, AfterStage DEF Passes
<1>5. pass'.stage \in PastBinding => Bound(pass'.binding)
  BY <1>3, RunningPass, AfterStage
<1>6. ASSUME ~ pass'.disturbed
      PROVE  /\ pass'.read = estate'
             /\ \A w \in Through(pass'.stage) : Matches(w, estate, binding)'
             /\ pass'.stage \in PastGate => Offenders' = {}
  BY <1>3, <1>6, RunningPass, AfterStage
<1>7. PassIsSound'
  BY <1>1, <1>2, <1>3, <1>5, <1>6 DEF PassIsSound, Matches, Orphans, OnDisk, Bound
<1>. QED BY <1>1, <1>2, <1>4, <1>7

\* Every tree matches, so every path stands.
LEMMA MatchingStands ==
    ASSUME disk \in [Paths -> Contents], estate \in Estates,
           NEW binding,
           \A w \in Writers \ {"graph"} : Matches(w, estate, binding),
           Matches("graph", estate, binding) \/ Declared(estate) = {},
           NEW file \in Paths
    PROVE  Stands(file, binding)
<1>1. CASE \E w \in Writers : file \in Files(w, estate, binding)
  <2>1. PICK w \in Writers : file \in Files(w, estate, binding)
    BY <1>1
  <2>2. Matches(w, estate, binding)
    <3>1. CASE w # "graph"
      BY <3>1
    <3>2. CASE w = "graph"
      <4>1. Declared(estate) # {}
        BY <2>1, <3>2, FilesCases, LandingFilesStand
      <4>. QED BY <3>2, <4>1
    <3>. QED BY <3>1, <3>2
  <2>3. disk[file] = Text(file, estate)
    BY <2>1, <2>2 DEF Matches
  <2>. QED BY <2>1, <2>3 DEF Stands
<1>2. CASE \A w \in Writers : file \notin Files(w, estate, binding)
  <2> SUFFICES ASSUME disk[file] # Absent
               PROVE  file.kind = "ledger" \/ (file = GraphFile /\ Declared(estate) = {})
    BY <1>2 DEF Stands
  <2>1. PICK w \in Writers : file.directory = DirectoryOf[w] /\ file.kind \in KindsOf[w]
    BY PathsStand
  <2>2. CASE file.kind \in PatternsOf[w]
    <3>1. file \in Orphans(w, estate, binding)
      BY <1>2, <2>1, <2>2 DEF Orphans, OnDisk
    <3>2. ~ Matches(w, estate, binding)
      BY <3>1 DEF Matches
    <3>3. w = "graph" /\ Declared(estate) = {}
      BY <3>2
    <3>. QED BY <2>1, <3>3, GraphPath
  <2>3. CASE file.kind \notin PatternsOf[w]
    BY <2>1, <2>3, PatternsAreKinds
  <2>. QED BY <2>2, <2>3
<1>. QED BY <1>1, <1>2

\* The same of the next state.
AllStand(binding) ==
    (/\ disk \in [Paths -> Contents]
     /\ estate \in Estates
     /\ \A w \in Writers \ {"graph"} : Matches(w, estate, binding)
     /\ Matches("graph", estate, binding) \/ Declared(estate) = {})
    => \A file \in Paths : Stands(file, binding)

LEMMA MatchingStandsNext == (\A binding \in Bindings \cup {Absent} : AllStand(binding))'
<1>1. \A binding \in Bindings \cup {Absent} : AllStand(binding)
  BY MatchingStands DEF AllStand
<1>. QED BY <1>1, PTL

\* A pass that ends clean leaves every path as the declarations say.
LEMMA FinishIsCurrent ==
    ASSUME EmissionInductive, pass # Idle, estate' = estate,
           disk' \in [Paths -> Contents], Finish,
           NEW binding \in Bindings \cup {Absent}, binding = pass.binding,
           ~ pass.disturbed =>
             /\ \A w \in Writers \ {"graph"} : Matches(w, estate, binding)'
             /\ Matches("graph", estate, binding)' \/ Declared(estate) = {}
    PROVE  CleanIsCurrent' /\ PassIsSound' /\ pass' \in Passes \cup {Idle}
<1>1. pass' = Idle
  BY DEF Finish
<1>2. ASSUME report' = "clean"
      PROVE  \A file \in Paths : Stands(file, binding)'
  <2>1. ~ pass.disturbed
    BY <1>2, RunningPass DEF Finish
  <2>2. (estate \in Estates)'
    BY RunningPass
  <2>3. AllStand(binding)'
    BY MatchingStandsNext
  <2>. QED BY <2>1, <2>2, <2>3 DEF AllStand
<1>3. CleanIsCurrent'
  BY <1>2 DEF CleanIsCurrent
<1>. QED BY <1>1, <1>3 DEF PassIsSound

\* Only the graph comes last, behind every other tree.
LEMMA LastStage ==
    /\ \A stage \in Stages : After[stage] = "done" => stage = "graph"
    /\ Through("graph") = Writers \ {"graph"}
    /\ Through("read_graph") = Writers \ {"graph"}
<1>1. \A stage \in Stages : After[stage] = "done" => stage = "graph"
  BY StagesAre DEF After
<1>2. \A w \in Writers : w # "graph" => Rank[w] < 10
  BY WritersAre DEF Rank
<1>3. Rank["graph"] = 11 /\ Rank["read_graph"] = 10
  BY DEF Rank
<1>. QED BY <1>1, <1>2, <1>3, StagesAreRanked DEF Through

LEMMA AdvancePreserves ==
    ASSUME EmissionInductive, pass # Idle, estate' = estate, spent' = spent,
           disk' \in [Paths -> Contents],
           NEW read \in Estates, Advance(read), pass.disturbed \/ read = estate,
           NEW binding \in Bindings \cup {Absent}, binding = pass.binding,
           pass.stage = "read_contracts" => Bound(binding),
           ~ pass.disturbed =>
             /\ \A w \in Through(pass.stage) \cup ({pass.stage} \cap Writers) :
                  Matches(w, estate, binding)'
             /\ pass.stage \in PastGate \cup {"gate"} => Offenders' = {}
    PROVE  EmissionInductive'
<1>1. (estate \in Estates)' /\ (spent \in [edits : Nat, passes : Nat, deaths : Nat])'
  BY DEF EmissionInductive, EmissionTypeOK
<1>2. CASE After[pass.stage] = "done"
  <2>1. Finish
    BY <1>2 DEF Advance
  <2>2. pass.stage = "graph" /\ Through(pass.stage) = Writers \ {"graph"}
    BY <1>2, RunningPass, LastStage
  <2>3. ~ pass.disturbed =>
          /\ \A w \in Writers \ {"graph"} : Matches(w, estate, binding)'
          /\ Matches("graph", estate, binding)'
    BY <2>2, GraphStands
  <2>4. CleanIsCurrent' /\ PassIsSound' /\ pass' \in Passes \cup {Idle}
    BY <2>1, <2>3, FinishIsCurrent
  <2>. QED BY <1>1, <2>4 DEF EmissionInductive, EmissionTypeOK
<1>3. CASE After[pass.stage] # "done"
  <2>1. PassIsSound' /\ pass' \in Passes \cup {Idle} /\ report' = "nothing"
    BY <1>3, AdvanceKeepsSound
  <2>2. CleanIsCurrent'
    BY <2>1 DEF CleanIsCurrent
  <2>. QED BY <1>1, <2>1, <2>2 DEF EmissionInductive, EmissionTypeOK
<1>. QED BY <1>2, <1>3

\* Whatever ends a pass without success claims nothing.
LEMMA EndPreserves ==
    ASSUME EmissionInductive, estate' = estate, disk' \in [Paths -> Contents],
           spent' \in [edits : Nat, passes : Nat, deaths : Nat],
           pass' = Idle, report' # "clean"
    PROVE  EmissionInductive'
BY DEF EmissionInductive, EmissionTypeOK, PassIsSound, CleanIsCurrent

LEMMA InitPreserves == InitEmission => EmissionInductive
<1> SUFFICES ASSUME InitEmission PROVE EmissionInductive
  OBVIOUS
<1>1. EmissionTypeOK
  BY DEF InitEmission, EmissionTypeOK, Estates, Contents
<1>. QED BY <1>1 DEF InitEmission, EmissionInductive, PassIsSound, CleanIsCurrent

LEMMA BeginPreserves ==
    ASSUME EmissionInductive, Begin
    PROVE  EmissionInductive'
<1>1. /\ estate \in Estates /\ disk \in [Paths -> Contents]
      /\ spent' \in [edits : Nat, passes : Nat, deaths : Nat]
      /\ estate' = estate /\ disk' = disk
  BY DEF Begin, EmissionInductive, EmissionTypeOK
<1>2. CASE Accepts("models", estate)
  <2>1. PICK mode \in {"write", "check"}, binding \in Bindings \cup {Absent} :
          /\ pass' = [stage |-> "models", mode |-> mode, read |-> estate,
                      binding |-> binding, disturbed |-> FALSE]
          /\ report' = "nothing"
    BY <1>2 DEF Begin
  <2>2. pass' \in Passes
    BY <1>1, <2>1, StagesAre DEF Passes
  <2>3. Through("models") = {} /\ "models" \notin PastGate /\ "models" \notin PastBinding
    BY StagesAreRanked DEF Through, PastGate, PastBinding, Rank
  <2>4. PassIsSound'
    BY <1>1, <2>1, <2>3 DEF PassIsSound
  <2>. QED BY <1>1, <2>1, <2>2, <2>4 DEF EmissionInductive, EmissionTypeOK, CleanIsCurrent
<1>3. CASE ~ Accepts("models", estate)
  BY <1>1, <1>3, EndPreserves DEF Begin, Fail
<1>. QED BY <1>2, <1>3

\* A writer of another tree than the models changes no model.
LEMMA OffendersStay ==
    ASSUME disk \in [Paths -> Contents],
           NEW w \in Writers, w # "models", NEW e, NEW binding,
           NEW pruned, NEW files, Touches(w, e, binding, pruned, files),
           Offenders = {}
    PROVE  Offenders' = {}
<1> SUFFICES ASSUME NEW file \in Paths, disk'[file] # Absent, file.kind = "sql",
                    disk'[file] \in OverBudget
             PROVE  FALSE
  BY DEF Offenders, OnDisk
<1>1. \A v \in Writers : "sql" \in KindsOf[v] => v = "models"
  BY WritersAre DEF KindsOf
<1>2. "models" \in Writers /\ file.directory = DirectoryOf["models"]
      /\ file.kind \in KindsOf["models"]
  BY <1>1, PathsStand
<1>3. disk'[file] = disk[file]
  BY <1>2, OthersAreUntouched
<1>. QED BY <1>3 DEF Offenders, OnDisk

\* The tree of the stage is written whole, the others stay as they match, and
\* no writer behind the gate writes a model.
LEMMA WriteTreePreserves ==
    ASSUME EmissionInductive, WriteTree
    PROVE  EmissionInductive'
<1>1. pass # Idle /\ pass.stage \in Writers
  BY DEF WriteTree, Writing
<1>2. PICK w \in Writers, e \in Estates, binding \in Bindings \cup {Absent} :
         w = pass.stage /\ e = pass.read /\ binding = pass.binding
  BY <1>1, RunningPass
<1>3. /\ Advance(e) /\ estate' = estate /\ spent' = spent
      /\ disk' = Written(Orphans(w, e, binding), Files(w, e, binding), e)
  BY <1>2 DEF WriteTree
<1>4. /\ disk \in [Paths -> Contents]
      /\ w \in Stages /\ (w \in PastBinding => Bound(binding))
      /\ Bound(binding) \/ w \notin {"landing_contracts", "landing_descriptors"}
      /\ Touches(w, e, binding, Orphans(w, e, binding), Files(w, e, binding))
  BY <1>1, <1>2, <1>3, RunningPass, WritersAreBound DEF Touches
<1>5. disk' \in [Paths -> Contents]
  BY <1>4, WrittenIsTyped
<1>6. w # "read_contracts" /\ w # "gate" /\ "models" \notin PastGate
  BY WritersAre, StagesAreRanked DEF PastGate, Rank
<1>7. ASSUME ~ pass.disturbed
      PROVE  /\ e = estate
             /\ \A v \in Through(w) \cup ({w} \cap Writers) : Matches(v, estate, binding)'
             /\ w \in PastGate => Offenders' = {}
  <2>1. /\ e = estate
        /\ \A v \in Through(w) : Matches(v, e, binding)
        /\ w \in PastGate => Offenders = {}
    BY <1>1, <1>2, <1>7 DEF EmissionInductive, PassIsSound
  <2>2. Matches(w, e, binding)'
    BY <1>3, <1>4, WrittenMatches
  <2>3. ASSUME NEW v \in Through(w) PROVE Matches(v, e, binding)'
    <3>1. /\ v \in Writers /\ v # w
          /\ Bound(binding) \/ v \notin {"landing_contracts", "landing_descriptors"}
      BY <1>4, ThroughAreWriters
    <3>2. Matches(v, e, binding)
      BY <2>1
    <3>. QED BY <1>4, <3>1, <3>2, OthersStillMatch
  <2>4. ASSUME w \in PastGate PROVE Offenders' = {}
    BY <1>4, <1>6, <2>1, <2>4, OffendersStay
  <2>. QED BY <1>3, <2>1, <2>2, <2>3, <2>4
<1>. QED BY <1>1, <1>2, <1>3, <1>5, <1>6, <1>7, AdvancePreserves

\* A pass that only checks goes on when the tree of the stage matches.
LEMMA CheckTreePreserves ==
    ASSUME EmissionInductive, CheckTree
    PROVE  EmissionInductive'
<1>1. /\ pass # Idle /\ pass.stage \in Writers
      /\ estate' = estate /\ disk' = disk /\ spent' = spent
      /\ disk' \in [Paths -> Contents]
      /\ spent' \in [edits : Nat, passes : Nat, deaths : Nat]
  BY DEF CheckTree, EmissionInductive, EmissionTypeOK
<1>2. PICK w \in Writers, e \in Estates, binding \in Bindings \cup {Absent} :
         w = pass.stage /\ e = pass.read /\ binding = pass.binding
  BY <1>1, RunningPass
<1>3. CASE Matches(w, e, binding)
  <2>1. Advance(e)
    BY <1>2, <1>3 DEF CheckTree
  <2>2. w # "read_contracts" /\ w # "gate"
    BY WritersAre
  <2>3. ASSUME ~ pass.disturbed
        PROVE  /\ e = estate
               /\ \A v \in Through(w) \cup ({w} \cap Writers) :
                    Matches(v, estate, binding)'
               /\ w \in PastGate => Offenders' = {}
    <3>1. /\ e = estate
          /\ \A v \in Through(w) : Matches(v, e, binding)
          /\ w \in PastGate => Offenders = {}
      BY <1>1, <1>2, <2>3 DEF EmissionInductive, PassIsSound
    <3>2. \A v \in Through(w) \cup {w} : Matches(v, e, binding)'
      BY <1>1, <1>3, <3>1, MatchesStays
    <3>. QED BY <1>1, <3>1, <3>2 DEF Offenders, OnDisk
  <2>. QED BY <1>1, <1>2, <2>1, <2>2, <2>3, AdvancePreserves
<1>4. CASE ~ Matches(w, e, binding)
  BY <1>1, <1>2, <1>4, EndPreserves DEF CheckTree, Fail
<1>. QED BY <1>3, <1>4

LEMMA GatePreserves ==
    ASSUME EmissionInductive, StructuralGate
    PROVE  EmissionInductive'
<1>1. /\ pass # Idle /\ pass.stage = "gate"
      /\ estate' = estate /\ disk' = disk /\ spent' = spent
      /\ disk' \in [Paths -> Contents]
      /\ spent' \in [edits : Nat, passes : Nat, deaths : Nat]
  BY DEF StructuralGate, EmissionInductive, EmissionTypeOK
<1>2. PICK e \in Estates, binding \in Bindings \cup {Absent} :
         e = pass.read /\ binding = pass.binding
  BY <1>1, RunningPass
<1>3. CASE Offenders = {}
  <2>1. Advance(e) /\ Offenders' = {}
    BY <1>1, <1>2, <1>3 DEF StructuralGate, Offenders, OnDisk
  <2>2. {"gate"} \cap Writers = {}
    BY WritersAre
  <2>3. ASSUME ~ pass.disturbed
        PROVE  /\ e = estate
               /\ \A v \in Through("gate") : Matches(v, estate, binding)'
    <3>1. e = estate /\ \A v \in Through("gate") : Matches(v, e, binding)
      BY <1>1, <1>2, <2>3 DEF EmissionInductive, PassIsSound
    <3>2. \A v \in Through("gate") : Matches(v, e, binding)'
      BY <1>1, <3>1, MatchesStays
    <3>. QED BY <1>1, <3>1, <3>2
  <2>. QED BY <1>1, <1>2, <2>1, <2>2, <2>3, AdvancePreserves
<1>4. CASE Offenders # {}
  BY <1>1, <1>4, EndPreserves DEF StructuralGate, Fail
<1>. QED BY <1>3, <1>4

\* The three readings go on from the declarations as they are now.
LEMMA ReadingPreserves ==
    ASSUME EmissionInductive, pass # Idle,
           pass.stage \in {"read_contracts", "read_descriptors", "read_graph"},
           estate' = estate, disk' = disk, spent' = spent,
           pass.stage = "read_contracts" => Bound(pass.binding),
           Advance(estate)
    PROVE  EmissionInductive'
<1>1. /\ disk' \in [Paths -> Contents]
      /\ spent' \in [edits : Nat, passes : Nat, deaths : Nat]
  BY DEF EmissionInductive, EmissionTypeOK
<1>2. PICK stage \in Stages, e \in Estates, binding \in Bindings \cup {Absent} :
         stage = pass.stage /\ e = estate /\ binding = pass.binding
  BY RunningPass
<1>3. {stage} \cap Writers = {} /\ stage # "gate"
  BY <1>2, WritersAre
<1>4. ASSUME ~ pass.disturbed
      PROVE  /\ \A v \in Through(stage) : Matches(v, estate, binding)'
             /\ stage \in PastGate => Offenders' = {}
  <2>1. /\ \A v \in Through(stage) : Matches(v, e, binding)
        /\ stage \in PastGate => Offenders = {}
    BY <1>2, <1>4 DEF EmissionInductive, PassIsSound
  <2>2. \A v \in Through(stage) : Matches(v, e, binding)'
    BY <2>1, MatchesStays
  <2>. QED BY <1>2, <2>1, <2>2 DEF Offenders, OnDisk
<1>. QED BY <1>1, <1>2, <1>3, <1>4, AdvancePreserves

LEMMA ReadAgainPreserves ==
    ASSUME EmissionInductive, ReadForContracts \/ ReadForDescriptors
    PROVE  EmissionInductive'
<1>1. /\ pass # Idle /\ pass.stage \in {"read_contracts", "read_descriptors"}
      /\ estate' = estate /\ disk' = disk /\ spent' = spent /\ ReadAgain
      /\ disk' \in [Paths -> Contents]
      /\ spent' \in [edits : Nat, passes : Nat, deaths : Nat]
  BY DEF ReadForContracts, ReadForDescriptors, EmissionInductive, EmissionTypeOK
<1>2. CASE Accepts(pass.stage, estate) /\ (~ Lands \/ pass.binding # Absent)
  <2>1. Bound(pass.binding) /\ Advance(estate)
    BY <1>1, <1>2, RunningPass DEF ReadAgain, Bound
  <2>. QED BY <1>1, <2>1, ReadingPreserves
<1>3. CASE ~ (Accepts(pass.stage, estate) /\ (~ Lands \/ pass.binding # Absent))
  BY <1>1, <1>3, EndPreserves DEF ReadAgain, Fail
<1>. QED BY <1>2, <1>3

\* A graph of nothing ends the pass with every other tree behind it.
LEMMA ReadForGraphPreserves ==
    ASSUME EmissionInductive, ReadForGraph
    PROVE  EmissionInductive'
<1>1. /\ pass # Idle /\ pass.stage = "read_graph"
      /\ estate' = estate /\ disk' = disk /\ spent' = spent
      /\ disk' \in [Paths -> Contents]
      /\ spent' \in [edits : Nat, passes : Nat, deaths : Nat]
  BY DEF ReadForGraph, EmissionInductive, EmissionTypeOK
<1>2. CASE ~ Accepts(pass.stage, estate)
  BY <1>1, <1>2, EndPreserves DEF ReadForGraph, Fail
<1>3. CASE Accepts(pass.stage, estate) /\ Declared(estate) = {}
  <2>1. Finish
    BY <1>3 DEF ReadForGraph
  <2>2. PICK e \in Estates, binding \in Bindings \cup {Absent} :
           e = estate /\ binding = pass.binding
    BY <1>1, RunningPass
  <2>3. ASSUME ~ pass.disturbed
        PROVE  \A w \in Writers \ {"graph"} : Matches(w, estate, binding)'
    <3>1. \A w \in Writers \ {"graph"} : Matches(w, e, binding)
      BY <1>1, <2>2, <2>3, LastStage DEF EmissionInductive, PassIsSound
    <3>2. \A w \in Writers \ {"graph"} : Matches(w, e, binding)'
      BY <1>1, <3>1, MatchesStays
    <3>. QED BY <1>1, <2>2, <3>2
  <2>4. CleanIsCurrent' /\ PassIsSound' /\ pass' \in Passes \cup {Idle}
    BY <1>1, <1>3, <2>1, <2>2, <2>3, FinishIsCurrent
  <2>. QED BY <1>1, <2>4 DEF EmissionInductive, EmissionTypeOK
<1>4. CASE Accepts(pass.stage, estate) /\ Declared(estate) # {}
  <2>1. Advance(estate)
    BY <1>4 DEF ReadForGraph
  <2>. QED BY <1>1, <2>1, ReadingPreserves
<1>. QED BY <1>2, <1>3, <1>4

\* What a dying pass has pruned and written.
LEMMA DyingTouches ==
    ASSUME EmissionInductive, Die
    PROVE  \E w \in Writers, e \in Estates, binding \in Bindings \cup {Absent} :
             /\ w = pass.stage /\ e = pass.read /\ binding = pass.binding
             /\ Bound(binding) \/ w \notin {"landing_contracts", "landing_descriptors"}
             /\ \E pruned, files : Touches(w, e, binding, pruned, files)
<1>1. pass # Idle /\ pass.stage \in Writers
  BY DEF Die, Writing
<1>2. PICK w \in Writers, e \in Estates, binding \in Bindings \cup {Absent} :
         w = pass.stage /\ e = pass.read /\ binding = pass.binding
  BY <1>1, RunningPass
<1>3. Bound(binding) \/ w \notin {"landing_contracts", "landing_descriptors"}
  BY <1>1, <1>2, WritersAreBound
<1>4. \E pruned, files : Touches(w, e, binding, pruned, files)
  BY <1>2 DEF Die, Touches
<1>. QED BY <1>2, <1>3, <1>4

LEMMA DiePreserves ==
    ASSUME EmissionInductive, Die
    PROVE  EmissionInductive'
<1>1. /\ pass' = Idle /\ report' = "nothing" /\ estate' = estate
      /\ spent' \in [edits : Nat, passes : Nat, deaths : Nat]
      /\ disk \in [Paths -> Contents]
  BY DEF Die, EmissionInductive, EmissionTypeOK
<1>2. disk' \in [Paths -> Contents]
  BY <1>1, DyingTouches, WrittenIsTyped
<1>. QED BY <1>1, <1>2, EndPreserves

\* An edit makes the running pass one that claims nothing.
LEMMA DisturbPreserves ==
    ASSUME EmissionInductive, Disturb, estate' \in Estates, disk' \in [Paths -> Contents]
    PROVE  EmissionInductive'
<1>1. /\ spent' \in [edits : Nat, passes : Nat, deaths : Nat] /\ report' = "nothing"
  BY DEF Disturb, EmissionInductive, EmissionTypeOK
<1>2. CASE pass = Idle
  BY <1>1, <1>2 DEF Disturb, EmissionInductive, EmissionTypeOK, PassIsSound, CleanIsCurrent
<1>3. CASE pass # Idle
  <2>1. pass' = [pass EXCEPT !.disturbed = TRUE] /\ pass \in Passes
    BY <1>3, RunningPass DEF Disturb
  <2>2. /\ pass' \in Passes /\ pass'.disturbed
        /\ pass'.stage = pass.stage /\ pass'.binding = pass.binding
    BY <2>1 DEF Passes
  <2>3. pass'.stage \in PastBinding => Bound(pass'.binding)
    BY <1>3, <2>2, RunningPass
  <2>4. PassIsSound'
    BY <1>1, <2>2, <2>3 DEF PassIsSound, Bound
  <2>. QED BY <1>1, <2>2, <2>4 DEF EmissionInductive, EmissionTypeOK, CleanIsCurrent
<1>. QED BY <1>2, <1>3

LEMMA EditsPreserve ==
    ASSUME EmissionInductive,
           (\E p \in Products : EditProduct(p)) \/ (\E file \in Paths : EditFile(file))
    PROVE  EmissionInductive'
<1>1. estate \in Estates /\ disk \in [Paths -> Contents]
  BY DEF EmissionInductive, EmissionTypeOK
<1>2. ASSUME NEW p \in Products, EditProduct(p) PROVE EmissionInductive'
  <2>1. Disturb /\ estate' \in Estates /\ disk' = disk
    BY <1>1, <1>2 DEF EditProduct, Estates
  <2>. QED BY <1>1, <2>1, DisturbPreserves
<1>3. ASSUME NEW file \in Paths, EditFile(file) PROVE EmissionInductive'
  <2>1. Absent \in Contents /\ Edited \in Contents
    BY DEF Contents
  <2>2. Disturb /\ disk' \in [Paths -> Contents] /\ estate' = estate
    <3>1. PICK content \in {Absent, Edited} : disk' = [disk EXCEPT ![file] = content]
      BY <1>3 DEF EditFile
    <3>2. content \in Contents
      BY <2>1
    <3>. QED BY <1>1, <1>3, <3>1, <3>2 DEF EditFile
  <2>. QED BY <1>1, <2>2, DisturbPreserves
<1>. QED BY <1>2, <1>3

LEMMA EmissionStep ==
    EmissionInductive /\ [NextEmission]_emissionVars => EmissionInductive'
<1> SUFFICES ASSUME EmissionInductive, [NextEmission]_emissionVars
             PROVE  EmissionInductive'
  OBVIOUS
<1>1. CASE UNCHANGED emissionVars
  BY <1>1 DEF emissionVars, EmissionInductive, EmissionTypeOK, PassIsSound, CleanIsCurrent,
              Matches, Orphans, OnDisk, Offenders, Stands
<1>2. CASE NextEmission
  BY <1>2, BeginPreserves, WriteTreePreserves, CheckTreePreserves, GatePreserves,
     ReadAgainPreserves, ReadForGraphPreserves, DiePreserves, EditsPreserve
  DEF NextEmission
<1>. QED BY <1>1, <1>2

-----------------------------------------------------------------------------
(* The gate reads the manifests *)

\* At the gate the manifests on disk are those of the declared products, each
\* as its declaration says.
LEMMA ManifestsAreCurrent ==
    ASSUME disk \in [Paths -> Contents], NEW e \in Estates, NEW binding,
           Matches("manifests", e, binding)
    PROVE  /\ \A p \in Declared(e) : /\ ManifestFile(p) \in OnDisk
                                     /\ ManifestFile(p).kind = "json"
                                     /\ ManifestFile(p).of = p
                                     /\ disk[ManifestFile(p)] = e[p]
                                     /\ e[p] \in Texts
           /\ \A file \in OnDisk : file.kind = "json" =>
                file.of \in Declared(e) /\ disk[file] = e[file.of]
<1>1. /\ "manifests" \in Writers /\ "json" \in PatternsOf["manifests"]
      /\ DirectoryOf["manifests"] = "manifests"
  BY WritersAre DEF PatternsOf, DirectoryOf
<1>2. \A p : /\ ManifestFile(p).kind = "json" /\ ManifestFile(p).of = p
             /\ ManifestFile(p).directory = "manifests"
  BY DEF ManifestFile, File
<1>3. ASSUME NEW p \in Declared(e)
      PROVE  /\ ManifestFile(p) \in OnDisk
             /\ disk[ManifestFile(p)] = e[p]
             /\ e[p] \in Texts
  <2>1. ManifestFile(p) \in ProductFiles("manifests", p, e[p])
    BY DEF ProductFiles
  <2>2. ManifestFile(p) \in Files("manifests", e, binding)
    BY <2>1 DEF Files
  <2>3. /\ ManifestFile(p) \in Paths
        /\ Text(ManifestFile(p), e) # Absent
    BY <1>1, <2>2, FilesArePaths
  <2>4. disk[ManifestFile(p)] = Text(ManifestFile(p), e)
    BY <2>2 DEF Matches
  <2>5. p \in Products /\ e[p] \in Texts /\ p # Absent
    BY EmissionParameters DEF Declared, Estates
  <2>6. ManifestFile(p) # GraphFile
    BY <1>2, <2>5, GraphStands
  <2>7. Text(ManifestFile(p), e) = e[p]
    BY <1>2, <2>5, <2>6 DEF Text
  <2>. QED BY <2>3, <2>4, <2>5, <2>7 DEF OnDisk
<1>4. ASSUME NEW file \in OnDisk, file.kind = "json"
      PROVE  file.of \in Declared(e) /\ disk[file] = e[file.of]
  <2>1. PICK p \in Products : file = ManifestFile(p)
    BY <1>4, ManifestPaths DEF OnDisk
  <2>2. file \notin Orphans("manifests", e, binding)
    BY DEF Matches
  <2>3. file \in Files("manifests", e, binding)
    BY <1>1, <1>2, <2>1, <2>2 DEF Orphans
  <2>4. PICK q \in Declared(e) : file \in ProductFiles("manifests", q, e[q])
    BY <1>1, <2>3, FilesCases, LandingFilesStand
  <2>5. q = p
    BY <1>1, <1>2, <2>1, <2>4, ProductFilesStand
  <2>. QED BY <1>2, <1>3, <2>1, <2>4, <2>5
<1>. QED BY <1>2, <1>3, <1>4

LEMMA GateReadsDeclarations == EmissionInductive => GatesExemptAlike
<1> SUFFICES ASSUME EmissionInductive, pass # Idle, pass.stage = "gate",
                    ~ pass.disturbed
             PROVE  PrivateInManifests = PrivateRegistered(pass.read)
  BY DEF GatesExemptAlike
<1>1. PICK e \in Estates : e = pass.read
  BY RunningPass
<1>2. "manifests" \in Through("gate")
  BY WritersAre DEF Through, Rank
<1>3. e = estate /\ Matches("manifests", e, pass.binding) /\ disk \in [Paths -> Contents]
  BY <1>1, <1>2, RunningPass DEF EmissionInductive, PassIsSound
<1>4. /\ \A p \in Declared(e) : /\ ManifestFile(p) \in OnDisk
                                /\ ManifestFile(p).kind = "json"
                                /\ ManifestFile(p).of = p
                                /\ disk[ManifestFile(p)] = e[p]
                                /\ e[p] \in Texts
      /\ \A file \in OnDisk : file.kind = "json" =>
           file.of \in Declared(e) /\ disk[file] = e[file.of]
  BY <1>3, ManifestsAreCurrent
<1>5. PrivateInManifests \subseteq PrivateRegistered(e)
  <2> SUFFICES ASSUME NEW file \in OnDisk, file.kind = "json", disk[file] \in Texts,
                      NEW x \in Private[disk[file]] \X {file.of}
               PROVE  x \in PrivateRegistered(e)
    BY DEF PrivateInManifests
  <2>1. file.of \in Declared(e) /\ x \in Private[e[file.of]] \X {file.of}
    BY <1>4
  <2>. QED BY <2>1 DEF PrivateRegistered
<1>6. PrivateRegistered(e) \subseteq PrivateInManifests
  <2> SUFFICES ASSUME NEW p \in Declared(e), NEW x \in Private[e[p]] \X {p}
               PROVE  x \in PrivateInManifests
    BY DEF PrivateRegistered
  <2> DEFINE file == ManifestFile(p)
  <2>1. /\ file \in {f \in OnDisk : f.kind = "json" /\ disk[f] \in Texts}
        /\ x \in Private[disk[file]] \X {file.of}
    BY <1>4
  <2> HIDE DEF file
  <2>. QED BY <2>1 DEF PrivateInManifests
<1>. QED BY <1>1, <1>5, <1>6

-----------------------------------------------------------------------------
(* The theorems *)

\* The inductive invariant of emission.
THEOREM EmissionInductiveHolds == SpecEmission => []EmissionInductive
<1>1. InitEmission => EmissionInductive
  BY InitPreserves
<1>2. EmissionInductive /\ [NextEmission]_emissionVars => EmissionInductive'
  BY EmissionStep
<1>. QED BY <1>1, <1>2, PTL DEF SpecEmission

\* A pass that ends with exit code 0 leaves, or found, every tree as the
\* declarations say, and its gate exempted what the standalone gate exempts
\* (emit_products.py main), whatever died or was edited before.
THEOREM CleanTreesAreCurrent == SpecEmission => []TreesAreCurrent
<1>1. EmissionInductive => TreesAreCurrent
  BY GateReadsDeclarations DEF EmissionInductive, TreesAreCurrent
<1>. QED BY <1>1, EmissionInductiveHolds, PTL

\* Behind the gate a tree is written only beside models of the same
\* declarations, and no step of a pass, nor its death, removes a file that any
\* writer of the pass generates, or a ledger (write_generated_files).
THEOREM TreesAreRespected == SpecEmission => PassesRespectTrees
<1>1. EmissionInductive /\ [NextEmission]_emissionVars
        => [DownstreamFollowsModels /\ PrunesOnlyOrphans]_emissionVars
  <2> SUFFICES ASSUME EmissionInductive, NextEmission
               PROVE  DownstreamFollowsModels /\ PrunesOnlyOrphans
    OBVIOUS
  <2>1. DownstreamFollowsModels
    <3> SUFFICES ASSUME WriteTree, ~ pass.disturbed,
                        pass.stage \in {"contracts", "descriptors", "graph"}
                 PROVE  Matches("models", pass.read, pass.binding) /\ Offenders = {}
      BY DEF DownstreamFollowsModels
    <3>1. pass # Idle
      BY DEF WriteTree, Writing
    <3>2. "models" \in Through(pass.stage) /\ pass.stage \in PastGate
      BY WritersAre, StagesAre DEF Through, PastGate, Rank
    <3>. QED BY <3>1, <3>2 DEF EmissionInductive, PassIsSound
  <2>2. PrunesOnlyOrphans
    <3> SUFFICES ASSUME pass.stage \in Writers, spent'.edits = spent.edits,
                        NEW file \in OnDisk, disk'[file] = Absent
                 PROVE  /\ file.kind # "ledger"
                        /\ \A w \in Writers : file \notin Files(w, pass.read, pass.binding)
      BY DEF PrunesOnlyOrphans
    <3>1. disk \in [Paths -> Contents] /\ disk' # disk
      BY DEF EmissionInductive, EmissionTypeOK, OnDisk
    <3>2. ~ Disturb
      <4>1. spent \in [edits : Nat, passes : Nat, deaths : Nat]
        BY DEF EmissionInductive, EmissionTypeOK
      <4>. QED BY <4>1 DEF Disturb
    <3>3. WriteTree \/ Die
      BY <3>1, <3>2 DEF NextEmission, Begin, CheckTree, StructuralGate, ReadForContracts,
         ReadForDescriptors, ReadForGraph, EditProduct, EditFile
    <3>4. PICK w \in Writers, e \in Estates, binding \in Bindings \cup {Absent} :
             /\ w = pass.stage /\ e = pass.read /\ binding = pass.binding
             /\ Bound(binding) \/ w \notin {"landing_contracts", "landing_descriptors"}
             /\ \E pruned, files : Touches(w, e, binding, pruned, files)
      <4>1. CASE Die
        BY <4>1, DyingTouches
      <4>2. CASE WriteTree
        <5>1. pass # Idle
          BY <4>2 DEF WriteTree, Writing
        <5>2. PICK w \in Writers, e \in Estates, binding \in Bindings \cup {Absent} :
                 w = pass.stage /\ e = pass.read /\ binding = pass.binding
          BY <5>1, RunningPass
        <5>3. Bound(binding) \/ w \notin {"landing_contracts", "landing_descriptors"}
          BY <5>1, <5>2, WritersAreBound
        <5>4. Touches(w, e, binding, Orphans(w, e, binding), Files(w, e, binding))
          BY <4>2, <5>2 DEF WriteTree, Touches
        <5>. QED BY <5>2, <5>3, <5>4
      <4>. QED BY <3>3, <4>1, <4>2
    <3>. QED BY <3>1, <3>4, OnlyOrphansGo
  <2>. QED BY <2>1, <2>2
<1>. QED BY <1>1, EmissionInductiveHolds, PTL DEF SpecEmission, PassesRespectTrees

=============================================================================
