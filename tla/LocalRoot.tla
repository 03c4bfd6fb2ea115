------------------------------ MODULE LocalRoot ------------------------------
(***************************************************************************)
(* The files of the local runtime root: what ingest file writes there (the   *)
(* raw store, ergasterion/ingestion/local_raw_store.py, and the two          *)
(* databases) and what local-backup copies and restores                     *)
(* (ergasterion/ingestion/local_backup.py).                                 *)
(*                                                                         *)
(* A file is a path and a content; its digest is its content.  A path is     *)
(* <<rank, name>>, its rank the place it has in path order.  A     *)
(* content is a set of facts <<fact, delivery>>, and a damaged one is empty.   *)
(* One process ingests and one operator runs local-backup, either create or  *)
(* restore at a time; an open session holds the DuckDB file, which no other  *)
(* process can open meanwhile.                                               *)
(***************************************************************************)
EXTENDS Integers, Sequences, FiniteSets

CONSTANTS
    Deliveries,     \* the deliveries operators ingest, numbers below 100
    None,           \* no delivery, no process, no archive, no staging directory
    PageEntries,    \* entries that fit in one page record
    MaxBackups,     \* bound: local-backup create commands
    MaxRestores,    \* bound: local-backup restore commands
    MaxFaults,      \* bound: processes that die and archive files that change
    MaxLosses       \* bound: runtime roots that are deleted

ASSUME LocalRootParameters ==
    /\ Deliveries \subseteq 1..99
    /\ PageEntries \in Nat \ {0}
    /\ {MaxBackups, MaxRestores, MaxFaults, MaxLosses} \subseteq Nat
    /\ None \notin Deliveries /\ None # "writer" /\ None # "backup"

VARIABLES
    root,       \* path -> content of the runtime root, without the fence
    fence,      \* .maintenance-fence exists
    session,    \* the process with the databases open, or None
    writer,     \* ingest file: [pc, delivery]
    backup,     \* local-backup create: [pc, files, entries, next, page]
    pages,      \* page index -> page, in the destination
    manifest,   \* the manifest of the destination, or None
    objects,    \* path -> content, in the destination
    restore,    \* local-backup restore: [pc, entries, next]
    stage,      \* path -> content of the staging directory, or None
    refusal,    \* the last refusal of a restore, or "none"
    counts,     \* commands, crashes, damages and losses so far
    moments,    \* history: every content the root had
    disturbed,  \* history: the archive was damaged or written amid ingestion
    archived    \* history: the entries of the manifest, and how many of their
                \* files the backup that wrote it copied: [entries, copied]

backupVars == <<fence, backup, pages, manifest, objects>>
restoreVars == <<restore, stage, refusal>>
historyVars == <<moments, disturbed, archived>>
vars == <<root, session, writer, backupVars, restoreVars, counts, historyVars>>

DuckDB == <<0, "ergasterion.duckdb">>
Wal == <<1, "ergasterion.duckdb.wal">>
Sqlite == <<2, "ergasterion.sqlite">>
Object(kind, d) == <<(IF kind = "payload" THEN 100 ELSE 200) + d, kind>>
Receipt(d) == <<300 + d, "receipt">>

Paths ==
    {DuckDB, Wal, Sqlite}
      \cup {Object(kind, d) : kind \in {"payload", "manifest"}, d \in Deliveries}
      \cup {Receipt(d) : d \in Deliveries}

Facts == {"schema", "bytes", "manifest", "receipt", "live", "accepted", "landed"}
           \X (Deliveries \cup {None})

\* No directory is the absence of one.
ASSUME NoneIsNoDirectory ==
    \A paths \in SUBSET Paths : None \notin [paths -> SUBSET Facts]

Nothing == [x \in {} |-> {}]

With(f, p, content) == [x \in DOMAIN f \cup {p} |-> IF x = p THEN content ELSE f[x]]
Without(f, p) == [x \in DOMAIN f \ {p} |-> f[x]]

\* The paths of a set in path order.
PathOrder(paths) ==
    [i \in 1..Cardinality(paths) |->
       CHOOSE p \in paths : Cardinality({q \in paths : q[1] <= p[1]}) = i]

Count(name) == counts' = [counts EXCEPT ![name] = @ + 1]

Moment(content) ==
    /\ root' = content
    /\ moments' = moments \cup {content}

-----------------------------------------------------------------------------
(* ingest file *)

Write(content, step) ==
    /\ Moment(content)
    /\ writer' = [writer EXCEPT !.pc = step]
    /\ disturbed' = (disturbed \/ backup.pc # "idle")
    /\ UNCHANGED <<session, backupVars, restoreVars, counts, archived>>

\* open_session makes the directories and both databases.
Opened ==
    IF DuckDB \in DOMAIN root THEN root
    ELSE With(With(root, DuckDB, {<<"schema", None>>}), Sqlite, {<<"schema", None>>})

OpenSession(d) ==
    /\ writer.pc = "idle"
    /\ session = None
    /\ DuckDB \in DOMAIN root => <<"accepted", d>> \notin root[Sqlite]
    /\ session' = "writer"
    /\ writer' = [pc |-> "payload", delivery |-> d]
    /\ Moment(Opened)
    /\ disturbed' = (disturbed \/ backup.pc # "idle")
    /\ UNCHANGED <<backupVars, restoreVars, counts, archived>>

\* preserve: the payload object, the manifest object, then the receipt.  Each
\* is created if absent, in one rename.
PreservePayload ==
    /\ writer.pc = "payload"
    /\ Write(With(root, Object("payload", writer.delivery),
                  {<<"bytes", writer.delivery>>}), "manifest")

PreserveManifest ==
    /\ writer.pc = "manifest"
    /\ Write(With(root, Object("manifest", writer.delivery),
                  {<<"manifest", writer.delivery>>}), "receipt")

\* The receipt makes the delivery received; a claim with an attempt is not
\* taken further by ingest file.
PreserveReceipt ==
    /\ writer.pc = "receipt"
    /\ Write(With(root, Receipt(writer.delivery), {<<"receipt", writer.delivery>>}),
             IF <<"live", writer.delivery>> \in root[Sqlite] THEN "close" ELSE "submit")

SubmitAttempt ==
    /\ writer.pc = "submit"
    /\ Write([root EXCEPT ![Sqlite] = @ \cup {<<"live", writer.delivery>>}], "land")

\* The landing tables and the projection are written through the log of DuckDB,
\* after what a session that died left in it.
LandRows ==
    /\ writer.pc = "land"
    /\ Write(With(root, Wal, (IF Wal \in DOMAIN root THEN root[Wal] ELSE {})
                               \cup {<<"landed", writer.delivery>>}), "commit")

CommitAttempt ==
    /\ writer.pc = "commit"
    /\ Write([root EXCEPT ![Sqlite] =
                (@ \ {<<"live", writer.delivery>>})
                  \cup {<<"accepted", writer.delivery>>}], "close")

\* close checkpoints: the log of DuckDB is folded into the file.
Checkpointed ==
    IF Wal \in DOMAIN root
    THEN Without([root EXCEPT ![DuckDB] = @ \cup root[Wal]], Wal)
    ELSE root

CloseSession ==
    /\ writer.pc = "close"
    /\ Moment(Checkpointed)
    /\ writer' = [pc |-> "idle", delivery |-> None]
    /\ session' = None
    /\ disturbed' = (disturbed \/ backup.pc # "idle")
    /\ UNCHANGED <<backupVars, restoreVars, counts, archived>>

\* The ingesting process dies: its session ends, the files stay.
CrashWriter ==
    /\ writer.pc # "idle"
    /\ counts["crashes"] + counts["damages"] < MaxFaults
    /\ Count("crashes")
    /\ writer' = [pc |-> "idle", delivery |-> None]
    /\ session' = None
    /\ UNCHANGED <<root, backupVars, restoreVars, historyVars>>

-----------------------------------------------------------------------------
(* local-backup create *)

NoBackup == [pc |-> "idle", files |-> <<>>, entries |-> <<>>, next |-> 1, page |-> 0]

LiveWork == \E fact \in Opened[Sqlite] : fact[1] = "live"

\* refuse_live_work and acquire_fence, in the session of the command.
BeginBackup ==
    /\ backup.pc = "idle"
    /\ restore.pc = "idle"
    /\ session = None
    /\ ~LiveWork
    /\ ~fence
    /\ counts["backups"] < MaxBackups
    /\ Count("backups")
    /\ session' = "backup"
    /\ fence' = TRUE
    /\ backup' = [NoBackup EXCEPT !.pc = "close"]
    /\ refusal' = "none"
    /\ disturbed' = FALSE
    /\ Moment(Opened)
    /\ UNCHANGED <<writer, pages, manifest, objects, restore, stage, archived>>

BackupStep(next) ==
    /\ backup' = next
    /\ UNCHANGED <<root, session, writer, fence, pages, manifest, objects,
                   restoreVars, counts, historyVars>>

\* session.close, which gives the databases back to other processes.
CloseForBackup ==
    /\ backup.pc = "close"
    /\ session' = None
    /\ backup' = [backup EXCEPT !.pc = "list"]
    /\ Moment(Checkpointed)
    /\ UNCHANGED <<writer, fence, pages, manifest, objects, restoreVars, counts,
                   disturbed, archived>>

\* _iter_files: the names, before anything is read.
ListFiles ==
    /\ backup.pc = "list"
    /\ BackupStep([backup EXCEPT !.pc = "hash", !.files = PathOrder(DOMAIN root)])

\* A listed file is gone: the command raises, and lets go of the fence.
FileVanished(path) ==
    /\ path \notin DOMAIN root
    /\ fence' = FALSE
    /\ backup' = NoBackup
    /\ UNCHANGED <<root, session, writer, pages, manifest, objects, restoreVars,
                   counts, historyVars>>

\* The entry of the next file: its path and digest as they are now.
HashFile ==
    LET path == backup.files[backup.next]
    IN  /\ backup.pc = "hash"
        /\ \/ FileVanished(path)
           \/ /\ path \in DOMAIN root
              /\ BackupStep(
                   [backup EXCEPT
                      !.entries = Append(@, [path |-> path, sha256 |-> root[path]]),
                      !.next = IF @ = Len(backup.files) THEN 1 ELSE @ + 1,
                      !.pc = IF backup.next = Len(backup.files) THEN "pages" ELSE @])

PageDigest(index, previous, entries) == <<index, previous, entries>>

PageCount(entries) == (Len(entries) + PageEntries - 1) \div PageEntries

\* The entries of page i, and the digest of page i, in the chain that holds
\* the entries in order.
Slice(entries, i) ==
    SubSeq(entries, i * PageEntries + 1,
           IF (i + 1) * PageEntries < Len(entries)
           THEN (i + 1) * PageEntries ELSE Len(entries))

ChainDigests(entries) ==
    LET digest[i \in 0..(PageCount(entries) - 1)] ==
          PageDigest(i, IF i = 0 THEN <<>> ELSE digest[i - 1], Slice(entries, i))
    IN  digest

PageChain(entries) ==
    [i \in 0..(PageCount(entries) - 1) |->
       [index |-> i, previous |-> IF i = 0 THEN <<>> ELSE ChainDigests(entries)[i - 1],
        entries |-> Slice(entries, i), digest |-> ChainDigests(entries)[i]]]

\* The next page is written, over one an earlier backup left in the destination.
WritePage ==
    /\ backup.pc = "pages"
    /\ pages' = With(pages, backup.page, PageChain(backup.entries)[backup.page])
    /\ backup' = [backup EXCEPT
                    !.page = @ + 1,
                    !.pc = IF backup.page + 1 = PageCount(backup.entries)
                           THEN "manifest" ELSE @]
    /\ UNCHANGED <<root, session, writer, fence, manifest, objects, restoreVars,
                   counts, historyVars>>

WriteManifest ==
    /\ backup.pc = "manifest"
    /\ LET count == PageCount(backup.entries)
       IN  manifest' = [entry_count |-> Len(backup.entries), page_count |-> count,
                        final |-> PageChain(backup.entries)[count - 1].digest]
    /\ backup' = [backup EXCEPT !.pc = "copy"]
    /\ archived' = [entries |-> backup.entries, copied |-> 0]
    /\ UNCHANGED <<root, session, writer, fence, pages, objects, restoreVars,
                   counts, moments, disturbed>>

\* The copy of the next file, as it is by now; after the last one the fence
\* is released.
CopyFile ==
    LET path == backup.files[backup.next]
        last == backup.next = Len(backup.files)
    IN  /\ backup.pc = "copy"
        /\ \/ FileVanished(path)
           \/ /\ path \in DOMAIN root
              /\ objects' = With(objects, path, root[path])
              /\ backup' = IF last THEN NoBackup ELSE [backup EXCEPT !.next = @ + 1]
              /\ fence' = (fence /\ ~last)
              /\ archived' = [archived EXCEPT !.copied = @ + 1]
              /\ UNCHANGED <<root, session, writer, pages, manifest, restoreVars,
                             counts, moments, disturbed>>

\* The process that backs up dies: the fence stays.
CrashBackup ==
    /\ backup.pc # "idle"
    /\ counts["crashes"] + counts["damages"] < MaxFaults
    /\ Count("crashes")
    /\ backup' = NoBackup
    /\ session' = IF session = "backup" THEN None ELSE session
    /\ UNCHANGED <<root, writer, fence, pages, manifest, objects, restoreVars,
                   historyVars>>

-----------------------------------------------------------------------------
(* local-backup restore *)

NoRestore == [pc |-> "idle", entries |-> <<>>, next |-> 1]

\* Mutant of LoadPages: every page of the directory belongs to the backup.
LoadAllPages ==
    /\ manifest.page_count <= Cardinality(DOMAIN pages)
    /\ DOMAIN pages = 0..(Cardinality(DOMAIN pages) - 1)
    /\ \A i \in DOMAIN pages :
         /\ pages[i].previous = IF i = 0 THEN <<>> ELSE pages[i - 1].digest
         /\ pages[i].digest
              = PageDigest(pages[i].index, pages[i].previous, pages[i].entries)
    /\ pages[Cardinality(DOMAIN pages) - 1].digest = manifest.final

\* _load_pages accepts the chain the manifest ends.
LoadPages ==
    /\ \A i \in 0..(manifest.page_count - 1) :
         /\ i \in DOMAIN pages
         /\ pages[i].index = i
         /\ pages[i].previous = IF i = 0 THEN <<>> ELSE pages[i - 1].digest
         /\ pages[i].digest
              = PageDigest(pages[i].index, pages[i].previous, pages[i].entries)
         /\ pages[i].entries # <<>>
    /\ pages[manifest.page_count - 1].digest = manifest.final

\* The entries of the pages, in order.
Entries ==
    LET upto[i \in 0..manifest.page_count] ==
          IF i = 0 THEN <<>> ELSE upto[i - 1] \o pages[i - 1].entries
    IN  upto[manifest.page_count]

\* No path twice, and in strict path order.
InPathOrder(entries) ==
    /\ \A i, j \in DOMAIN entries : entries[i].path = entries[j].path => i = j
    /\ \A i \in 1..(Len(entries) - 1) : entries[i].path[1] < entries[i + 1].path[1]

Refuse(code) ==
    /\ refusal' = code
    /\ restore' = NoRestore
    /\ UNCHANGED <<root, session, writer, backupVars, stage, counts, historyVars>>

\* The checks of restore_backup before it stages anything.
BeginRestore ==
    /\ restore.pc = "idle"
    /\ backup.pc = "idle"
    /\ manifest # None
    /\ counts["restores"] < MaxRestores
    /\ Count("restores")
    /\ LET verified == /\ LoadPages
                       /\ InPathOrder(Entries)
                       /\ Len(Entries) = manifest.entry_count
       IN  IF ~verified
           THEN refusal' = "integrity_error" /\ UNCHANGED <<restore, stage>>
           ELSE IF stage # None
           THEN refusal' = "staging_exists" /\ UNCHANGED <<restore, stage>>
           ELSE /\ restore' = [pc |-> "stage", entries |-> Entries, next |-> 1]
                /\ stage' = Nothing
                /\ refusal' = "none"
    /\ UNCHANGED <<root, session, writer, backupVars, historyVars>>

\* Mutant of Verified: the object only has to be there.
Present(entry) == entry.path \in DOMAIN objects

Verified(entry) ==
    entry.path \in DOMAIN objects /\ objects[entry.path] = entry.sha256

\* An object is verified and staged; one that fails ends the restore, and
\* leaves the staging directory.
StageFile ==
    LET entry == restore.entries[restore.next]
    IN  /\ restore.pc = "stage"
        /\ IF Verified(entry)
           THEN /\ stage' = With(stage, entry.path, objects[entry.path])
                /\ restore' = [restore EXCEPT
                     !.next = @ + 1,
                     !.pc = IF restore.next = Len(restore.entries) THEN "replace" ELSE @]
                /\ UNCHANGED <<root, session, writer, backupVars, refusal, counts,
                               historyVars>>
           ELSE Refuse("integrity_error")

\* os.replace; a root that exists is never overwritten.
ReplaceRoot ==
    /\ restore.pc = "replace"
    /\ IF DOMAIN root # {} THEN Refuse("root_exists")
       ELSE /\ Moment(stage)
            /\ stage' = None
            /\ restore' = NoRestore
            /\ UNCHANGED <<session, writer, backupVars, refusal, counts, disturbed,
                           archived>>

-----------------------------------------------------------------------------
(* The environment *)

\* An operator removes the staging directory a failed restore left.
ClearStage ==
    /\ stage # None
    /\ restore.pc = "idle"
    /\ stage' = None
    /\ UNCHANGED <<root, session, writer, backupVars, restore, refusal, counts,
                   historyVars>>

\* The runtime root is deleted or relocated, with the fence in it.
LoseRoot ==
    /\ writer.pc = "idle"
    /\ backup.pc = "idle"
    /\ DOMAIN root # {}
    /\ counts["losses"] < MaxLosses
    /\ Count("losses")
    /\ root' = Nothing
    /\ fence' = FALSE
    /\ UNCHANGED <<session, writer, backup, pages, manifest, objects, restoreVars,
                   historyVars>>

Damage(archivePages, archiveObjects) ==
    /\ backup.pc = "idle"
    /\ restore.pc = "idle"
    /\ counts["crashes"] + counts["damages"] < MaxFaults
    /\ Count("damages")
    /\ pages' = archivePages
    /\ objects' = archiveObjects
    /\ disturbed' = TRUE
    /\ UNCHANGED <<root, session, writer, fence, backup, manifest, restoreVars, moments,
                   archived>>

\* A file of the archive changes, goes missing, or two pages trade places.
DamageArchive ==
    \/ \E p \in DOMAIN objects : Damage(pages, With(objects, p, {}))
    \/ \E p \in DOMAIN objects : Damage(pages, Without(objects, p))
    \/ \E i \in DOMAIN pages : Damage(Without(pages, i), objects)
    \/ \E i, j \in DOMAIN pages :
         i < j /\ Damage([pages EXCEPT ![i] = pages[j], ![j] = pages[i]], objects)

Init ==
    /\ root = Nothing
    /\ fence = FALSE
    /\ session = None
    /\ writer = [pc |-> "idle", delivery |-> None]
    /\ backup = NoBackup
    /\ pages = Nothing
    /\ manifest = None
    /\ objects = Nothing
    /\ restore = NoRestore
    /\ stage = None
    /\ refusal = "none"
    /\ counts = [n \in {"backups", "restores", "crashes", "damages", "losses"} |-> 0]
    /\ moments = {Nothing}
    /\ disturbed = FALSE
    /\ archived = [entries |-> <<>>, copied |-> 0]

Next ==
    \/ \E d \in Deliveries : OpenSession(d)
    \/ PreservePayload \/ PreserveManifest \/ PreserveReceipt
    \/ SubmitAttempt \/ LandRows \/ CommitAttempt \/ CloseSession \/ CrashWriter
    \/ BeginBackup \/ CloseForBackup \/ ListFiles \/ HashFile \/ WritePage
    \/ WriteManifest \/ CopyFile \/ CrashBackup
    \/ BeginRestore \/ StageFile \/ ReplaceRoot
    \/ ClearStage \/ LoseRoot \/ DamageArchive

Spec == Init /\ [][Next]_vars

-----------------------------------------------------------------------------
(* Properties *)

\* Every file has a content, a session has a process, and the fence is held
\* only by a backup that runs or that died.
LocalRootTypeOK ==
    /\ \A f \in {root, objects} : \A p \in DOMAIN f : f[p] \subseteq Facts
    /\ session = "writer" => writer.pc # "idle"
    /\ session = "backup" => backup.pc = "close"
    /\ fence => backup.pc # "idle" \/ counts["crashes"] > 0
    /\ restore.pc # "idle" => stage # None

\* The backup that wrote the manifest copied every file of it.
CopiedWhole == archived.copied = Len(archived.entries)

\* What a restore puts in place is what the root held at one single moment,
\* for every file of it: not a mixture of before and after a delivery that was
\* ingested while the backup ran, of two backups in one destination, or of
\* what damage left of them.  Where nothing disturbed the backup
\* it is all the root held.  The copies of an earlier root, which a backup that
\* died before its own copies left in the archive, can make a mixture.
RestoredIsOneMoment ==
    [][root = Nothing /\ DOMAIN root' # {} /\ restore.pc = "replace"
         /\ restore'.pc = "idle" /\ (CopiedWhole \/ counts["losses"] <= 1) =>
       \E m \in moments :
         /\ \A p \in DOMAIN root' : p \in DOMAIN m /\ root'[p] = m[p]
         /\ disturbed \/ counts["crashes"] > 0 \/ DOMAIN m = DOMAIN root']_vars

\* A backup that nothing disturbed can be restored: the restore finds fault
\* with an archive only after damage, a crash, or ingestion amid the backup.
RefusalHasCause ==
    refusal = "integrity_error" =>
      disturbed \/ counts["crashes"] > 0

\* The root and its archive are well formed, and an archive nothing disturbed is
\* one a restore accepts.
LocalRootInvariant ==
    /\ LocalRootTypeOK
    /\ RefusalHasCause
=============================================================================
