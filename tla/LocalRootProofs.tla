--------------------------- MODULE LocalRootProofs ---------------------------
(***************************************************************************)
(* A restored runtime root is what the root held at one moment, proved for   *)
(* LocalRoot with any deliveries, any page size and any bounds.              *)
(*                                                                         *)
(* The argument is that within the life of a root the content of a file      *)
(* never comes back once it has changed.  A copy that equals the digest was   *)
(* therefore the content all the way from the one to the other.  A backup    *)
(* hashes and copies in one order, so for every number k of copies made all   *)
(* these intervals contain the moment after the k-th file was hashed.        *)
(***************************************************************************)
EXTENDS LocalRoot, TLAPS, FiniteSetTheorems, FunctionTheorems, SequenceTheorems,
        WellFoundedInduction

-----------------------------------------------------------------------------
(* Contents *)

Seen(c) == {d \in Deliveries : <<"live", d>> \in c \/ <<"accepted", d>> \in c}
Accepted(c) == {d \in Deliveries : <<"accepted", d>> \in c}
Landed(c) == {d \in Deliveries : <<"landed", d>> \in c}

\* What the file of a path may hold.  An object and a receipt have one content.
Content(p, c) ==
    /\ c \subseteq Facts /\ c # {}
    /\ p[2] = "payload" => c = {<<"bytes", p[1] - 100>>}
    /\ p[2] = "manifest" => c = {<<"manifest", p[1] - 200>>}
    /\ p[2] = "receipt" => c = {<<"receipt", p[1] - 300>>}
    /\ p = Wal => c \subseteq {"landed"} \X Deliveries

\* A runtime root is empty or has both databases; a delivery whose rows are in
\* DuckDB or in its log has an attempt, and no row is in both.
RootShape(f) ==
    /\ DOMAIN f \subseteq Paths
    /\ f \in [DOMAIN f -> SUBSET Facts]
    /\ DOMAIN f # {} => DuckDB \in DOMAIN f /\ Sqlite \in DOMAIN f
    /\ \A p \in DOMAIN f : Content(p, f[p])
    /\ DOMAIN f # {} => Landed(f[DuckDB]) \subseteq Seen(f[Sqlite])
    /\ Wal \in DOMAIN f => /\ f[Wal] \cap f[DuckDB] = {}
                           /\ Landed(f[Wal]) \subseteq Seen(f[Sqlite])

\* How a root changes while it lives, from f to g.
Grows(f, g) ==
    /\ \A p \in DOMAIN f : p \in DOMAIN g \/ p = Wal
    /\ f[DuckDB] \subseteq g[DuckDB]
    /\ Wal \in DOMAIN f /\ Wal \in DOMAIN g => f[Wal] \subseteq g[Wal]
    /\ Wal \in DOMAIN f /\ Wal \notin DOMAIN g => f[Wal] \subseteq g[DuckDB]
    /\ Accepted(f[Sqlite]) \subseteq Accepted(g[Sqlite])
    /\ Seen(f[Sqlite]) \subseteq Seen(g[Sqlite])
    /\ Accepted(f[Sqlite]) = Accepted(g[Sqlite]) /\ Seen(f[Sqlite]) = Seen(g[Sqlite])
         => f[Sqlite] = g[Sqlite]

\* The content c of p can never come back while the root f lives.
Passed(p, c, f) ==
    \/ p = DuckDB /\ ~(f[DuckDB] \subseteq c)
    \/ p = Sqlite /\ (\/ ~(Accepted(f[Sqlite]) \subseteq Accepted(c))
                      \/ ~(Seen(f[Sqlite]) \subseteq Seen(c)))
    \/ p = Wal /\ (\/ c \cap f[DuckDB] # {}
                   \/ /\ Wal \in DOMAIN f
                      /\ c \cap f[Wal] # {}
                      /\ ~(f[Wal] \subseteq c))

Holds(f, p, c) == p \in DOMAIN f /\ f[p] = c

HoldsOrPassed(p, c, f) == Holds(f, p, c) \/ Passed(p, c, f)

\* The content c that p once had, against the root f later.
Earlier(p, c, f) ==
    /\ p = DuckDB => c \subseteq f[DuckDB]
    /\ p = Wal => Landed(c) \subseteq Seen(f[Sqlite])

-----------------------------------------------------------------------------
(* Entries and files *)

EntryRecords == [path : Paths, sha256 : SUBSET Facts]

Increasing(entries) ==
    \A i, j \in 1..Len(entries) : i < j => entries[i].path[1] < entries[j].path[1]

\* What the entries of one backup say fits together as a root.
Fit(entries) ==
    /\ entries \in Seq(EntryRecords)
    /\ Increasing(entries)
    /\ \A i \in 1..Len(entries) : Content(entries[i].path, entries[i].sha256)
    /\ \A i, j \in 1..Len(entries) :
         /\ entries[i].path = DuckDB /\ entries[j].path = Wal
              => entries[i].sha256 \cap entries[j].sha256 = {}
         /\ entries[i].path \in {DuckDB, Wal} /\ entries[j].path = Sqlite
              => Landed(entries[i].sha256) \subseteq Seen(entries[j].sha256)

HasDatabases(entries) ==
    /\ \E i \in 1..Len(entries) : entries[i].path = DuckDB
    /\ \E i \in 1..Len(entries) : entries[i].path = Sqlite

FilesShape(files) ==
    /\ files \in Seq(Paths)
    /\ \A i, j \in 1..Len(files) : i < j => files[i][1] < files[j][1]
    /\ \E i \in 1..Len(files) : files[i] = DuckDB
    /\ \E i \in 1..Len(files) : files[i] = Sqlite

ManifestOf(entries) ==
    [entry_count |-> Len(entries), page_count |-> PageCount(entries),
     final |-> PageChain(entries)[PageCount(entries) - 1].digest]

PagesHold(entries) ==
    \A i \in 0..(PageCount(entries) - 1) : i \in DOMAIN pages /\ pages[i] = PageChain(entries)[i]

-----------------------------------------------------------------------------
(* The parts of the inductive invariant *)

RootWell ==
    /\ RootShape(root)
    /\ {root, Nothing} \subseteq moments

CountsWell ==
    /\ counts \in [{"backups", "restores", "crashes", "damages", "losses"} -> Nat]
    /\ disturbed \in BOOLEAN
    /\ fence \in BOOLEAN

WriterSteps == {"payload", "manifest", "receipt", "submit", "land", "commit", "close"}

WriterWell ==
    /\ writer \in [pc : {"idle"} \cup WriterSteps, delivery : Deliveries \cup {None}]
    /\ session = "writer" <=> writer.pc # "idle"
    /\ writer.pc # "idle" => DOMAIN root # {} /\ writer.delivery \in Deliveries
    /\ writer.pc \in WriterSteps \ {"close"}
         => writer.delivery \notin Accepted(root[Sqlite])
    /\ writer.pc = "submit" => writer.delivery \notin Seen(root[Sqlite])
    /\ writer.pc = "land" => /\ writer.delivery \in Seen(root[Sqlite])
                             /\ writer.delivery \notin Landed(root[DuckDB])
                             /\ Wal \in DOMAIN root
                                 => writer.delivery \notin Landed(root[Wal])

Listed == {"hash", "pages", "manifest", "copy"}

BackupWell ==
    /\ backup \in [pc : {"idle", "close", "list"} \cup Listed, files : Seq(Paths),
                   entries : Seq(EntryRecords), next : Nat, page : Nat]
    /\ session = "backup" <=> backup.pc = "close"
    /\ fence => backup.pc # "idle" \/ counts["crashes"] > 0
    /\ backup.pc # "idle" => DOMAIN root # {} /\ restore.pc = "idle"
    /\ backup.pc \notin Listed => backup.entries = <<>> /\ backup.next = 1
    /\ backup.pc \notin Listed \ {"hash"} => backup.page = 0
    /\ backup.pc \in Listed => FilesShape(backup.files)
    /\ backup.pc = "hash" => /\ backup.next \in 1..Len(backup.files)
                             /\ Len(backup.entries) = backup.next - 1
    /\ backup.pc \in Listed \ {"hash"} => /\ Len(backup.entries) = Len(backup.files)
                                          /\ backup.next \in 1..Len(backup.files)
    /\ backup.pc \in {"pages", "manifest"} => backup.next = 1
    /\ backup.pc = "copy" => /\ archived.entries = backup.entries
                             /\ archived.copied = backup.next - 1
    /\ \A i \in 1..Len(backup.entries) : backup.entries[i].path = backup.files[i]

\* What was hashed is still there or will never come back.
HashesWell ==
    /\ Fit(backup.entries)
    /\ \A i \in 1..Len(backup.entries) :
         /\ Earlier(backup.entries[i].path, backup.entries[i].sha256, root)
         /\ HoldsOrPassed(backup.entries[i].path, backup.entries[i].sha256, root)

ArchiveWell ==
    /\ archived \in [entries : Seq(EntryRecords), copied : Nat]
    /\ Fit(archived.entries)
    /\ archived.entries # <<>> => HasDatabases(archived.entries)
    /\ manifest # None => /\ archived.entries # <<>>
                          /\ manifest = ManifestOf(archived.entries)
    /\ objects \in [DOMAIN objects -> SUBSET Facts]

RestoreWell ==
    /\ restore.pc \in {"idle", "stage", "replace"}
    /\ restore.pc # "idle" =>
         /\ restore \in [pc : {"stage", "replace"}, entries : {archived.entries}, next : Nat]
         /\ archived.entries # <<>>
         /\ manifest # None
         /\ backup.pc = "idle"
         /\ restore.pc = "stage" => restore.next \in 1..Len(archived.entries)
         /\ restore.pc = "replace" => restore.next = Len(archived.entries) + 1
         /\ \A i \in 1..(restore.next - 1) : Verified(archived.entries[i])
         /\ stage = [p \in {archived.entries[i].path : i \in 1..(restore.next - 1)}
                       |-> objects[p]]
         /\ stage # None

\* In the life of the first root every object is a copy of it, or damaged.
CopiesWell ==
    counts["losses"] = 0 =>
      \A p \in DOMAIN objects :
        objects[p] = {} \/ (DOMAIN root # {} /\ HoldsOrPassed(p, objects[p], root))

\* The moments that may witness k copies: any k in the life of the first root.
Witnesses(low, entries) == (IF counts["losses"] = 0 THEN low ELSE Len(entries))..Len(entries)

\* The content m fits what was hashed and not copied yet, of the first k files.
FitsHashed(m, k) ==
    /\ \A i \in 1..k :
         LET e == backup.entries[i]
         IN  Holds(m, e.path, e.sha256) \/ Passed(e.path, e.sha256, root)
    /\ counts["losses"] = 0 =>
         /\ \A i \in (k + 1)..Len(backup.entries) :
              Verified(backup.entries[i])
                => Holds(m, backup.entries[i].path, backup.entries[i].sha256)
         /\ \A p \in DOMAIN objects :
              objects[p] = {} \/ Holds(m, p, objects[p]) \/ Passed(p, objects[p], root)

\* The content m is that of every file copied, or copied before, as hashed.
FitsCopied(m, k) ==
    \A i \in 1..Len(backup.entries) :
      LET e == backup.entries[i]
      IN  IF i < backup.next \/ k < i
          THEN Verified(e) => Holds(m, e.path, e.sha256)
          ELSE Holds(m, e.path, e.sha256) \/ Passed(e.path, e.sha256, root)

MomentsWell ==
    /\ backup.pc \in {"hash", "pages", "manifest"} =>
         \A k \in Witnesses(0, backup.entries) : k > 0 \/ counts["losses"] = 0 =>
           \E m \in moments : FitsHashed(m, k)
    /\ backup.pc = "copy" =>
         \A k \in Witnesses(backup.next - 1, backup.entries) :
           \E m \in moments : FitsCopied(m, k)

\* Every file of the archive that verifies is of one moment.
ArchiveIsOneMoment ==
    CopiedWhole \/ counts["losses"] = 0 \/ (counts["losses"] = 1 /\ root = Nothing) =>
      \E m \in moments : \A i \in 1..Len(archived.entries) :
        Verified(archived.entries[i])
          => Holds(m, archived.entries[i].path, archived.entries[i].sha256)

Undisturbed == ~disturbed /\ counts["crashes"] = 0

\* The entries are those of every file of f.
Describes(entries, f) ==
    /\ \A i \in 1..Len(entries) : Holds(f, entries[i].path, entries[i].sha256)
    /\ \A p \in DOMAIN f : \E i \in 1..Len(entries) : entries[i].path = p

UndisturbedWell ==
    Undisturbed =>
      /\ refusal # "integrity_error"
      /\ backup.pc \in Listed =>
           /\ \A i \in 1..Len(backup.files) : backup.files[i] \in DOMAIN root
           /\ \A p \in DOMAIN root : \E i \in 1..Len(backup.files) : backup.files[i] = p
           /\ \A i \in 1..Len(backup.entries) :
                backup.entries[i].sha256 = root[backup.entries[i].path]
      /\ backup.pc = "pages" =>
           \A i \in 0..(backup.page - 1) :
             i \in DOMAIN pages /\ pages[i] = PageChain(backup.entries)[i]
      /\ backup.pc \in {"manifest", "copy"} => PagesHold(backup.entries)
      /\ backup.pc = "copy" =>
           \A i \in 1..(backup.next - 1) : Verified(backup.entries[i])
      /\ backup.pc = "idle" /\ manifest # None =>
           /\ PagesHold(archived.entries)
           /\ \A i \in 1..Len(archived.entries) : Verified(archived.entries[i])
           /\ \E m \in moments : Describes(archived.entries, m)

LocalRootInductive ==
    /\ RootWell
    /\ CountsWell
    /\ WriterWell
    /\ BackupWell
    /\ HashesWell
    /\ ArchiveWell
    /\ RestoreWell
    /\ CopiesWell
    /\ MomentsWell
    /\ ArchiveIsOneMoment
    /\ UndisturbedWell

-----------------------------------------------------------------------------
(* Paths and directories *)

LEMMA WithTyped ==
    ASSUME NEW S, NEW f, f \in [DOMAIN f -> S], NEW p, NEW c \in S
    PROVE  With(f, p, c) \in [DOMAIN f \cup {p} -> S]
BY DEF With

LEMMA WithoutTyped ==
    ASSUME NEW S, NEW f, f \in [DOMAIN f -> S], NEW p
    PROVE  Without(f, p) \in [DOMAIN f \ {p} -> S]
BY DEF Without

\* A path is that of a database or of its log, or has its own kind of name.
LEMMA PathNames ==
    /\ DuckDB \in Paths /\ Wal \in Paths /\ Sqlite \in Paths
    /\ DuckDB # Wal /\ DuckDB # Sqlite /\ Wal # Sqlite
    /\ DuckDB[1] = 0 /\ Wal[1] = 1 /\ Sqlite[1] = 2
    /\ \A p \in {DuckDB, Wal, Sqlite} : p[2] \notin {"payload", "manifest", "receipt"}
    /\ \A p \in Paths : \/ p \in {DuckDB, Wal, Sqlite}
                        \/ p[2] \in {"payload", "manifest", "receipt"}
<1>1. DuckDB \in Paths /\ Wal \in Paths /\ Sqlite \in Paths
  BY DEF Paths
<1>2. /\ DuckDB # Wal /\ DuckDB # Sqlite /\ Wal # Sqlite
      /\ DuckDB[1] = 0 /\ Wal[1] = 1 /\ Sqlite[1] = 2
      /\ \A p \in {DuckDB, Wal, Sqlite} : p[2] \notin {"payload", "manifest", "receipt"}
  BY DEF DuckDB, Wal, Sqlite
<1>3. \A p \in Paths : \/ p \in {DuckDB, Wal, Sqlite}
                       \/ p[2] \in {"payload", "manifest", "receipt"}
  BY DEF Paths, Object, Receipt
<1>. QED BY <1>1, <1>2, <1>3

LEMMA StoreNames ==
    ASSUME NEW d \in Deliveries
    PROVE  /\ Object("payload", d) \in Paths /\ Object("payload", d) = <<100 + d, "payload">>
           /\ Object("manifest", d) \in Paths /\ Object("manifest", d) = <<200 + d, "manifest">>
           /\ Receipt(d) \in Paths /\ Receipt(d) = <<300 + d, "receipt">>
           /\ d \in 1..99
BY LocalRootParameters DEF Paths, Object, Receipt

\* The rank of a path is its own.
LEMMA RanksDiffer ==
    /\ \A p \in Paths : p[1] \in Nat
    /\ \A p, q \in Paths : p[1] = q[1] => p = q
<1> DEFINE Files == {DuckDB, Wal, Sqlite}
           Payloads == {Object("payload", d) : d \in Deliveries}
           Manifests == {Object("manifest", d) : d \in Deliveries}
           Receipts == {Receipt(d) : d \in Deliveries}
<1>1. Paths = Files \cup Payloads \cup Manifests \cup Receipts
  BY DEF Paths
<1>2. \A p \in Files : p[1] \in 0..2
  BY PathNames
<1>3. \A p \in Payloads : p[1] \in 101..199 /\ p = <<p[1], "payload">>
  BY StoreNames
<1>4. \A p \in Manifests : p[1] \in 201..299 /\ p = <<p[1], "manifest">>
  BY StoreNames
<1>5. \A p \in Receipts : p[1] \in 301..399 /\ p = <<p[1], "receipt">>
  BY StoreNames
<1>6. \A p, q \in Files : p[1] = q[1] => p = q
  BY PathNames
<1> HIDE DEF Files, Payloads, Manifests, Receipts
<1>7. \A p \in Paths : p[1] \in Nat
  BY <1>1, <1>2, <1>3, <1>4, <1>5
<1>8. ASSUME NEW p \in Paths, NEW q \in Paths, p[1] = q[1] PROVE p = q
  <2>1. CASE p \in Files
    <3>1. q \in Files
      <4>1. q[1] = p[1] /\ p[1] \in 0..2
        BY <1>2, <1>8, <2>1
      <4>2. q \notin Payloads
        BY <4>1, <1>3
      <4>3. q \notin Manifests
        BY <4>1, <1>4
      <4>4. q \notin Receipts
        BY <4>1, <1>5
      <4>. QED BY <1>1, <4>2, <4>3, <4>4
    <3>. QED BY <1>6, <1>8, <2>1, <3>1
  <2>2. CASE p \in Payloads
    <3>1. q \in Payloads
      <4>1. q[1] = p[1] /\ p[1] \in 101..199
        BY <1>3, <1>8, <2>2
      <4>2. q \notin Files
        BY <4>1, <1>2
      <4>3. q \notin Manifests
        BY <4>1, <1>4
      <4>4. q \notin Receipts
        BY <4>1, <1>5
      <4>. QED BY <1>1, <4>2, <4>3, <4>4
    <3>. QED BY <1>3, <1>8, <2>2, <3>1
  <2>3. CASE p \in Manifests
    <3>1. q \in Manifests
      <4>1. q[1] = p[1] /\ p[1] \in 201..299
        BY <1>4, <1>8, <2>3
      <4>2. q \notin Files
        BY <4>1, <1>2
      <4>3. q \notin Payloads
        BY <4>1, <1>3
      <4>4. q \notin Receipts
        BY <4>1, <1>5
      <4>. QED BY <1>1, <4>2, <4>3, <4>4
    <3>. QED BY <1>4, <1>8, <2>3, <3>1
  <2>4. CASE p \in Receipts
    <3>1. q \in Receipts
      <4>1. q[1] = p[1] /\ p[1] \in 301..399
        BY <1>5, <1>8, <2>4
      <4>2. q \notin Files
        BY <4>1, <1>2
      <4>3. q \notin Payloads
        BY <4>1, <1>3
      <4>4. q \notin Manifests
        BY <4>1, <1>4
      <4>. QED BY <1>1, <4>2, <4>3, <4>4
    <3>. QED BY <1>5, <1>8, <2>4, <3>1
  <2>. QED BY <1>1, <2>1, <2>2, <2>3, <2>4
<1>. QED BY <1>7, <1>8

-----------------------------------------------------------------------------
(* Contents that do not come back *)

LEMMA PassedIsGone ==
    ASSUME NEW f, RootShape(f), NEW p \in DOMAIN f, NEW c, Passed(p, c, f)
    PROVE  f[p] # c
BY DEF Passed, RootShape

LEMMA PassedStays ==
    ASSUME NEW f, NEW g, Grows(f, g), NEW p, NEW c, Passed(p, c, f)
    PROVE  Passed(p, c, g)
<1>1. CASE p = DuckDB /\ ~(f[DuckDB] \subseteq c)
  BY <1>1 DEF Passed, Grows
<1>2. CASE p = Sqlite /\ ~(Accepted(f[Sqlite]) \subseteq Accepted(c))
  BY <1>2 DEF Passed, Grows
<1>3. CASE p = Sqlite /\ ~(Seen(f[Sqlite]) \subseteq Seen(c))
  BY <1>3 DEF Passed, Grows
<1>4. CASE p = Wal /\ c \cap f[DuckDB] # {}
  BY <1>4 DEF Passed, Grows
<1>5. CASE p = Wal /\ Wal \in DOMAIN f /\ c \cap f[Wal] # {} /\ ~(f[Wal] \subseteq c)
  BY <1>5 DEF Passed, Grows
<1>. QED BY <1>1, <1>2, <1>3, <1>4, <1>5 DEF Passed

LEMMA ChangedIsPassed ==
    ASSUME NEW f, RootShape(f), NEW g, RootShape(g), DOMAIN f # {}, Grows(f, g),
           NEW p \in DOMAIN f
    PROVE  HoldsOrPassed(p, f[p], g)
<1>0. /\ DuckDB \in DOMAIN f /\ Sqlite \in DOMAIN f
      /\ p \in Paths /\ Content(p, f[p])
  BY DEF RootShape
<1>1. CASE p = DuckDB
  BY <1>0, <1>1, PathNames DEF HoldsOrPassed, Holds, Passed, Grows
<1>2. CASE p = Sqlite
  BY <1>0, <1>2, PathNames DEF HoldsOrPassed, Holds, Passed, Grows
<1>3. CASE p = Wal /\ Wal \in DOMAIN g
  <2>1. f[Wal] # {} /\ f[Wal] \subseteq g[Wal]
    BY <1>0, <1>3 DEF Grows, Content
  <2>2. CASE f[Wal] = g[Wal]
    BY <1>3, <2>2 DEF HoldsOrPassed, Holds
  <2>3. CASE f[Wal] # g[Wal]
    <3>1. ~(g[Wal] \subseteq f[Wal]) /\ f[Wal] \cap g[Wal] # {}
      BY <2>1, <2>3
    <3>. QED BY <1>3, <3>1 DEF HoldsOrPassed, Passed
  <2>. QED BY <2>2, <2>3
<1>4. CASE p = Wal /\ Wal \notin DOMAIN g
  BY <1>0, <1>4 DEF HoldsOrPassed, Holds, Passed, Grows, Content
<1>5. CASE p \notin {DuckDB, Wal, Sqlite}
  <2>1. p \in DOMAIN g
    BY <1>5 DEF Grows
  <2>2. Content(p, g[p])
    BY <2>1 DEF RootShape
  <2>3. p[2] \in {"payload", "manifest", "receipt"}
    BY <1>0, <1>5, PathNames
  <2>4. f[p] = g[p]
    BY <1>0, <2>2, <2>3 DEF Content
  <2>. QED BY <2>1, <2>4 DEF HoldsOrPassed, Holds
<1>. QED BY <1>1, <1>2, <1>3, <1>4, <1>5

LEMMA HoldsOrPassedStays ==
    ASSUME NEW f, RootShape(f), NEW g, RootShape(g), DOMAIN f # {}, Grows(f, g),
           NEW p, NEW c, HoldsOrPassed(p, c, f)
    PROVE  HoldsOrPassed(p, c, g)
BY ChangedIsPassed, PassedStays DEF HoldsOrPassed, Holds

LEMMA EarlierStays ==
    ASSUME NEW f, NEW g, Grows(f, g), NEW p, NEW c, Earlier(p, c, f)
    PROVE  Earlier(p, c, g)
BY DEF Earlier, Grows

LEMMA GrowsReflexive ==
    ASSUME NEW f
    PROVE  Grows(f, f)
BY DEF Grows

-----------------------------------------------------------------------------
(* The steps of a living root *)

LEMMA RootNonempty ==
    ASSUME NEW f, RootShape(f), DOMAIN f # {}
    PROVE  DuckDB \in DOMAIN f /\ Sqlite \in DOMAIN f
BY DEF RootShape

\* Opening makes the databases of a root that has none.
LEMMA OpenedShape ==
    ASSUME RootShape(root)
    PROVE  /\ RootShape(Opened) /\ DOMAIN Opened # {}
           /\ DOMAIN root # {} => Opened = root
           /\ DOMAIN root = {} => Seen(Opened[Sqlite]) = {} /\ Landed(Opened[DuckDB]) = {}
                                    /\ Wal \notin DOMAIN Opened
<1>1. CASE DuckDB \in DOMAIN root
  BY <1>1 DEF Opened
<1>2. CASE DuckDB \notin DOMAIN root
  <2>1. DOMAIN root = {}
    BY <1>2, RootNonempty
  <2> DEFINE c == {<<"schema", None>>}
             f == With(root, DuckDB, c)
             g == With(f, Sqlite, c)
  <2>2. Opened = g
    BY <1>2 DEF Opened
  <2>3. DOMAIN f = {DuckDB} /\ f[DuckDB] = c
    BY <2>1 DEF With
  <2> HIDE DEF f
  <2>4. DOMAIN g = {DuckDB, Sqlite} /\ g[Sqlite] = c /\ g[DuckDB] = c
    BY <2>3, PathNames DEF With
  <2> HIDE DEF g
  <2>5. Content(DuckDB, c) /\ Content(Sqlite, c)
    BY PathNames DEF Content, Facts
  <2>6. Seen(c) = {} /\ Landed(c) = {}
    BY DEF Seen, Landed
  <2>7. Wal \notin DOMAIN g
    BY <2>4, PathNames
  <2>8. g \in [DOMAIN g -> SUBSET Facts]
    <3>1. c \in SUBSET Facts
      BY <2>5 DEF Content
    <3>2. root \in [DOMAIN root -> SUBSET Facts]
      BY DEF RootShape
    <3>3. f \in [DOMAIN f -> SUBSET Facts]
      BY <2>1, <3>1 DEF f, With
    <3>. QED BY <2>3, <2>4, <3>1, <3>3, WithTyped DEF g
  <2>9. RootShape(g)
    BY <2>4, <2>5, <2>6, <2>7, <2>8, PathNames DEF RootShape
  <2>. QED BY <2>1, <2>2, <2>4, <2>6, <2>7, <2>9
<1>. QED BY <1>1, <1>2

\* The checkpoint folds the log into the file.
LEMMA CheckpointedShape ==
    ASSUME RootShape(root), DOMAIN root # {}
    PROVE  /\ RootShape(Checkpointed) /\ DOMAIN Checkpointed # {}
           /\ Grows(root, Checkpointed)
           /\ Checkpointed[Sqlite] = root[Sqlite]
<1>0. DuckDB \in DOMAIN root /\ Sqlite \in DOMAIN root
  BY RootNonempty
<1>1. CASE Wal \notin DOMAIN root
  BY <1>0, <1>1, GrowsReflexive DEF Checkpointed
<1>2. CASE Wal \in DOMAIN root
  <2> DEFINE f == [root EXCEPT ![DuckDB] = @ \cup root[Wal]]
             g == Without(f, Wal)
  <2>1. Checkpointed = g
    BY <1>2 DEF Checkpointed
  <2>2. /\ DOMAIN f = DOMAIN root /\ f[DuckDB] = root[DuckDB] \cup root[Wal]
        /\ \A q \in DOMAIN root : q # DuckDB => f[q] = root[q]
    BY <1>0
  <2> HIDE DEF f
  <2>3. /\ DOMAIN g = DOMAIN root \ {Wal}
        /\ g[DuckDB] = root[DuckDB] \cup root[Wal]
        /\ \A q \in DOMAIN g : q # DuckDB => g[q] = root[q]
    BY <1>0, <2>2, PathNames DEF Without
  <2> HIDE DEF g
  <2>4. Content(DuckDB, g[DuckDB])
    <3>1. Content(DuckDB, root[DuckDB]) /\ Content(Wal, root[Wal])
      BY <1>0, <1>2 DEF RootShape
    <3>. QED BY <2>3, <3>1, PathNames DEF Content
  <2>5. \A q \in DOMAIN g : Content(q, g[q])
    BY <2>3, <2>4 DEF RootShape
  <2>6. Landed(g[DuckDB]) = Landed(root[DuckDB]) \cup Landed(root[Wal])
    BY <2>3 DEF Landed
  <2>7. g[Sqlite] = root[Sqlite] /\ DuckDB \in DOMAIN g /\ Sqlite \in DOMAIN g /\ Wal \notin DOMAIN g
    BY <1>0, <2>3, PathNames
  <2>8. g \in [DOMAIN g -> SUBSET Facts]
    <3>1. f \in [DOMAIN f -> SUBSET Facts]
      BY <1>0, <1>2, <2>2 DEF f, RootShape
    <3>. QED BY <2>2, <2>3, <3>1, WithoutTyped DEF g
  <2>9. RootShape(g)
    BY <1>2, <1>0, <2>3, <2>5, <2>6, <2>7, <2>8 DEF RootShape
  <2>10. Grows(root, g)
    BY <1>2, <1>0, <2>3, <2>7 DEF Grows
  <2>. QED BY <2>1, <2>7, <2>9, <2>10
<1>. QED BY <1>1, <1>2

\* An object or a receipt is written.
LEMMA StoreShape ==
    ASSUME NEW f, RootShape(f), DOMAIN f # {}, NEW p \in Paths \ {DuckDB, Wal, Sqlite},
           NEW c, Content(p, c)
    PROVE  /\ RootShape(With(f, p, c)) /\ Grows(f, With(f, p, c))
           /\ With(f, p, c)[Sqlite] = f[Sqlite] /\ With(f, p, c)[DuckDB] = f[DuckDB]
           /\ Wal \in DOMAIN With(f, p, c) => Wal \in DOMAIN f /\ With(f, p, c)[Wal] = f[Wal]
<1> DEFINE g == With(f, p, c)
<1>0. DuckDB \in DOMAIN f /\ Sqlite \in DOMAIN f
  BY RootNonempty
<1>1. /\ DOMAIN g = DOMAIN f \cup {p} /\ g[p] = c
      /\ \A q \in DOMAIN f : q # p => g[q] = f[q]
  BY DEF With
<1> HIDE DEF g
<1>2. /\ g[Sqlite] = f[Sqlite] /\ g[DuckDB] = f[DuckDB]
      /\ Wal \in DOMAIN g => Wal \in DOMAIN f /\ g[Wal] = f[Wal]
      /\ Wal \in DOMAIN f => Wal \in DOMAIN g
  BY <1>0, <1>1
<1>3. \A q \in DOMAIN g : Content(q, g[q])
  BY <1>1 DEF RootShape
<1>4. g \in [DOMAIN g -> SUBSET Facts]
  <2>1. c \in SUBSET Facts /\ f \in [DOMAIN f -> SUBSET Facts]
    BY DEF RootShape, Content
  <2>. QED BY <1>1, <2>1, WithTyped DEF g
<1>5. DOMAIN g \subseteq Paths /\ DuckDB \in DOMAIN g /\ Sqlite \in DOMAIN g
  BY <1>0, <1>1 DEF RootShape
<1>6. RootShape(g)
  BY <1>0, <1>2, <1>3, <1>4, <1>5 DEF RootShape
<1>7. Grows(f, g)
  BY <1>0, <1>1, <1>2 DEF Grows
<1>8. RootShape(g) /\ Grows(f, g)
      /\ g[Sqlite] = f[Sqlite] /\ g[DuckDB] = f[DuckDB]
      /\ (Wal \in DOMAIN g => Wal \in DOMAIN f /\ g[Wal] = f[Wal])
  BY <1>2, <1>6, <1>7
<1>. QED BY <1>8 DEF g

\* The state store moves on.
LEMMA SqliteShape ==
    ASSUME NEW f, RootShape(f), DOMAIN f # {}, NEW c, c \subseteq Facts, c # {},
           Accepted(f[Sqlite]) \subseteq Accepted(c), Seen(f[Sqlite]) \subseteq Seen(c),
           Accepted(f[Sqlite]) # Accepted(c) \/ Seen(f[Sqlite]) # Seen(c)
    PROVE  /\ RootShape([f EXCEPT ![Sqlite] = c]) /\ Grows(f, [f EXCEPT ![Sqlite] = c])
           /\ DOMAIN [f EXCEPT ![Sqlite] = c] = DOMAIN f
           /\ [f EXCEPT ![Sqlite] = c][Sqlite] = c
           /\ [f EXCEPT ![Sqlite] = c][DuckDB] = f[DuckDB]
           /\ Wal \in DOMAIN f => [f EXCEPT ![Sqlite] = c][Wal] = f[Wal]
<1> DEFINE g == [f EXCEPT ![Sqlite] = c]
<1>0. DuckDB \in DOMAIN f /\ Sqlite \in DOMAIN f
  BY RootNonempty
<1>1. /\ DOMAIN g = DOMAIN f /\ g[Sqlite] = c
      /\ \A q \in DOMAIN f : q # Sqlite => g[q] = f[q]
  BY <1>0
<1> HIDE DEF g
<1>2. /\ g[DuckDB] = f[DuckDB]
      /\ Wal \in DOMAIN f => g[Wal] = f[Wal]
  BY <1>0, <1>1, PathNames
<1>3. \A q \in DOMAIN g : Content(q, g[q])
  <2>1. Content(Sqlite, c)
    BY PathNames DEF Content
  <2>. QED BY <1>1, <2>1 DEF RootShape
<1>4. g \in [DOMAIN g -> SUBSET Facts]
  BY DEF g, RootShape
<1>6. RootShape(g)
  BY <1>0, <1>1, <1>2, <1>3, <1>4 DEF RootShape
<1>7. Grows(f, g)
  BY <1>0, <1>1, <1>2 DEF Grows
<1>8. RootShape(g) /\ Grows(f, g) /\ DOMAIN g = DOMAIN f /\ g[Sqlite] = c
      /\ g[DuckDB] = f[DuckDB] /\ (Wal \in DOMAIN f => g[Wal] = f[Wal])
  BY <1>1, <1>2, <1>6, <1>7
<1>. QED BY <1>8 DEF g

\* A row is written to the log.
LEMMA WalShape ==
    ASSUME NEW f, RootShape(f), DOMAIN f # {}, NEW d \in Deliveries, d \in Seen(f[Sqlite]),
           d \notin Landed(f[DuckDB]),
           NEW c, c = (IF Wal \in DOMAIN f THEN f[Wal] ELSE {}) \cup {<<"landed", d>>}
    PROVE  /\ RootShape(With(f, Wal, c)) /\ Grows(f, With(f, Wal, c))
           /\ With(f, Wal, c)[Sqlite] = f[Sqlite]
<1> DEFINE g == With(f, Wal, c)
<1>0. DuckDB \in DOMAIN f /\ Sqlite \in DOMAIN f
  BY RootNonempty
<1>1. /\ DOMAIN g = DOMAIN f \cup {Wal} /\ g[Wal] = c
      /\ \A q \in DOMAIN f : q # Wal => g[q] = f[q]
  BY DEF With
<1> HIDE DEF g
<1>2. g[DuckDB] = f[DuckDB] /\ g[Sqlite] = f[Sqlite]
  BY <1>0, <1>1, PathNames
<1>3. Content(Wal, c)
  <2>1. <<"landed", d>> \in Facts /\ <<"landed", d>> \in {"landed"} \X Deliveries
    BY DEF Facts
  <2>2. Wal \in DOMAIN f => Content(Wal, f[Wal])
    BY DEF RootShape
  <2>. QED BY <2>1, <2>2, PathNames DEF Content
<1>4. \A q \in DOMAIN g : Content(q, g[q])
  BY <1>1, <1>3 DEF RootShape
<1>5. g \in [DOMAIN g -> SUBSET Facts]
  <2>1. c \in SUBSET Facts /\ f \in [DOMAIN f -> SUBSET Facts]
    BY <1>3 DEF RootShape, Content
  <2>. QED BY <1>1, <2>1, WithTyped DEF g
<1>6. Landed(c) \subseteq Seen(f[Sqlite])
  <2>1. CASE Wal \in DOMAIN f
    <3>1. Landed(f[Wal]) \subseteq Seen(f[Sqlite])
      BY <2>1 DEF RootShape
    <3>2. Landed(c) \subseteq Landed(f[Wal]) \cup {d}
      BY <2>1 DEF Landed
    <3>. QED BY <3>1, <3>2
  <2>2. CASE Wal \notin DOMAIN f
    <3>1. Landed(c) \subseteq {d}
      BY <2>2 DEF Landed
    <3>. QED BY <3>1
  <2>. QED BY <2>1, <2>2
<1>7. c \cap f[DuckDB] = {}
  <2>1. <<"landed", d>> \notin f[DuckDB]
    BY DEF Landed
  <2>2. Wal \in DOMAIN f => f[Wal] \cap f[DuckDB] = {}
    BY DEF RootShape
  <2>. QED BY <2>1, <2>2
<1>8. RootShape(g)
  BY <1>0, <1>1, <1>2, <1>4, <1>5, <1>6, <1>7, PathNames DEF RootShape
<1>9. Grows(f, g)
  BY <1>0, <1>1, <1>2 DEF Grows
<1>10. RootShape(g) /\ Grows(f, g) /\ g[Sqlite] = f[Sqlite]
  BY <1>2, <1>8, <1>9
<1>. QED BY <1>10 DEF g

-----------------------------------------------------------------------------
(* The steps of the ingesting process *)

Ingest ==
    \/ \E d \in Deliveries : OpenSession(d)
    \/ PreservePayload \/ PreserveManifest \/ PreserveReceipt
    \/ SubmitAttempt \/ LandRows \/ CommitAttempt \/ CloseSession

\* What every one of them does: the root grows.
Grown ==
    /\ RootShape(root') /\ DOMAIN root' # {}
    /\ DOMAIN root # {} => Grows(root, root')
    /\ moments' = moments \cup {root'}

Ingested ==
    /\ Grown
    /\ disturbed' = (disturbed \/ backup.pc # "idle")
    /\ session # "backup" /\ session' # "backup"
    /\ UNCHANGED <<backupVars, restoreVars, counts, archived>>

LEMMA WriterOpens ==
    ASSUME LocalRootInductive, NEW d \in Deliveries, OpenSession(d)
    PROVE  Ingested /\ WriterWell'
<1>0. RootShape(root) /\ root' = Opened
  BY DEF LocalRootInductive, RootWell, OpenSession, Moment
<1>1. RootShape(root') /\ DOMAIN root' # {}
  BY <1>0, OpenedShape
<1>2. DOMAIN root # {} => Grows(root, root')
  BY <1>0, OpenedShape, GrowsReflexive
<1>3. session # "backup" /\ session' # "backup"
  BY LocalRootParameters DEF OpenSession
<1>4. Ingested
  BY <1>1, <1>2, <1>3 DEF Ingested, Grown, OpenSession, Moment
<1>5. writer' = [pc |-> "payload", delivery |-> d] /\ session' = "writer"
  BY DEF OpenSession
<1>6. d \notin Accepted(root'[Sqlite])
  <2>1. CASE DOMAIN root = {}
    BY <1>0, <2>1, OpenedShape DEF Accepted, Seen
  <2>2. CASE DOMAIN root # {}
    <3>1. root' = root /\ DuckDB \in DOMAIN root
      BY <1>0, <2>2, OpenedShape, RootNonempty
    <3>. QED BY <3>1 DEF OpenSession, Accepted
  <2>. QED BY <2>1, <2>2
<1>7. WriterWell'
  BY <1>1, <1>5, <1>6 DEF WriterWell, WriterSteps
<1>. QED BY <1>4, <1>7

\* The steps of an open session.
LEMMA WriterWrites ==
    ASSUME LocalRootInductive, NEW content, NEW step, Write(content, step),
           writer.pc # "idle", RootShape(content), Grows(root, content)
    PROVE  /\ Ingested /\ root' = content
           /\ writer' = [writer EXCEPT !.pc = step] /\ session' = "writer"
           /\ RootShape(root) /\ DOMAIN root # {}
           /\ DuckDB \in DOMAIN root /\ Sqlite \in DOMAIN root
<1>1. RootShape(root) /\ DOMAIN root # {} /\ session = "writer"
  BY DEF LocalRootInductive, RootWell, WriterWell
<1>2. root' = content /\ moments' = moments \cup {root'}
  BY DEF Write, Moment
<1>3. DOMAIN content # {}
  BY <1>1, RootNonempty, PathNames DEF Grows
<1>4. DuckDB \in DOMAIN root /\ Sqlite \in DOMAIN root
  BY <1>1, RootNonempty
<1>5. session' = session
  BY DEF Write
<1>6. Ingested
  BY <1>1, <1>2, <1>3, <1>5 DEF Ingested, Grown, Write
<1>. QED BY <1>1, <1>2, <1>4, <1>5, <1>6 DEF Write

\* An object or the receipt of the delivery in hand.
LEMMA WriterStores ==
    ASSUME LocalRootInductive, writer.pc \in {"payload", "manifest", "receipt"},
           NEW p \in Paths \ {DuckDB, Wal, Sqlite}, NEW c, Content(p, c),
           NEW step \in WriterSteps, Write(With(root, p, c), step),
           step = "submit" => <<"live", writer.delivery>> \notin root[Sqlite],
           step # "land"
    PROVE  Ingested /\ WriterWell'
<1>0. RootShape(root) /\ DOMAIN root # {} /\ writer.delivery \in Deliveries
      /\ writer.delivery \notin Accepted(root[Sqlite]) /\ writer.pc # "idle"
      /\ writer \in [pc : {"idle"} \cup WriterSteps, delivery : Deliveries \cup {None}]
  BY DEF LocalRootInductive, RootWell, WriterWell, WriterSteps
<1>1. /\ RootShape(With(root, p, c)) /\ Grows(root, With(root, p, c))
      /\ With(root, p, c)[Sqlite] = root[Sqlite]
  BY <1>0, StoreShape
<1>2. /\ Ingested /\ root' = With(root, p, c)
      /\ writer' = [writer EXCEPT !.pc = step] /\ session' = "writer"
  BY <1>0, <1>1, WriterWrites
<1>3. root'[Sqlite] = root[Sqlite] /\ DOMAIN root' # {}
  BY <1>1, <1>2 DEF Ingested, Grown
<1>4. /\ writer'.pc = step /\ writer'.delivery = writer.delivery
      /\ writer' \in [pc : {"idle"} \cup WriterSteps, delivery : Deliveries \cup {None}]
  BY <1>0, <1>2
<1>5. step = "submit" => writer.delivery \notin Seen(root[Sqlite])
  BY <1>0 DEF Seen, Accepted
<1>6. WriterWell'
  BY <1>0, <1>2, <1>3, <1>4, <1>5 DEF WriterWell, WriterSteps
<1>. QED BY <1>2, <1>6

LEMMA WriterPreserves ==
    ASSUME LocalRootInductive, PreservePayload \/ PreserveManifest \/ PreserveReceipt
    PROVE  Ingested /\ WriterWell'
<1> DEFINE d == writer.delivery
<1>0. d \in Deliveries
  BY DEF LocalRootInductive, WriterWell, PreservePayload, PreserveManifest, PreserveReceipt
<1>1. CASE PreservePayload
  <2>1. Content(Object("payload", d), {<<"bytes", d>>})
    <3>1. Object("payload", d)[2] = "payload" /\ Object("payload", d)[1] - 100 = d
      BY <1>0, StoreNames
    <3>2. Object("payload", d) # Wal
      BY <3>1, PathNames
    <3>. QED BY <1>0, <3>1, <3>2 DEF Content, Facts
  <2>2. Object("payload", d) \in Paths \ {DuckDB, Wal, Sqlite}
    BY <1>0, StoreNames, PathNames
  <2>. QED BY <1>1, <2>1, <2>2, WriterStores DEF PreservePayload, WriterSteps
<1>2. CASE PreserveManifest
  <2>1. Content(Object("manifest", d), {<<"manifest", d>>})
    <3>1. Object("manifest", d)[2] = "manifest" /\ Object("manifest", d)[1] - 200 = d
      BY <1>0, StoreNames
    <3>2. Object("manifest", d) # Wal
      BY <3>1, PathNames
    <3>. QED BY <1>0, <3>1, <3>2 DEF Content, Facts
  <2>2. Object("manifest", d) \in Paths \ {DuckDB, Wal, Sqlite}
    BY <1>0, StoreNames, PathNames
  <2>. QED BY <1>2, <2>1, <2>2, WriterStores DEF PreserveManifest, WriterSteps
<1>3. CASE PreserveReceipt
  <2>1. Content(Receipt(d), {<<"receipt", d>>})
    <3>1. Receipt(d)[2] = "receipt" /\ Receipt(d)[1] - 300 = d
      BY <1>0, StoreNames
    <3>2. Receipt(d) # Wal
      BY <3>1, PathNames
    <3>. QED BY <1>0, <3>1, <3>2 DEF Content, Facts
  <2>2. Receipt(d) \in Paths \ {DuckDB, Wal, Sqlite}
    BY <1>0, StoreNames, PathNames
  <2>3. PICK step : step = IF <<"live", d>> \in root[Sqlite] THEN "close" ELSE "submit"
    OBVIOUS
  <2>4. step \in WriterSteps /\ (step = "submit" => <<"live", d>> \notin root[Sqlite])
        /\ step # "land"
    BY <2>3 DEF WriterSteps
  <2>5. Write(With(root, Receipt(d), {<<"receipt", d>>}), step) /\ writer.pc = "receipt"
    BY <1>3, <2>3 DEF PreserveReceipt
  <2>. QED BY <2>1, <2>2, <2>4, <2>5, WriterStores
<1>. QED BY <1>1, <1>2, <1>3

LEMMA WriterSubmits ==
    ASSUME LocalRootInductive, SubmitAttempt
    PROVE  Ingested /\ WriterWell'
<1> DEFINE d == writer.delivery
<1>0. /\ RootShape(root) /\ DOMAIN root # {} /\ d \in Deliveries /\ writer.pc = "submit"
      /\ d \notin Accepted(root[Sqlite]) /\ d \notin Seen(root[Sqlite])
      /\ writer \in [pc : {"idle"} \cup WriterSteps, delivery : Deliveries \cup {None}]
  BY DEF LocalRootInductive, RootWell, WriterWell, WriterSteps, SubmitAttempt
<1>1. PICK c : c = root[Sqlite] \cup {<<"live", d>>}
  OBVIOUS
<1>2. Sqlite \in DOMAIN root /\ root[Sqlite] \subseteq Facts
  BY <1>0, RootNonempty DEF RootShape
<1>3. c \subseteq Facts /\ c # {}
  <2>1. <<"live", d>> \in Facts
    BY <1>0 DEF Facts
  <2>. QED BY <1>1, <1>2, <2>1
<1>4. Accepted(c) = Accepted(root[Sqlite]) /\ Seen(c) = Seen(root[Sqlite]) \cup {d}
  BY <1>0, <1>1 DEF Accepted, Seen
<1>5. Write([root EXCEPT ![Sqlite] = c], "land")
  BY <1>1 DEF SubmitAttempt
<1>6. /\ RootShape([root EXCEPT ![Sqlite] = c]) /\ Grows(root, [root EXCEPT ![Sqlite] = c])
      /\ [root EXCEPT ![Sqlite] = c][Sqlite] = c
      /\ DOMAIN [root EXCEPT ![Sqlite] = c] = DOMAIN root
      /\ [root EXCEPT ![Sqlite] = c][DuckDB] = root[DuckDB]
      /\ Wal \in DOMAIN root => [root EXCEPT ![Sqlite] = c][Wal] = root[Wal]
  BY <1>0, <1>3, <1>4, SqliteShape
<1>7. /\ Ingested /\ root' = [root EXCEPT ![Sqlite] = c]
      /\ writer' = [writer EXCEPT !.pc = "land"] /\ session' = "writer"
  BY <1>0, <1>5, <1>6, WriterWrites
<1>8. /\ writer'.pc = "land" /\ writer'.delivery = d
      /\ writer' \in [pc : {"idle"} \cup WriterSteps, delivery : Deliveries \cup {None}]
  BY <1>0, <1>7 DEF WriterSteps
<1>9. /\ d \notin Landed(root[DuckDB])
      /\ Wal \in DOMAIN root => d \notin Landed(root[Wal])
  BY <1>0 DEF RootShape
<1>10. /\ root'[Sqlite] = c /\ root'[DuckDB] = root[DuckDB] /\ DOMAIN root' = DOMAIN root
       /\ Wal \in DOMAIN root => root'[Wal] = root[Wal]
  BY <1>6, <1>7
<1>11. WriterWell'
  BY <1>0, <1>4, <1>7, <1>8, <1>9, <1>10 DEF WriterWell, WriterSteps
<1>. QED BY <1>7, <1>11

LEMMA WriterLands ==
    ASSUME LocalRootInductive, LandRows
    PROVE  Ingested /\ WriterWell'
<1> DEFINE d == writer.delivery
<1>0. /\ RootShape(root) /\ DOMAIN root # {} /\ d \in Deliveries /\ writer.pc = "land"
      /\ d \notin Accepted(root[Sqlite]) /\ d \in Seen(root[Sqlite])
      /\ d \notin Landed(root[DuckDB])
      /\ writer \in [pc : {"idle"} \cup WriterSteps, delivery : Deliveries \cup {None}]
  BY DEF LocalRootInductive, RootWell, WriterWell, WriterSteps, LandRows
<1>1. PICK c : c = (IF Wal \in DOMAIN root THEN root[Wal] ELSE {}) \cup {<<"landed", d>>}
  OBVIOUS
<1>2. Write(With(root, Wal, c), "commit")
  BY <1>1 DEF LandRows
<1>3. /\ RootShape(With(root, Wal, c)) /\ Grows(root, With(root, Wal, c))
      /\ With(root, Wal, c)[Sqlite] = root[Sqlite]
  BY <1>0, <1>1, WalShape
<1>4. /\ Ingested /\ root' = With(root, Wal, c)
      /\ writer' = [writer EXCEPT !.pc = "commit"] /\ session' = "writer"
  BY <1>0, <1>2, <1>3, WriterWrites
<1>5. /\ writer'.pc = "commit" /\ writer'.delivery = d
      /\ writer' \in [pc : {"idle"} \cup WriterSteps, delivery : Deliveries \cup {None}]
  BY <1>0, <1>4 DEF WriterSteps
<1>6. root'[Sqlite] = root[Sqlite] /\ DOMAIN root' # {}
  BY <1>3, <1>4 DEF Ingested, Grown
<1>7. WriterWell'
  BY <1>0, <1>4, <1>5, <1>6 DEF WriterWell, WriterSteps
<1>. QED BY <1>4, <1>7

LEMMA WriterCommits ==
    ASSUME LocalRootInductive, CommitAttempt
    PROVE  Ingested /\ WriterWell'
<1> DEFINE d == writer.delivery
<1>0. /\ RootShape(root) /\ DOMAIN root # {} /\ d \in Deliveries /\ writer.pc = "commit"
      /\ d \notin Accepted(root[Sqlite])
      /\ writer \in [pc : {"idle"} \cup WriterSteps, delivery : Deliveries \cup {None}]
  BY DEF LocalRootInductive, RootWell, WriterWell, WriterSteps, CommitAttempt
<1>1. PICK c : c = (root[Sqlite] \ {<<"live", d>>}) \cup {<<"accepted", d>>}
  OBVIOUS
<1>2. Sqlite \in DOMAIN root /\ root[Sqlite] \subseteq Facts
  BY <1>0, RootNonempty DEF RootShape
<1>3. c \subseteq Facts /\ c # {}
  <2>1. <<"accepted", d>> \in Facts
    BY <1>0 DEF Facts
  <2>. QED BY <1>1, <1>2, <2>1
<1>4. /\ Accepted(c) = Accepted(root[Sqlite]) \cup {d}
      /\ Seen(root[Sqlite]) \subseteq Seen(c)
  BY <1>0, <1>1 DEF Accepted, Seen
<1>5. Write([root EXCEPT ![Sqlite] = c], "close")
  BY <1>1 DEF CommitAttempt
<1>6. /\ RootShape([root EXCEPT ![Sqlite] = c]) /\ Grows(root, [root EXCEPT ![Sqlite] = c])
  BY <1>0, <1>3, <1>4, SqliteShape
<1>7. /\ Ingested /\ root' = [root EXCEPT ![Sqlite] = c]
      /\ writer' = [writer EXCEPT !.pc = "close"] /\ session' = "writer"
  BY <1>0, <1>5, <1>6, WriterWrites
<1>8. /\ writer'.pc = "close" /\ writer'.delivery = d
      /\ writer' \in [pc : {"idle"} \cup WriterSteps, delivery : Deliveries \cup {None}]
  BY <1>0, <1>7 DEF WriterSteps
<1>9. DOMAIN root' # {}
  BY <1>7 DEF Ingested, Grown
<1>10. WriterWell'
  BY <1>0, <1>7, <1>8, <1>9 DEF WriterWell, WriterSteps
<1>. QED BY <1>7, <1>10

LEMMA WriterCloses ==
    ASSUME LocalRootInductive, CloseSession
    PROVE  Ingested /\ WriterWell'
<1>0. /\ RootShape(root) /\ DOMAIN root # {} /\ session = "writer"
  BY DEF LocalRootInductive, RootWell, WriterWell, WriterSteps, CloseSession
<1>1. root' = Checkpointed
  BY DEF CloseSession, Moment
<1>2. RootShape(root') /\ DOMAIN root' # {} /\ Grows(root, root')
  BY <1>0, <1>1, CheckpointedShape
<1>3. session' # "backup"
  BY LocalRootParameters DEF CloseSession
<1>4. Ingested
  BY <1>0, <1>2, <1>3 DEF Ingested, Grown, CloseSession, Moment
<1>5. writer' = [pc |-> "idle", delivery |-> None] /\ session' = None
  BY DEF CloseSession
<1>6. WriterWell'
  BY <1>5, LocalRootParameters DEF WriterWell, WriterSteps
<1>. QED BY <1>4, <1>6

LEMMA IngestGrows ==
    ASSUME LocalRootInductive, Ingest
    PROVE  Ingested /\ WriterWell'
BY WriterOpens, WriterPreserves, WriterSubmits, WriterLands, WriterCommits, WriterCloses
   DEF Ingest

-----------------------------------------------------------------------------
(* What the growth of the root leaves true *)

LEMMA LiveAtBackup ==
    ASSUME LocalRootInductive, backup.entries # <<>> \/ backup.pc # "idle"
    PROVE  DOMAIN root # {} /\ backup.pc # "idle"
BY DEF LocalRootInductive, BackupWell, Listed

LEMMA GrowthKeepsHashes ==
    ASSUME LocalRootInductive, Grown, backup'.entries = backup.entries
    PROVE  HashesWell'
<1>1. Fit(backup'.entries)
  BY DEF LocalRootInductive, HashesWell
<1>2. ASSUME NEW i \in 1..Len(backup'.entries)
      PROVE  /\ Earlier(backup'.entries[i].path, backup'.entries[i].sha256, root')
             /\ HoldsOrPassed(backup'.entries[i].path, backup'.entries[i].sha256, root')
  <2>1. DOMAIN root # {}
    BY LiveAtBackup
  <2>2. PICK p, c : p = backup.entries[i].path /\ c = backup.entries[i].sha256
    OBVIOUS
  <2>3. Earlier(p, c, root) /\ HoldsOrPassed(p, c, root)
    BY <2>2 DEF LocalRootInductive, HashesWell
  <2>4. RootShape(root) /\ RootShape(root') /\ Grows(root, root')
    BY <2>1 DEF LocalRootInductive, RootWell, Grown
  <2>5. Earlier(p, c, root') /\ HoldsOrPassed(p, c, root')
    BY <2>1, <2>3, <2>4, EarlierStays, HoldsOrPassedStays
  <2>. QED BY <2>2, <2>5
<1>. QED BY <1>1, <1>2 DEF HashesWell

LEMMA GrowthKeepsCopies ==
    ASSUME LocalRootInductive, Grown, objects' = objects,
           counts'["losses"] = counts["losses"]
    PROVE  CopiesWell'
<1> SUFFICES ASSUME counts["losses"] = 0, NEW p \in DOMAIN objects, objects[p] # {}
             PROVE  DOMAIN root' # {} /\ HoldsOrPassed(p, objects[p], root')
  BY DEF CopiesWell
<1>1. DOMAIN root # {} /\ HoldsOrPassed(p, objects[p], root)
  BY DEF LocalRootInductive, CopiesWell
<1>2. PICK c : c = objects[p]
  OBVIOUS
<1>3. RootShape(root) /\ RootShape(root') /\ Grows(root, root')
  BY <1>1 DEF LocalRootInductive, RootWell, Grown
<1>4. HoldsOrPassed(p, c, root')
  BY <1>1, <1>2, <1>3, HoldsOrPassedStays
<1>. QED BY <1>2, <1>4 DEF Grown

LEMMA FitStays ==
    ASSUME Grows(root, root'), UNCHANGED <<backup, objects, counts>>, NEW m, NEW k
    PROVE  /\ FitsHashed(m, k) => FitsHashed(m, k)'
           /\ FitsCopied(m, k) => FitsCopied(m, k)'
<1>1. \A p, c : Passed(p, c, root) => Passed(p, c, root')
  BY PassedStays
<1>2. FitsHashed(m, k) => FitsHashed(m, k)'
  BY <1>1 DEF FitsHashed, Verified
<1>3. FitsCopied(m, k) => FitsCopied(m, k)'
  BY <1>1 DEF FitsCopied, Verified
<1>. QED BY <1>2, <1>3

LEMMA GrowthKeepsMoments ==
    ASSUME LocalRootInductive, Grown, UNCHANGED <<backup, objects, counts>>
    PROVE  MomentsWell'
<1>1. CASE backup.pc = "idle"
  BY <1>1 DEF MomentsWell
<1>2. CASE backup.pc # "idle"
  <2>1. Grows(root, root') /\ moments \subseteq moments'
    BY <1>2, LiveAtBackup DEF Grown
  <2>2. \A m, k : /\ FitsHashed(m, k) => FitsHashed(m, k)'
                  /\ FitsCopied(m, k) => FitsCopied(m, k)'
    BY <2>1, FitStays
  <2>3. \A low : Witnesses(low, backup.entries)' = Witnesses(low, backup.entries)
    BY DEF Witnesses
  <2>. QED BY <2>1, <2>2, <2>3 DEF MomentsWell, LocalRootInductive, Witnesses
<1>. QED BY <1>1, <1>2

LEMMA GrowthKeepsArchive ==
    ASSUME LocalRootInductive, Grown, UNCHANGED <<objects, archived>>,
           counts'["losses"] = counts["losses"]
    PROVE  ArchiveIsOneMoment'
<1>1. root' # Nothing /\ moments \subseteq moments'
  BY DEF Grown, Nothing
<1>2. ArchiveIsOneMoment
  BY DEF LocalRootInductive
<1>. QED BY <1>1, <1>2 DEF ArchiveIsOneMoment, CopiedWhole, Verified

\* A step of the ingesting process keeps every part.
LEMMA IngestKeeps ==
    ASSUME LocalRootInductive, Ingest
    PROVE  LocalRootInductive'
<1>0. Ingested /\ WriterWell'
  BY IngestGrows
<1>1. /\ Grown /\ disturbed' = (disturbed \/ backup.pc # "idle")
      /\ session # "backup" /\ session' # "backup"
      /\ UNCHANGED <<fence, backup, pages, manifest, objects, restore, stage, refusal,
                     counts, archived>>
  BY <1>0 DEF Ingested, backupVars, restoreVars
<1>2. RootWell'
  BY <1>1 DEF LocalRootInductive, RootWell, Grown, Nothing
<1>3. CountsWell'
  BY <1>1 DEF LocalRootInductive, CountsWell
<1>4. BackupWell'
  BY <1>1 DEF LocalRootInductive, BackupWell, Grown
<1>5. HashesWell' /\ CopiesWell' /\ MomentsWell' /\ ArchiveIsOneMoment'
  BY <1>1, GrowthKeepsHashes, GrowthKeepsCopies, GrowthKeepsMoments, GrowthKeepsArchive
<1>6. ArchiveWell'
  BY <1>1 DEF LocalRootInductive, ArchiveWell
<1>7. RestoreWell'
  BY <1>1 DEF LocalRootInductive, RestoreWell, Verified
<1>8. UndisturbedWell'
  <2>1. CASE backup.pc # "idle"
    BY <1>1, <2>1 DEF LocalRootInductive, CountsWell, UndisturbedWell, Undisturbed
  <2>2. CASE backup.pc = "idle"
    <3>1. moments \subseteq moments'
      BY <1>1 DEF Grown
    <3>2. Undisturbed' = Undisturbed
      BY <1>1, <2>2 DEF Undisturbed, LocalRootInductive, CountsWell
    <3>. QED BY <1>1, <2>2, <3>1, <3>2
           DEF LocalRootInductive, UndisturbedWell, PagesHold, Verified, Listed
  <2>. QED BY <2>1, <2>2
<1>. QED BY <1>0, <1>2, <1>3, <1>4, <1>5, <1>6, <1>7, <1>8 DEF LocalRootInductive

LEMMA CrashWriterKeeps ==
    ASSUME LocalRootInductive, CrashWriter
    PROVE  LocalRootInductive'
<1>1. /\ UNCHANGED <<root, fence, backup, pages, manifest, objects, restore, stage,
                     refusal, moments, disturbed, archived>>
      /\ writer.pc # "idle" /\ writer' = [pc |-> "idle", delivery |-> None]
      /\ session' = None /\ counts' = [counts EXCEPT !["crashes"] = @ + 1]
  BY DEF CrashWriter, Count, backupVars, restoreVars, historyVars
<1>2. /\ counts' \in [{"backups", "restores", "crashes", "damages", "losses"} -> Nat]
      /\ counts'["losses"] = counts["losses"] /\ counts'["crashes"] > 0
  BY <1>1 DEF LocalRootInductive, CountsWell
<1>3. RootWell' /\ CountsWell'
  BY <1>1, <1>2 DEF LocalRootInductive, RootWell, CountsWell
<1>4. WriterWell'
  BY <1>1, LocalRootParameters DEF WriterWell, WriterSteps
<1>5. BackupWell'
  <2>1. session # "backup" /\ session' # "backup"
    BY <1>1, LocalRootParameters DEF LocalRootInductive, WriterWell
  <2>. QED BY <1>1, <1>2, <2>1 DEF LocalRootInductive, BackupWell
<1>6. HashesWell' /\ ArchiveWell'
  BY <1>1 DEF LocalRootInductive, HashesWell, ArchiveWell
<1>7. RestoreWell'
  BY <1>1 DEF LocalRootInductive, RestoreWell, Verified
<1>8. CopiesWell'
  BY <1>1, <1>2 DEF LocalRootInductive, CopiesWell
<1>9. MomentsWell'
  BY <1>1, <1>2 DEF LocalRootInductive, MomentsWell, Witnesses, FitsHashed, FitsCopied, Verified
<1>10. ArchiveIsOneMoment'
  BY <1>1, <1>2 DEF LocalRootInductive, ArchiveIsOneMoment, CopiedWhole, Verified
<1>11. UndisturbedWell'
  BY <1>2 DEF UndisturbedWell, Undisturbed
<1>. QED BY <1>3, <1>4, <1>5, <1>6, <1>7, <1>8, <1>9, <1>10, <1>11 DEF LocalRootInductive

-----------------------------------------------------------------------------
(* The path order *)

LEMMA PathsFinite == IsFiniteSet(Paths)
<1> DEFINE rank == [p \in Paths |-> p[1]]
<1>1. \A p \in Paths : p[1] \in 0..399
  <2> SUFFICES ASSUME NEW p \in Paths PROVE p[1] \in 0..399
    OBVIOUS
  <2>1. CASE p \in {DuckDB, Wal, Sqlite}
    BY <2>1, PathNames
  <2>2. CASE \E d \in Deliveries : p \in {Object("payload", d), Object("manifest", d), Receipt(d)}
    BY <2>2, StoreNames
  <2>. QED BY <2>1, <2>2 DEF Paths
<1>2. rank \in Injection(Paths, 0..399)
  BY <1>1, RanksDiffer DEF Injection, IsInjective
<1>3. IsFiniteSet(0..399)
  <2>1. 0 \in Int /\ 399 \in Int
    OBVIOUS
  <2>. QED BY <2>1, FS_Interval, Zenon
<1>. QED BY <1>2, <1>3, FS_Injection

\* The files of a root in path order are all of them, by rank.
LEMMA PathOrderEnumerates ==
    ASSUME NEW paths, paths \subseteq Paths
    PROVE  /\ PathOrder(paths) \in Seq(Paths)
           /\ \A i \in 1..Len(PathOrder(paths)) : PathOrder(paths)[i] \in paths
           /\ \A i, j \in 1..Len(PathOrder(paths)) :
                i < j => PathOrder(paths)[i][1] < PathOrder(paths)[j][1]
           /\ \A p \in paths : \E i \in 1..Len(PathOrder(paths)) : PathOrder(paths)[i] = p
<1> DEFINE upto(p) == {q \in paths : q[1] <= p[1]}
           k == Cardinality(paths)
           place == [p \in paths |-> Cardinality(upto(p))]
           files == [i \in 1..k |-> CHOOSE p \in paths : Cardinality(upto(p)) = i]
<1>0. PathOrder(paths) = files
  BY DEF PathOrder
<1>1. IsFiniteSet(paths) /\ k \in Nat
  BY PathsFinite, FS_Subset, FS_CardinalityType
<1>2. \A p \in paths : p[1] \in Nat
  BY RanksDiffer
<1>3. \A p \in paths : IsFiniteSet(upto(p)) /\ Cardinality(upto(p)) \in 1..k
  <2> SUFFICES ASSUME NEW p \in paths
               PROVE  IsFiniteSet(upto(p)) /\ Cardinality(upto(p)) \in 1..k
    OBVIOUS
  <2>1. upto(p) \in SUBSET paths /\ p \in upto(p)
    BY <1>2
  <2>2. IsFiniteSet(upto(p)) /\ Cardinality(upto(p)) <= k
    BY <1>1, <2>1, FS_Subset
  <2>3. Cardinality(upto(p)) \in Nat
    BY <2>2, FS_CardinalityType
  <2>4. Cardinality(upto(p)) # 0
    BY <2>1, <2>2, FS_EmptySet
  <2>. QED BY <1>1, <2>2, <2>3, <2>4
<1>4. ASSUME NEW p \in paths, NEW q \in paths, p[1] < q[1]
      PROVE  Cardinality(upto(p)) < Cardinality(upto(q))
  <2>1. upto(p) \in SUBSET upto(q) /\ q \in upto(q) /\ q \notin upto(p)
    <3>1. p[1] \in Nat /\ q[1] \in Nat
      BY <1>2
    <3>2. \A r \in paths : r[1] <= p[1] => r[1] <= q[1]
      BY <1>2, <1>4
    <3>. QED BY <1>4, <3>1, <3>2
  <2>2. IsFiniteSet(upto(q)) /\ Cardinality(upto(q)) \in Nat /\ Cardinality(upto(p)) \in Nat
    BY <1>1, <1>3
  <2>3. /\ Cardinality(upto(p)) <= Cardinality(upto(q))
        /\ Cardinality(upto(q)) = Cardinality(upto(p)) => upto(q) = upto(p)
    BY <2>1, <2>2, FS_Subset
  <2>4. upto(q) # upto(p)
    BY <2>1
  <2>. QED BY <2>2, <2>3, <2>4
<1>5. \A p, q \in paths : place[p] = place[q] => p = q
  <2> SUFFICES ASSUME NEW p \in paths, NEW q \in paths, p # q
               PROVE  Cardinality(upto(p)) # Cardinality(upto(q))
    OBVIOUS
  <2>1. p[1] < q[1] \/ q[1] < p[1]
    BY <1>2, RanksDiffer
  <2>2. Cardinality(upto(p)) \in Nat /\ Cardinality(upto(q)) \in Nat
    BY <1>1, <1>3
  <2>. QED BY <1>4, <2>1, <2>2
<1>6. place \in Injection(paths, 1..k)
  <2>1. place \in [paths -> 1..k]
    BY <1>3
  <2>. QED BY <1>5, <2>1 DEF Injection, IsInjective
<1>7. IsFiniteSet(1..k) /\ Cardinality(1..k) = k
  BY <1>1, FS_Interval
<1>8. place \in Surjection(paths, 1..k)
  BY <1>6, <1>7, FS_Injection
<1>9. \A i \in 1..k : \E p \in paths : Cardinality(upto(p)) = i
  <2> SUFFICES ASSUME NEW i \in 1..k PROVE \E p \in paths : Cardinality(upto(p)) = i
    OBVIOUS
  <2>1. PICK p \in paths : place[p] = i
    BY <1>8 DEF Surjection
  <2>. QED BY <2>1
<1>10. \A i \in 1..k : files[i] \in paths /\ Cardinality(upto(files[i])) = i
  <2> SUFFICES ASSUME NEW i \in 1..k
               PROVE  files[i] \in paths /\ Cardinality(upto(files[i])) = i
    OBVIOUS
  <2>1. files[i] = CHOOSE p \in paths : Cardinality(upto(p)) = i
    OBVIOUS
  <2> HIDE DEF files
  <2>. QED BY <1>9, <2>1
<1>11. files \in Seq(Paths) /\ Len(files) = k
  <2>1. files \in [1..k -> Paths]
    <3>1. \A i \in 1..k : (CHOOSE p \in paths : Cardinality(upto(p)) = i) \in Paths
      BY <1>9
    <3>. QED BY <3>1
  <2> HIDE DEF files
  <2>. QED BY <1>1, <2>1
<1> HIDE DEF files
<1>12. \A i, j \in 1..k : i < j => files[i][1] < files[j][1]
  <2> SUFFICES ASSUME NEW i \in 1..k, NEW j \in 1..k, i < j, ~(files[i][1] < files[j][1])
               PROVE  FALSE
    OBVIOUS
  <2>1. PICK p, q : p = files[i] /\ q = files[j]
    OBVIOUS
  <2>2. p \in paths /\ q \in paths /\ Cardinality(upto(p)) = i /\ Cardinality(upto(q)) = j
    BY <1>10, <2>1
  <2>3. p[1] \in Nat /\ q[1] \in Nat /\ ~(p[1] < q[1])
    BY <1>2, <2>1, <2>2
  <2>4. CASE q[1] < p[1]
    <3>1. Cardinality(upto(q)) < Cardinality(upto(p))
      BY <1>4, <2>2, <2>4
    <3>2. j < i
      BY <2>2, <3>1
    <3>. QED BY <3>2
  <2>5. CASE q[1] = p[1]
    <3>1. p = q
      BY <2>2, <2>5, RanksDiffer
    <3>. QED BY <1>1, <2>2, <3>1
  <2>. QED BY <2>3, <2>4, <2>5
<1>13. \A p \in paths : \E i \in 1..k : files[i] = p
  <2> SUFFICES ASSUME NEW p \in paths PROVE \E i \in 1..k : files[i] = p
    OBVIOUS
  <2>1. PICK i \in 1..k : i = Cardinality(upto(p))
    BY <1>3
  <2>2. files[i] \in paths /\ Cardinality(upto(files[i])) = i
    BY <1>10
  <2>3. place[files[i]] = place[p]
    BY <2>1, <2>2
  <2>4. files[i] = p
    BY <1>5, <2>2, <2>3
  <2>. QED BY <2>4
<1>. QED BY <1>0, <1>10, <1>11, <1>12, <1>13

-----------------------------------------------------------------------------
(* The steps of a backup *)

LEMMA BeginBackupKeeps ==
    ASSUME LocalRootInductive, BeginBackup
    PROVE  LocalRootInductive'
<1>1. /\ UNCHANGED <<writer, pages, manifest, objects, restore, stage, archived>>
      /\ backup.pc = "idle" /\ restore.pc = "idle" /\ session = None /\ session' = "backup"
      /\ fence' = TRUE /\ disturbed' = FALSE /\ refusal' = "none"
      /\ backup' = [NoBackup EXCEPT !.pc = "close"]
      /\ root' = Opened /\ moments' = moments \cup {root'}
      /\ counts' = [counts EXCEPT !["backups"] = @ + 1]
  BY DEF BeginBackup, Count, Moment
<1>2. /\ counts' \in [{"backups", "restores", "crashes", "damages", "losses"} -> Nat]
      /\ counts'["losses"] = counts["losses"] /\ counts'["crashes"] = counts["crashes"]
  BY <1>1 DEF LocalRootInductive, CountsWell
<1>3. /\ backup'.pc = "close" /\ backup'.files = <<>> /\ backup'.entries = <<>>
      /\ backup'.next = 1 /\ backup'.page = 0
      /\ backup' = [pc |-> "close", files |-> <<>>, entries |-> <<>>, next |-> 1, page |-> 0]
  BY <1>1 DEF NoBackup
<1>4. Grown
  <2>1. RootShape(root)
    BY DEF LocalRootInductive, RootWell
  <2>2. RootShape(root') /\ DOMAIN root' # {} /\ (DOMAIN root # {} => root' = root)
    BY <1>1, <2>1, OpenedShape
  <2>. QED BY <1>1, <2>2, GrowsReflexive DEF Grown
<1>5. backup.entries = <<>>
  BY <1>1 DEF LocalRootInductive, BackupWell, Listed
<1>6. RootWell' /\ CountsWell'
  BY <1>1, <1>2, <1>4 DEF LocalRootInductive, RootWell, CountsWell, Grown, Nothing
<1>7. WriterWell'
  <2>1. session # "writer" /\ writer.pc = "idle"
    BY <1>1, LocalRootParameters DEF LocalRootInductive, WriterWell
  <2>. QED BY <1>1, <2>1 DEF LocalRootInductive, WriterWell, WriterSteps
<1>8. BackupWell'
  <2>1. backup' \in [pc : {"idle", "close", "list"} \cup Listed, files : Seq(Paths),
                     entries : Seq(EntryRecords), next : Nat, page : Nat]
    BY <1>3
  <2>2. \A i \in 1..Len(backup'.entries) : backup'.entries[i].path = backup'.files[i]
    BY <1>3
  <2>3. backup'.pc \notin Listed /\ DOMAIN root' # {}
    BY <1>3, <1>4 DEF Listed, Grown
  <2>. QED BY <1>1, <1>3, <2>1, <2>2, <2>3 DEF BackupWell, Listed
<1>9. HashesWell' /\ CopiesWell' /\ ArchiveIsOneMoment'
  BY <1>1, <1>2, <1>3, <1>4, <1>5, GrowthKeepsHashes, GrowthKeepsCopies, GrowthKeepsArchive
<1>10. ArchiveWell'
  BY <1>1 DEF LocalRootInductive, ArchiveWell
<1>11. RestoreWell'
  BY <1>1 DEF RestoreWell
<1>12. MomentsWell'
  BY <1>3 DEF MomentsWell
<1>13. UndisturbedWell'
  BY <1>1, <1>3 DEF UndisturbedWell, Listed
<1>. QED BY <1>6, <1>7, <1>8, <1>9, <1>10, <1>11, <1>12, <1>13 DEF LocalRootInductive

LEMMA CloseForBackupKeeps ==
    ASSUME LocalRootInductive, CloseForBackup
    PROVE  LocalRootInductive'
<1>1. /\ UNCHANGED <<writer, fence, pages, manifest, objects, restore, stage, refusal,
                     counts, disturbed, archived>>
      /\ backup.pc = "close" /\ backup' = [backup EXCEPT !.pc = "list"]
      /\ session' = None
      /\ root' = Checkpointed /\ moments' = moments \cup {root'}
  BY DEF CloseForBackup, Moment, restoreVars
<1>2. /\ DOMAIN root # {} /\ restore.pc = "idle" /\ session = "backup"
      /\ backup.entries = <<>> /\ backup.next = 1 /\ backup.page = 0
      /\ backup \in [pc : {"idle", "close", "list"} \cup Listed, files : Seq(Paths),
                     entries : Seq(EntryRecords), next : Nat, page : Nat]
  BY <1>1 DEF LocalRootInductive, BackupWell, Listed
<1>3. /\ backup'.pc = "list" /\ backup'.entries = <<>> /\ backup'.next = 1
      /\ backup'.page = 0
      /\ backup' \in [pc : {"idle", "close", "list"} \cup Listed, files : Seq(Paths),
                      entries : Seq(EntryRecords), next : Nat, page : Nat]
  BY <1>1, <1>2
<1>4. Grown
  BY <1>1, <1>2, CheckpointedShape DEF Grown, LocalRootInductive, RootWell
<1>5. RootWell' /\ CountsWell'
  BY <1>1, <1>4 DEF RootWell, CountsWell, Grown, LocalRootInductive
<1>6. WriterWell'
  <2>1. session # "writer" /\ session' # "writer" /\ writer.pc = "idle"
    BY <1>1, <1>2, LocalRootParameters DEF LocalRootInductive, WriterWell
  <2>. QED BY <1>1, <2>1 DEF LocalRootInductive, WriterWell, WriterSteps
<1>7. BackupWell'
  <2>1. session' # "backup"
    BY <1>1, LocalRootParameters
  <2>. QED BY <1>1, <1>2, <1>3, <1>4, <2>1 DEF BackupWell, Listed, Grown
<1>8. HashesWell' /\ CopiesWell' /\ ArchiveIsOneMoment'
  BY <1>1, <1>2, <1>3, <1>4, GrowthKeepsHashes, GrowthKeepsCopies, GrowthKeepsArchive
<1>9. ArchiveWell'
  BY <1>1 DEF LocalRootInductive, ArchiveWell
<1>10. RestoreWell'
  BY <1>1, <1>2 DEF RestoreWell
<1>11. MomentsWell'
  BY <1>3 DEF MomentsWell
<1>12. UndisturbedWell'
  BY <1>1, <1>3 DEF UndisturbedWell, Undisturbed, Listed, LocalRootInductive
<1>. QED BY <1>5, <1>6, <1>7, <1>8, <1>9, <1>10, <1>11, <1>12 DEF LocalRootInductive

\* A step of the backup that writes nothing of the root leaves these parts.
LEMMA BackupLeaves ==
    ASSUME LocalRootInductive, UNCHANGED <<root, session, writer, restore, stage, counts,
                                           moments, disturbed>>,
           backup.pc # "idle"
    PROVE  /\ RootWell' /\ WriterWell' /\ RestoreWell'
           /\ fence' \in BOOLEAN => CountsWell'
<1>1. restore.pc = "idle"
  BY DEF LocalRootInductive, BackupWell
<1>. QED BY <1>1 DEF LocalRootInductive, RootWell, CountsWell, WriterWell, RestoreWell

LEMMA ListFilesKeeps ==
    ASSUME LocalRootInductive, ListFiles
    PROVE  LocalRootInductive'
<1>1. /\ backup.pc = "list"
      /\ backup' = [backup EXCEPT !.pc = "hash", !.files = PathOrder(DOMAIN root)]
      /\ UNCHANGED <<root, session, writer, fence, pages, manifest, objects, restore,
                     stage, refusal, counts, moments, disturbed, archived>>
  BY DEF ListFiles, BackupStep, restoreVars, historyVars
<1>2. /\ RootShape(root) /\ DOMAIN root # {} /\ DOMAIN root \subseteq Paths
      /\ backup.entries = <<>> /\ backup.next = 1 /\ backup.page = 0 /\ restore.pc = "idle"
      /\ backup \in [pc : {"idle", "close", "list"} \cup Listed, files : Seq(Paths),
                     entries : Seq(EntryRecords), next : Nat, page : Nat]
  BY <1>1 DEF LocalRootInductive, BackupWell, Listed, RootWell, RootShape
<1>3. PICK files : files = PathOrder(DOMAIN root)
  OBVIOUS
<1>4. /\ files \in Seq(Paths)
      /\ \A i \in 1..Len(files) : files[i] \in DOMAIN root
      /\ \A i, j \in 1..Len(files) : i < j => files[i][1] < files[j][1]
      /\ \A p \in DOMAIN root : \E i \in 1..Len(files) : files[i] = p
  BY <1>2, <1>3, PathOrderEnumerates
<1>5. FilesShape(files)
  BY <1>2, <1>4, RootNonempty DEF FilesShape
<1>6. /\ backup'.pc = "hash" /\ backup'.files = files /\ backup'.entries = <<>>
      /\ backup'.next = 1 /\ backup'.page = 0
      /\ backup' \in [pc : {"idle", "close", "list"} \cup Listed, files : Seq(Paths),
                      entries : Seq(EntryRecords), next : Nat, page : Nat]
  BY <1>1, <1>2, <1>3, <1>4 DEF Listed
<1>7. 1 \in 1..Len(files)
  BY <1>4, <1>5 DEF FilesShape
<1>8. RootWell' /\ WriterWell' /\ RestoreWell' /\ CountsWell'
  BY <1>1, BackupLeaves DEF LocalRootInductive, CountsWell
<1>9. BackupWell'
  <2>1. session' # "backup"
    BY <1>1 DEF LocalRootInductive, BackupWell
  <2>. QED BY <1>1, <1>2, <1>5, <1>6, <1>7, <2>1 DEF BackupWell, Listed
<1>10. HashesWell' /\ CopiesWell' /\ ArchiveIsOneMoment' /\ ArchiveWell'
  BY <1>1, <1>2, <1>6
     DEF LocalRootInductive, HashesWell, CopiesWell, ArchiveIsOneMoment, ArchiveWell,
         CopiedWhole, Verified
<1>11. MomentsWell'
  <2>1. ASSUME NEW k \in Witnesses(0, <<>>), counts["losses"] = 0
        PROVE  k = 0 /\ FitsHashed(root, k)'
    <3>1. k = 0
      BY DEF Witnesses
    <3>2. \A p \in DOMAIN objects :
            objects[p] = {} \/ Holds(root, p, objects[p]) \/ Passed(p, objects[p], root)
      BY <2>1 DEF LocalRootInductive, CopiesWell, HoldsOrPassed
    <3>. QED BY <1>1, <1>6, <3>1, <3>2 DEF FitsHashed
  <2>2. \A k \in Witnesses(0, <<>>) : k = 0
    BY DEF Witnesses
  <2>3. root' = root /\ root \in moments'
    BY <1>1 DEF LocalRootInductive, RootWell
  <2>. QED BY <1>1, <1>6, <2>1, <2>2, <2>3 DEF MomentsWell, Witnesses
<1>12. UndisturbedWell'
  BY <1>1, <1>4, <1>6 DEF LocalRootInductive, UndisturbedWell, Undisturbed, Listed
<1>. QED BY <1>8, <1>9, <1>10, <1>11, <1>12 DEF LocalRootInductive

\* A backup that ended leaves nothing to keep but the archive.
LEMMA EndedBackup ==
    ASSUME backup' = NoBackup, session' # "backup", fence' => counts'["crashes"] > 0
    PROVE  BackupWell' /\ HashesWell' /\ MomentsWell'
<1>1. /\ backup'.pc = "idle" /\ backup'.entries = <<>> /\ backup'.next = 1 /\ backup'.page = 0
      /\ backup' \in [pc : {"idle", "close", "list"} \cup Listed, files : Seq(Paths),
                      entries : Seq(EntryRecords), next : Nat, page : Nat]
  BY DEF NoBackup
<1>2. BackupWell'
  BY <1>1 DEF BackupWell, Listed
<1>3. HashesWell'
  BY <1>1 DEF HashesWell, Fit, Increasing
<1>4. MomentsWell'
  BY <1>1 DEF MomentsWell
<1>. QED BY <1>2, <1>3, <1>4

LEMMA VanishKeeps ==
    ASSUME LocalRootInductive, NEW path, FileVanished(path), backup.pc \in {"hash", "copy"},
           path = backup.files[backup.next]
    PROVE  LocalRootInductive'
<1>1. /\ path \notin DOMAIN root /\ fence' = FALSE /\ backup' = NoBackup
      /\ UNCHANGED <<root, session, writer, pages, manifest, objects, restore, stage,
                     refusal, counts, moments, disturbed, archived>>
  BY DEF FileVanished, restoreVars, historyVars
<1>2. RootWell' /\ WriterWell' /\ RestoreWell' /\ CountsWell'
  BY <1>1, BackupLeaves
<1>3. BackupWell' /\ HashesWell' /\ MomentsWell'
  BY <1>1, EndedBackup DEF LocalRootInductive, BackupWell
<1>4. CopiesWell' /\ ArchiveIsOneMoment' /\ ArchiveWell'
  BY <1>1 DEF LocalRootInductive, CopiesWell, ArchiveIsOneMoment, ArchiveWell, CopiedWhole, Verified
<1>5. UndisturbedWell'
  <2>1. backup.next \in 1..Len(backup.files) /\ backup.pc \in Listed
    BY DEF LocalRootInductive, BackupWell, Listed
  <2>2. ~Undisturbed
    BY <1>1, <2>1 DEF LocalRootInductive, UndisturbedWell
  <2>. QED BY <1>1, <2>2 DEF UndisturbedWell, Undisturbed
<1>. QED BY <1>2, <1>3, <1>4, <1>5 DEF LocalRootInductive

LEMMA CrashBackupKeeps ==
    ASSUME LocalRootInductive, CrashBackup
    PROVE  LocalRootInductive'
<1>1. /\ UNCHANGED <<root, writer, fence, pages, manifest, objects, restore, stage,
                     refusal, moments, disturbed, archived>>
      /\ backup.pc # "idle" /\ backup' = NoBackup
      /\ session' = IF session = "backup" THEN None ELSE session
      /\ counts' = [counts EXCEPT !["crashes"] = @ + 1]
  BY DEF CrashBackup, Count, restoreVars, historyVars
<1>2. /\ counts' \in [{"backups", "restores", "crashes", "damages", "losses"} -> Nat]
      /\ counts'["losses"] = counts["losses"] /\ counts'["crashes"] > 0
  BY <1>1 DEF LocalRootInductive, CountsWell
<1>3. RootWell' /\ CountsWell'
  BY <1>1, <1>2 DEF LocalRootInductive, RootWell, CountsWell
<1>4. session' # "backup" /\ (session' = "writer" <=> session = "writer")
  BY <1>1, LocalRootParameters
<1>5. WriterWell'
  BY <1>1, <1>4 DEF LocalRootInductive, WriterWell
<1>6. BackupWell' /\ HashesWell' /\ MomentsWell'
  BY <1>1, <1>2, <1>4, EndedBackup
<1>7. CopiesWell' /\ ArchiveIsOneMoment' /\ ArchiveWell'
  BY <1>1, <1>2
     DEF LocalRootInductive, CopiesWell, ArchiveIsOneMoment, ArchiveWell, CopiedWhole, Verified
<1>8. RestoreWell'
  BY <1>1 DEF LocalRootInductive, BackupWell, RestoreWell
<1>9. UndisturbedWell'
  BY <1>2 DEF UndisturbedWell, Undisturbed
<1>. QED BY <1>3, <1>5, <1>6, <1>7, <1>8, <1>9 DEF LocalRootInductive

LEMMA WritePageKeeps ==
    ASSUME LocalRootInductive, WritePage
    PROVE  LocalRootInductive'
<1> DEFINE chain == PageChain(backup.entries)
           page == backup.page
           count == PageCount(backup.entries)
           next == IF page + 1 = count THEN "manifest" ELSE "pages"
<1>1. /\ backup.pc = "pages" /\ backup' = [backup EXCEPT !.page = page + 1, !.pc = next]
      /\ pages' = With(pages, page, chain[page])
      /\ UNCHANGED <<root, session, writer, fence, manifest, objects, restore,
                     stage, refusal, counts, moments, disturbed, archived>>
  BY DEF WritePage, restoreVars, historyVars
<1>2. /\ backup \in [pc : {"idle", "close", "list"} \cup Listed, files : Seq(Paths),
                     entries : Seq(EntryRecords), next : Nat, page : Nat]
      /\ session # "backup"
  BY <1>1 DEF LocalRootInductive, BackupWell
<1>3. /\ backup'.pc = next /\ backup'.files = backup.files
      /\ backup'.page = page + 1 /\ page \in Nat
      /\ backup'.pc \in {"pages", "manifest"}
      /\ backup'.entries = backup.entries /\ backup'.next = backup.next
      /\ backup' \in [pc : {"idle", "close", "list"} \cup Listed, files : Seq(Paths),
                      entries : Seq(EntryRecords), next : Nat, page : Nat]
  <2>1. page \in Nat /\ page + 1 \in Nat /\ next \in {"pages", "manifest"}
    BY <1>2
  <2> HIDE DEF page, next
  <2>2. backup' = [pc |-> next, files |-> backup.files, entries |-> backup.entries,
                   next |-> backup.next, page |-> page + 1]
    BY <1>1, <1>2
  <2>. QED BY <1>2, <2>1, <2>2 DEF Listed
<1>4. RootWell' /\ WriterWell' /\ RestoreWell' /\ CountsWell'
  BY <1>1, BackupLeaves DEF LocalRootInductive, CountsWell
<1>5. BackupWell'
  <2> HIDE DEF page, next
  <2>. QED BY <1>1, <1>2, <1>3 DEF LocalRootInductive, BackupWell, Listed
<1>6. HashesWell' /\ CopiesWell' /\ ArchiveIsOneMoment' /\ ArchiveWell'
  BY <1>1, <1>3
     DEF LocalRootInductive, HashesWell, CopiesWell, ArchiveIsOneMoment, ArchiveWell,
         CopiedWhole, Verified
<1>7. MomentsWell'
  BY <1>1, <1>3 DEF LocalRootInductive, MomentsWell, FitsHashed, Witnesses, Verified
<1>8. UndisturbedWell'
  <2> HIDE DEF chain
  <2>1. ASSUME Undisturbed, NEW i \in 0..page
        PROVE  i \in DOMAIN pages' /\ pages'[i] = chain[i]
    <3>1. i = page \/ (i \in 0..(page - 1) /\ i # page)
      BY <1>3
    <3>2. i \in 0..(page - 1) => i \in DOMAIN pages /\ pages[i] = chain[i]
      BY <1>1, <2>1 DEF LocalRootInductive, UndisturbedWell, chain
    <3>. QED BY <1>1, <3>1, <3>2 DEF With
  <2>2. backup'.page - 1 = page
    BY <1>3
  <2>3. Undisturbed /\ backup'.pc = "pages" =>
          \A i \in 0..(backup'.page - 1) :
            i \in DOMAIN pages' /\ pages'[i] = PageChain(backup'.entries)[i]
    BY <1>3, <2>1, <2>2 DEF chain
  <2>4. Undisturbed /\ backup'.pc = "manifest" => PagesHold(backup.entries)'
    <3>1. backup'.pc = "manifest" => count - 1 = page
      BY <1>3
    <3>. QED BY <1>3, <2>1, <3>1 DEF chain, PagesHold
  <2>. QED
    BY <1>1, <1>3, <2>3, <2>4 DEF LocalRootInductive, UndisturbedWell, Undisturbed, Listed
<1>. QED BY <1>4, <1>5, <1>6, <1>7, <1>8 DEF LocalRootInductive

\* The entries of a whole listing.
LEMMA ListingIsWhole ==
    ASSUME LocalRootInductive, backup.pc \in Listed \ {"hash"}
    PROVE  /\ backup.entries \in Seq(EntryRecords) /\ Len(backup.entries) \in Nat
           /\ Len(backup.entries) > 0 /\ backup.entries # <<>>
           /\ Len(backup.entries) = Len(backup.files)
           /\ HasDatabases(backup.entries)
<1>1. /\ FilesShape(backup.files) /\ Len(backup.entries) = Len(backup.files)
      /\ backup.entries \in Seq(EntryRecords)
      /\ \A i \in 1..Len(backup.entries) : backup.entries[i].path = backup.files[i]
  BY DEF LocalRootInductive, BackupWell
<1>2. HasDatabases(backup.entries)
  BY <1>1 DEF FilesShape, HasDatabases
<1>3. Len(backup.entries) \in Nat /\ Len(backup.entries) > 0 /\ backup.entries # <<>>
  BY <1>1, <1>2 DEF HasDatabases
<1>. QED BY <1>1, <1>2, <1>3

LEMMA WriteManifestKeeps ==
    ASSUME LocalRootInductive, WriteManifest
    PROVE  LocalRootInductive'
<1> DEFINE entries == backup.entries
<1>1. /\ backup.pc = "manifest" /\ backup' = [backup EXCEPT !.pc = "copy"]
      /\ archived' = [entries |-> backup.entries, copied |-> 0]
      /\ manifest' = ManifestOf(backup.entries)
      /\ UNCHANGED <<root, session, writer, fence, pages, objects, restore,
                     stage, refusal, counts, moments, disturbed>>
  BY DEF WriteManifest, restoreVars, ManifestOf
<1>2. /\ backup \in [pc : {"idle", "close", "list"} \cup Listed, files : Seq(Paths),
                     entries : Seq(EntryRecords), next : Nat, page : Nat]
      /\ session # "backup" /\ backup.next = 1 /\ DOMAIN root # {}
  BY <1>1 DEF LocalRootInductive, BackupWell
<1>3. /\ backup'.pc = "copy" /\ backup'.files = backup.files
      /\ backup'.entries = backup.entries /\ backup'.next = backup.next
      /\ backup' \in [pc : {"idle", "close", "list"} \cup Listed, files : Seq(Paths),
                      entries : Seq(EntryRecords), next : Nat, page : Nat]
  BY <1>1, <1>2 DEF Listed
<1>4. archived'.entries = backup.entries /\ archived'.copied = 0
  BY <1>1
<1>5. /\ Len(entries) \in Nat /\ Len(entries) > 0 /\ entries # <<>>
      /\ entries \in Seq(EntryRecords) /\ HasDatabases(entries)
  BY <1>1, ListingIsWhole DEF Listed
<1>6. RootWell' /\ WriterWell' /\ RestoreWell' /\ CountsWell'
  BY <1>1, BackupLeaves DEF LocalRootInductive, CountsWell
<1>7. BackupWell'
  BY <1>1, <1>2, <1>3, <1>4 DEF LocalRootInductive, BackupWell, Listed
<1>8. HashesWell' /\ CopiesWell'
  BY <1>1, <1>3 DEF LocalRootInductive, HashesWell, CopiesWell
<1>9. ArchiveWell'
  <2>1. Fit(entries)
    BY DEF LocalRootInductive, HashesWell
  <2>2. archived' \in [entries : Seq(EntryRecords), copied : Nat]
    BY <1>1, <1>5
  <2>. QED BY <1>1, <1>4, <1>5, <2>1, <2>2 DEF LocalRootInductive, ArchiveWell
<1>10. ASSUME NEW m, NEW k \in Witnesses(0, entries), FitsHashed(m, k)
       PROVE  FitsCopied(m, k)'
  <2>1. k \in Nat /\ k <= Len(entries) /\ (counts["losses"] # 0 => k = Len(entries))
    BY <1>5 DEF Witnesses
  <2>2. ASSUME NEW i \in 1..Len(entries)
        PROVE  IF k < i THEN Verified(entries[i]) => Holds(m, entries[i].path, entries[i].sha256)
               ELSE \/ Holds(m, entries[i].path, entries[i].sha256)
                    \/ Passed(entries[i].path, entries[i].sha256, root)
    <3>1. CASE k < i
      <4>1. counts["losses"] = 0 /\ i \in (k + 1)..Len(entries)
        BY <1>5, <2>1, <3>1
      <4>. QED BY <3>1, <4>1, <1>10 DEF FitsHashed
    <3>2. CASE ~(k < i)
      <4>1. i \in 1..k
        BY <2>1, <3>2
      <4>. QED BY <3>2, <4>1, <1>10 DEF FitsHashed
    <3>. QED BY <3>1, <3>2
  <2>. QED BY <1>1, <1>2, <1>3, <2>2 DEF FitsCopied, Verified
<1>11. MomentsWell'
  <2>1. ASSUME NEW k \in Witnesses(0, entries)
        PROVE  \E m \in moments : FitsCopied(m, k)'
    <3>1. k > 0 \/ counts["losses"] = 0
      BY <1>5 DEF Witnesses
    <3>2. PICK m \in moments : FitsHashed(m, k)
      BY <1>1, <3>1, <2>1 DEF LocalRootInductive, MomentsWell
    <3>. QED BY <1>10, <3>2
  <2>2. Witnesses(backup.next - 1, backup.entries)' = Witnesses(0, entries)
    BY <1>1, <1>2, <1>3 DEF Witnesses
  <2>. QED BY <1>1, <1>3, <2>1, <2>2 DEF MomentsWell
<1>12. ArchiveIsOneMoment'
  <2>1. root # Nothing
    BY <1>2 DEF Nothing
  <2>2. ~CopiedWhole'
    BY <1>4, <1>5 DEF CopiedWhole
  <2>3. ASSUME counts["losses"] = 0
        PROVE  \E m \in moments : \A i \in 1..Len(entries) :
                 Verified(entries[i]) => Holds(m, entries[i].path, entries[i].sha256)
    <3>1. 0 \in Witnesses(0, entries)
      BY <1>5, <2>3 DEF Witnesses
    <3>2. PICK m \in moments : FitsHashed(m, 0)
      BY <1>1, <2>3, <3>1 DEF LocalRootInductive, MomentsWell
    <3>3. \A i \in 1..Len(entries) : i \in (0 + 1)..Len(entries)
      OBVIOUS
    <3>. QED BY <2>3, <3>2, <3>3 DEF FitsHashed
  <2>. QED BY <1>1, <1>4, <2>1, <2>2, <2>3 DEF ArchiveIsOneMoment, Verified
<1>13. UndisturbedWell'
  BY <1>1, <1>2, <1>3 DEF LocalRootInductive, UndisturbedWell, Undisturbed, Listed, PagesHold
<1>. QED BY <1>6, <1>7, <1>8, <1>9, <1>11, <1>12, <1>13 DEF LocalRootInductive

\* One more entry fits, when it is the content of the file that is next in rank.
LEMMA FitExtends ==
    ASSUME NEW entries, Fit(entries), RootShape(root), DOMAIN root # {},
           \A i \in 1..Len(entries) : Earlier(entries[i].path, entries[i].sha256, root),
           NEW p \in DOMAIN root,
           \A i \in 1..Len(entries) : entries[i].path[1] < p[1],
           NEW e, e = [path |-> p, sha256 |-> root[p]]
    PROVE  Fit(Append(entries, e))
<1> DEFINE longer == Append(entries, e)
           n == Len(entries)
<1>0. DuckDB \in DOMAIN root /\ Sqlite \in DOMAIN root
  BY RootNonempty
<1>1. entries \in Seq(EntryRecords) /\ n \in Nat
  BY DEF Fit
<1>2. p \in Paths /\ root[p] \in SUBSET Facts /\ Content(p, root[p])
  BY DEF RootShape
<1>3. e \in EntryRecords /\ e.path = p /\ e.sha256 = root[p]
  BY <1>2 DEF EntryRecords
<1>4. /\ longer \in Seq(EntryRecords) /\ Len(longer) = n + 1
      /\ longer[n + 1] = e
      /\ \A i \in 1..n : longer[i] = entries[i]
  BY <1>1, <1>3
<1>5. \A i \in 1..(n + 1) : i \in 1..n \/ i = n + 1
  BY <1>1
<1> HIDE DEF longer
<1>6. Increasing(longer)
  <2> SUFFICES ASSUME NEW i \in 1..Len(longer), NEW j \in 1..Len(longer), i < j
               PROVE  longer[i].path[1] < longer[j].path[1]
    BY DEF Increasing
  <2>1. i \in 1..n
    BY <1>1, <1>4
  <2>2. CASE j \in 1..n
    BY <1>4, <2>1, <2>2 DEF Fit, Increasing
  <2>3. CASE j = n + 1
    BY <1>3, <1>4, <2>1, <2>3
  <2>. QED BY <1>4, <1>5, <2>2, <2>3
<1>7. \A i \in 1..Len(longer) : Content(longer[i].path, longer[i].sha256)
  BY <1>2, <1>3, <1>4, <1>5 DEF Fit
<1>8. ASSUME NEW i \in 1..Len(longer), NEW j \in 1..Len(longer),
             longer[i].path = DuckDB, longer[j].path = Wal
      PROVE  longer[i].sha256 \cap longer[j].sha256 = {}
  <2>1. CASE i \in 1..n /\ j \in 1..n
    BY <1>4, <1>8, <2>1 DEF Fit
  <2>2. CASE i \in 1..n /\ j = n + 1
    <3>1. longer[i].sha256 \subseteq root[DuckDB]
      BY <1>4, <1>8, <2>2 DEF Earlier
    <3>2. Wal \in DOMAIN root /\ longer[j].sha256 = root[Wal]
      BY <1>3, <1>4, <1>8, <2>2
    <3>. QED BY <3>1, <3>2 DEF RootShape
  <2>3. CASE i = n + 1 /\ j \in 1..n
    <3>1. Wal[1] < DuckDB[1]
      BY <1>3, <1>4, <1>8, <2>3
    <3>. QED BY <3>1, PathNames
  <2>4. CASE i = n + 1 /\ j = n + 1
    BY <1>8, <2>4, PathNames
  <2>. QED BY <1>4, <1>5, <2>1, <2>2, <2>3, <2>4
<1>9. ASSUME NEW i \in 1..Len(longer), NEW j \in 1..Len(longer),
             longer[i].path \in {DuckDB, Wal}, longer[j].path = Sqlite
      PROVE  Landed(longer[i].sha256) \subseteq Seen(longer[j].sha256)
  <2>1. CASE i \in 1..n /\ j \in 1..n
    BY <1>4, <1>9, <2>1 DEF Fit
  <2>2. CASE i \in 1..n /\ j = n + 1
    <3>1. longer[j].sha256 = root[Sqlite]
      BY <1>3, <1>4, <1>9, <2>2
    <3>2. CASE longer[i].path = Wal
      BY <1>4, <2>2, <3>1, <3>2 DEF Earlier
    <3>3. CASE longer[i].path = DuckDB
      <4>1. longer[i].sha256 \subseteq root[DuckDB]
        BY <1>4, <2>2, <3>3 DEF Earlier
      <4>2. Landed(root[DuckDB]) \subseteq Seen(root[Sqlite])
        BY DEF RootShape
      <4>3. Landed(longer[i].sha256) \subseteq Landed(root[DuckDB])
        BY <4>1 DEF Landed
      <4>. QED BY <3>1, <4>2, <4>3
    <3>. QED BY <1>9, <3>2, <3>3
  <2>3. CASE i = n + 1 /\ j \in 1..n
    <3>1. Sqlite[1] < DuckDB[1] \/ Sqlite[1] < Wal[1]
      BY <1>3, <1>4, <1>9, <2>3
    <3>. QED BY <3>1, PathNames
  <2>4. CASE i = n + 1 /\ j = n + 1
    BY <1>9, <2>4, PathNames
  <2>. QED BY <1>4, <1>5, <2>1, <2>2, <2>3, <2>4
<1>10. Fit(longer)
  BY <1>4, <1>6, <1>7, <1>8, <1>9 DEF Fit
<1>. QED BY <1>10 DEF longer

\* A content of the root fits itself.
LEMMA ContentIsEarlier ==
    ASSUME RootShape(root), NEW p \in DOMAIN root
    PROVE  Earlier(p, root[p], root) /\ HoldsOrPassed(p, root[p], root)
BY DEF RootShape, Earlier, HoldsOrPassed, Holds

LEMMA HashKeeps ==
    ASSUME LocalRootInductive, HashFile, backup.files[backup.next] \in DOMAIN root
    PROVE  LocalRootInductive'
<1> DEFINE p == backup.files[backup.next]
           e == [path |-> p, sha256 |-> root[p]]
           entries == backup.entries
           n == Len(backup.entries)
           longer == Append(backup.entries, e)
<1>1. /\ backup.pc = "hash"
      /\ backup' = [backup EXCEPT
                      !.entries = longer,
                      !.next = IF @ = Len(backup.files) THEN 1 ELSE @ + 1,
                      !.pc = IF backup.next = Len(backup.files) THEN "pages" ELSE @]
      /\ UNCHANGED <<root, session, writer, fence, pages, manifest, objects, restore,
                     stage, refusal, counts, moments, disturbed, archived>>
  BY DEF HashFile, BackupStep, FileVanished, restoreVars, historyVars
<1>2. /\ backup \in [pc : {"idle", "close", "list"} \cup Listed, files : Seq(Paths),
                     entries : Seq(EntryRecords), next : Nat, page : Nat]
      /\ session # "backup" /\ DOMAIN root # {} /\ RootShape(root) /\ backup.page = 0
      /\ FilesShape(backup.files)
      /\ backup.next \in 1..Len(backup.files) /\ n = backup.next - 1
      /\ \A i \in 1..n : entries[i].path = backup.files[i]
  BY <1>1 DEF LocalRootInductive, BackupWell, Listed, RootWell
<1>3. p \in Paths /\ p \in DOMAIN root /\ root[p] \in SUBSET Facts /\ root[p] # {}
  BY <1>2 DEF RootShape, Content
<1>4. e \in EntryRecords /\ e.path = p /\ e.sha256 = root[p]
  BY <1>3 DEF EntryRecords
<1>5. entries \in Seq(EntryRecords) /\ n \in Nat /\ Len(backup.files) \in Nat
      /\ backup.next = n + 1
  BY <1>2
<1> HIDE DEF e
<1>6. /\ longer \in Seq(EntryRecords) /\ Len(longer) = n + 1
      /\ longer[n + 1] = e
      /\ \A i \in 1..n : longer[i] = entries[i]
  BY <1>4, <1>5
<1>7. \A i \in 1..(n + 1) : i \in 1..n \/ i = n + 1
  BY <1>5
<1> HIDE DEF longer
<1>8. /\ backup'.pc = (IF backup.next = Len(backup.files) THEN "pages" ELSE "hash")
      /\ backup'.files = backup.files /\ backup'.entries = longer
      /\ backup'.next = (IF backup.next = Len(backup.files) THEN 1 ELSE backup.next + 1)
      /\ backup'.page = 0
      /\ backup' \in [pc : {"idle", "close", "list"} \cup Listed, files : Seq(Paths),
                      entries : Seq(EntryRecords), next : Nat, page : Nat]
  <2>1. /\ backup'.pc = (IF backup.next = Len(backup.files) THEN "pages" ELSE "hash")
        /\ backup'.files = backup.files /\ backup'.entries = longer
        /\ backup'.next = (IF backup.next = Len(backup.files) THEN 1 ELSE backup.next + 1)
        /\ backup'.page = 0
    BY <1>1, <1>2
  <2>2. /\ backup'.pc \in {"idle", "close", "list"} \cup Listed
        /\ backup'.files \in Seq(Paths) /\ backup'.entries \in Seq(EntryRecords)
        /\ backup'.next \in Nat
    BY <1>2, <1>5, <1>6, <2>1 DEF Listed
  <2>3. backup' = [pc |-> backup'.pc, files |-> backup'.files, entries |-> backup'.entries,
                   next |-> backup'.next, page |-> backup'.page]
    BY <1>1, <1>2
  <2>. QED BY <2>1, <2>2, <2>3
<1>9. RootWell' /\ WriterWell' /\ RestoreWell' /\ CountsWell'
  BY <1>1, BackupLeaves DEF LocalRootInductive, CountsWell
<1>10. BackupWell'
  <2>1. \A i \in 1..Len(longer) : longer[i].path = backup.files[i]
    BY <1>2, <1>4, <1>5, <1>6, <1>7
  <2>2. restore.pc = "idle" /\ (fence => backup.pc # "idle")
    BY <1>1 DEF LocalRootInductive, BackupWell
  <2>3. CASE backup.next = Len(backup.files)
    <3>1. backup'.pc = "pages" /\ backup'.next = 1
      BY <1>8, <2>3
    <3>. QED BY <1>1, <1>2, <1>5, <1>6, <1>8, <2>1, <2>2, <2>3, <3>1 DEF BackupWell, Listed
  <2>4. CASE backup.next # Len(backup.files)
    <3>1. backup'.pc = "hash" /\ backup'.next = backup.next + 1
          /\ backup'.next \in 1..Len(backup.files)
      BY <1>2, <1>5, <1>8, <2>4
    <3>2. /\ Len(backup'.entries) = backup'.next - 1
          /\ backup'.files = backup.files /\ backup'.entries = longer
      BY <1>5, <1>6, <1>8, <3>1
    <3>. QED BY <1>1, <1>2, <1>8, <2>1, <2>2, <3>1, <3>2 DEF BackupWell, Listed
  <2>. QED BY <2>3, <2>4
<1>11. HashesWell'
  <2>1. \A i \in 1..n : entries[i].path[1] < p[1]
    <3>1. \A i, j \in 1..Len(backup.files) :
            i < j => backup.files[i][1] < backup.files[j][1]
      BY <1>2 DEF FilesShape
    <3>2. \A i \in 1..n : i \in 1..Len(backup.files) /\ i < backup.next
      BY <1>2, <1>5
    <3>. QED BY <1>2, <3>1, <3>2
  <2>2. /\ Fit(entries)
        /\ \A i \in 1..n : /\ Earlier(entries[i].path, entries[i].sha256, root)
                           /\ HoldsOrPassed(entries[i].path, entries[i].sha256, root)
    BY DEF LocalRootInductive, HashesWell
  <2>3. Fit(longer)
    BY <1>2, <1>3, <2>1, <2>2, FitExtends DEF longer, e
  <2>4. Earlier(p, root[p], root) /\ HoldsOrPassed(p, root[p], root)
    BY <1>2, <1>3, ContentIsEarlier
  <2>5. \A i \in 1..Len(longer) :
          /\ Earlier(longer[i].path, longer[i].sha256, root)
          /\ HoldsOrPassed(longer[i].path, longer[i].sha256, root)
    BY <1>4, <1>6, <1>7, <2>2, <2>4
  <2>. QED BY <1>1, <1>8, <2>3, <2>5 DEF HashesWell
<1>12. CopiesWell' /\ ArchiveIsOneMoment' /\ ArchiveWell'
  BY <1>1
     DEF LocalRootInductive, CopiesWell, ArchiveIsOneMoment, ArchiveWell, CopiedWhole, Verified
<1>13. MomentsWell'
  <2>1. backup'.pc \in {"hash", "pages"}
    BY <1>8
  <2>2. Witnesses(0, backup.entries)' = (IF counts["losses"] = 0 THEN 0 ELSE n + 1)..(n + 1)
    BY <1>1, <1>6, <1>8 DEF Witnesses
  <2>3. SUFFICES ASSUME NEW k \in (IF counts["losses"] = 0 THEN 0 ELSE n + 1)..(n + 1)
                 PROVE  \E m \in moments : FitsHashed(m, k)'
    BY <1>1, <1>8, <2>1, <2>2 DEF MomentsWell, Witnesses
  <2>4. \A m : FitsHashed(m, k)' <=>
          /\ \A i \in 1..k :
               \/ Holds(m, longer[i].path, longer[i].sha256)
               \/ Passed(longer[i].path, longer[i].sha256, root)
          /\ counts["losses"] = 0 =>
               /\ \A i \in (k + 1)..(n + 1) :
                    Verified(longer[i]) => Holds(m, longer[i].path, longer[i].sha256)
               /\ \A q \in DOMAIN objects :
                    \/ objects[q] = {} \/ Holds(m, q, objects[q])
                    \/ Passed(q, objects[q], root)
    BY <1>1, <1>6, <1>8 DEF FitsHashed, Verified
  <2>5. CASE k = n + 1
    <3>1. \A i \in 1..k : HoldsOrPassed(longer[i].path, longer[i].sha256, root)
      BY <1>1, <1>6, <1>8, <1>11, <2>5 DEF HashesWell
    <3>2. counts["losses"] = 0 =>
            \A q \in DOMAIN objects :
              objects[q] = {} \/ Holds(root, q, objects[q]) \/ Passed(q, objects[q], root)
      BY DEF LocalRootInductive, CopiesWell, HoldsOrPassed
    <3>3. \A i \in (k + 1)..(n + 1) : FALSE
      BY <1>5, <2>5
    <3>4. PICK m : m = root
      OBVIOUS
    <3>5. FitsHashed(m, k)'
      BY <2>4, <3>1, <3>2, <3>3, <3>4 DEF HoldsOrPassed
    <3>6. m \in moments
      BY <3>4 DEF LocalRootInductive, RootWell
    <3>. QED BY <3>5, <3>6
  <2>6. CASE k # n + 1
    <3>1. counts["losses"] = 0 /\ k \in 0..n
      BY <1>5, <2>3, <2>6
    <3>2. k \in Witnesses(0, entries)
      BY <1>5, <3>1 DEF Witnesses
    <3>3. PICK m \in moments : FitsHashed(m, k)
      BY <1>1, <3>1, <3>2 DEF LocalRootInductive, MomentsWell
    <3>4. /\ \A i \in 1..k : \/ Holds(m, entries[i].path, entries[i].sha256)
                             \/ Passed(entries[i].path, entries[i].sha256, root)
          /\ \A i \in (k + 1)..n :
               Verified(entries[i]) => Holds(m, entries[i].path, entries[i].sha256)
          /\ \A q \in DOMAIN objects :
               objects[q] = {} \/ Holds(m, q, objects[q]) \/ Passed(q, objects[q], root)
      BY <3>1, <3>3 DEF FitsHashed
    <3>5. Verified(e) => Holds(m, p, root[p])
      <4>1. SUFFICES ASSUME Verified(e) PROVE Holds(m, p, root[p])
        OBVIOUS
      <4>2. p \in DOMAIN objects /\ objects[p] = root[p]
        BY <1>4, <4>1 DEF Verified
      <4>3. ~Passed(p, root[p], root)
        BY <1>2, <1>3, PassedIsGone
      <4>. QED BY <1>3, <3>4, <4>2, <4>3
    <3>6. \A i \in 1..k : i \in 1..n
      BY <1>5, <3>1
    <3>7. \A i \in (k + 1)..(n + 1) : i \in (k + 1)..n \/ i = n + 1
      BY <1>5, <3>1
    <3>8. \A i \in (k + 1)..n : i \in 1..n
      BY <1>5, <3>1
    <3>9. FitsHashed(m, k)'
      BY <1>4, <1>6, <2>4, <3>4, <3>5, <3>6, <3>7, <3>8
    <3>. QED BY <3>9
  <2>. QED BY <2>5, <2>6
<1>14. UndisturbedWell'
  <2>1. SUFFICES ASSUME Undisturbed
                 PROVE  \A i \in 1..Len(longer) : longer[i].sha256 = root[longer[i].path]
    BY <1>1, <1>8 DEF LocalRootInductive, UndisturbedWell, Undisturbed, Listed
  <2>2. \A i \in 1..n : entries[i].sha256 = root[entries[i].path]
    BY <1>1, <2>1 DEF LocalRootInductive, UndisturbedWell, Listed
  <2>. QED BY <1>4, <1>6, <1>7, <2>2
<1>. QED BY <1>9, <1>10, <1>11, <1>12, <1>13, <1>14 DEF LocalRootInductive

LEMMA HashFileKeeps ==
    ASSUME LocalRootInductive, HashFile
    PROVE  LocalRootInductive'
<1>1. CASE backup.files[backup.next] \in DOMAIN root
  BY <1>1, HashKeeps
<1>2. CASE backup.files[backup.next] \notin DOMAIN root
  <2>1. FileVanished(backup.files[backup.next]) /\ backup.pc = "hash"
    BY <1>2 DEF HashFile
  <2>. QED BY <2>1, VanishKeeps
<1>. QED BY <1>1, <1>2

LEMMA CopyKeeps ==
    ASSUME LocalRootInductive, CopyFile, backup.files[backup.next] \in DOMAIN root
    PROVE  LocalRootInductive'
<1>0. PICK entries, files, c, p : /\ entries = backup.entries /\ files = backup.files
                                  /\ c = backup.next /\ p = backup.files[backup.next]
  OBVIOUS
<1> DEFINE n == Len(entries)
           last == c = n
<1>1. /\ backup.pc = "copy"
      /\ objects' = With(objects, p, root[p])
      /\ backup' = IF c = Len(files) THEN NoBackup ELSE [backup EXCEPT !.next = @ + 1]
      /\ fence' = (fence /\ ~(c = Len(files)))
      /\ archived' = [archived EXCEPT !.copied = @ + 1]
      /\ UNCHANGED <<root, session, writer, pages, manifest, restore, stage, refusal,
                     counts, moments, disturbed>>
  BY <1>0 DEF CopyFile, FileVanished, restoreVars
<1>2. /\ backup \in [pc : {"idle", "close", "list"} \cup Listed, files : Seq(Paths),
                     entries : Seq(EntryRecords), next : Nat, page : Nat]
      /\ session # "backup" /\ DOMAIN root # {} /\ RootShape(root) /\ restore.pc = "idle"
      /\ FilesShape(files)
      /\ c \in 1..n /\ n = Len(files)
      /\ archived.entries = entries /\ archived.copied = c - 1
      /\ archived \in [entries : Seq(EntryRecords), copied : Nat]
      /\ \A i \in 1..n : entries[i].path = files[i]
      /\ entries \in Seq(EntryRecords) /\ n \in Nat
      /\ counts \in [{"backups", "restores", "crashes", "damages", "losses"} -> Nat]
  BY <1>0, <1>1, ListingIsWhole
     DEF LocalRootInductive, BackupWell, ArchiveWell, CountsWell, Listed, RootWell
<1>3. p \in Paths /\ p \in DOMAIN root /\ root[p] \in SUBSET Facts /\ root[p] # {}
      /\ entries[c].path = p /\ files[c] = p
  BY <1>0, <1>2 DEF RootShape, Content
<1>4. /\ archived'.entries = entries /\ archived'.copied = c
      /\ archived' \in [entries : Seq(EntryRecords), copied : Nat]
  <2>1. c - 1 + 1 = c /\ c \in Nat
    BY <1>2
  <2>2. archived' = [entries |-> entries, copied |-> c]
    BY <1>1, <1>2, <2>1
  <2>. QED BY <1>2, <2>1, <2>2
<1>5. /\ DOMAIN objects' = DOMAIN objects \cup {p} /\ objects'[p] = root[p]
      /\ \A q \in DOMAIN objects : q # p => objects'[q] = objects[q]
  BY <1>1 DEF With
<1>6. \A i \in 1..n : i # c => entries[i].path # p
  <2> SUFFICES ASSUME NEW i \in 1..n, i # c PROVE entries[i].path # p
    OBVIOUS
  <2>1. i < c \/ c < i
    BY <1>2
  <2>2. entries[i].path[1] < p[1] \/ p[1] < entries[i].path[1]
    <3>1. \A a, b \in 1..n : a < b => files[a][1] < files[b][1]
      BY <1>2 DEF FilesShape
    <3>2. files[i][1] < files[c][1] \/ files[c][1] < files[i][1]
      BY <1>2, <2>1, <3>1
    <3>. QED BY <1>2, <1>3, <3>2
  <2>3. p[1] \in Nat
    BY <1>3, RanksDiffer
  <2>. QED BY <2>2, <2>3
<1>7. \A i \in 1..n : i # c => (Verified(entries[i])' <=> Verified(entries[i]))
  BY <1>5, <1>6 DEF Verified
<1>8. Verified(entries[c])' <=> root[p] = entries[c].sha256
  BY <1>3, <1>5 DEF Verified
<1>9. \A i \in 1..n : i < c \/ i = c \/ c < i
  BY <1>2
<1>10. RootWell' /\ WriterWell' /\ RestoreWell'
  BY <1>1, BackupLeaves
<1>11. CountsWell'
  BY <1>1 DEF LocalRootInductive, CountsWell
<1>12. CopiesWell'
  BY <1>1, <1>2, <1>3, <1>5 DEF LocalRootInductive, CopiesWell, HoldsOrPassed, Holds
<1>13. ArchiveWell'
  <2>1. objects' \in [DOMAIN objects' -> SUBSET Facts]
    BY <1>1, <1>3, <1>5, WithTyped DEF LocalRootInductive, ArchiveWell
  <2>. QED BY <1>1, <1>2, <1>4, <2>1 DEF LocalRootInductive, ArchiveWell
\* A content that k copies fit, c at least, fits the copy made as well.
<1>14. ASSUME NEW m, NEW k \in c..n, FitsCopied(m, k)
       PROVE  \A i \in 1..n :
                IF i <= c \/ k < i
                THEN Verified(entries[i])' => Holds(m, entries[i].path, entries[i].sha256)
                ELSE \/ Holds(m, entries[i].path, entries[i].sha256)
                     \/ Passed(entries[i].path, entries[i].sha256, root)
  <2> SUFFICES ASSUME NEW i \in 1..n
               PROVE  IF i <= c \/ k < i
                      THEN Verified(entries[i])'
                             => Holds(m, entries[i].path, entries[i].sha256)
                      ELSE \/ Holds(m, entries[i].path, entries[i].sha256)
                           \/ Passed(entries[i].path, entries[i].sha256, root)
    OBVIOUS
  <2>1. IF i < c \/ k < i
        THEN Verified(entries[i]) => Holds(m, entries[i].path, entries[i].sha256)
        ELSE \/ Holds(m, entries[i].path, entries[i].sha256)
             \/ Passed(entries[i].path, entries[i].sha256, root)
    BY <1>0, <1>14 DEF FitsCopied
  <2>2. i \in Int /\ c \in Int /\ k \in Int /\ c <= k
    BY <1>2
  <2>3. CASE i = c
    <3>1. \/ Holds(m, entries[i].path, entries[i].sha256)
          \/ Passed(entries[i].path, entries[i].sha256, root)
      BY <2>1, <2>2, <2>3
    <3>2. ~Passed(p, root[p], root)
      BY <1>2, <1>3, PassedIsGone
    <3>3. Verified(entries[i])' => Holds(m, entries[i].path, entries[i].sha256)
      BY <1>3, <1>8, <2>3, <3>1, <3>2
    <3>. QED BY <2>2, <2>3, <3>3
  <2>4. CASE i # c
    <3>1. i <= c <=> i < c
      BY <2>2, <2>4
    <3>. QED BY <1>7, <2>1, <2>4, <3>1
  <2>. QED BY <2>3, <2>4
<1>15. ArchiveIsOneMoment'
  <2>1. SUFFICES ASSUME last \/ counts["losses"] = 0
                 PROVE  \E m \in moments : \A i \in 1..n :
                          Verified(entries[i])' => Holds(m, entries[i].path, entries[i].sha256)
    <3>1. root # Nothing
      BY <1>2 DEF Nothing
    <3>2. CopiedWhole' => last
      BY <1>4 DEF CopiedWhole
    <3>3. ArchiveIsOneMoment' <=>
            (CopiedWhole' \/ counts["losses"] = 0 \/ (counts["losses"] = 1 /\ root = Nothing) =>
               \E m \in moments : \A i \in 1..n :
                 Verified(entries[i])' => Holds(m, entries[i].path, entries[i].sha256))
      BY <1>1, <1>4 DEF ArchiveIsOneMoment, Verified
    <3>. QED BY <3>1, <3>2, <3>3
  <2>2. c \in Witnesses(c - 1, entries) /\ c \in c..n
    BY <1>2, <2>1 DEF Witnesses
  <2>3. PICK m \in moments : FitsCopied(m, c)
    BY <1>0, <1>1, <2>2 DEF LocalRootInductive, MomentsWell
  <2>4. \A i \in 1..n : i <= c \/ c < i
    BY <1>2
  <2>5. \A i \in 1..n : Verified(entries[i])' => Holds(m, entries[i].path, entries[i].sha256)
    BY <1>14, <2>2, <2>3, <2>4
  <2>. QED BY <2>5
<1>16. CASE last
  <2>1. backup' = NoBackup /\ fence' = FALSE
    BY <1>1, <1>2, <1>16
  <2>2. BackupWell' /\ HashesWell' /\ MomentsWell'
    BY <1>1, <1>2, <2>1, EndedBackup
  <2>3. UndisturbedWell'
    <3>1. SUFFICES ASSUME Undisturbed
                   PROVE  /\ refusal # "integrity_error"
                          /\ PagesHold(entries)
                          /\ \A i \in 1..n : Verified(entries[i])'
                          /\ \E m \in moments : Describes(entries, m)
      BY <1>1, <1>4, <2>1 DEF UndisturbedWell, Undisturbed, NoBackup, Listed, PagesHold, Verified
    <3>2. /\ refusal # "integrity_error"
          /\ PagesHold(entries)
          /\ \A i \in 1..(c - 1) : Verified(entries[i])
          /\ \A i \in 1..n : /\ entries[i].sha256 = root[entries[i].path]
                             /\ files[i] \in DOMAIN root
          /\ \A q \in DOMAIN root : \E i \in 1..n : files[i] = q
      BY <1>0, <1>1, <1>2, <3>1 DEF LocalRootInductive, UndisturbedWell, Listed
    <3>3. \A i \in 1..n : i = c \/ i \in 1..(c - 1)
      BY <1>2, <1>16
    <3>4. \A i \in 1..n : Verified(entries[i])'
      BY <1>3, <1>7, <1>8, <3>2, <3>3
    <3>5. PICK m : m = root
      OBVIOUS
    <3>6. Describes(entries, m)
      <4>1. \A i \in 1..n : Holds(m, entries[i].path, entries[i].sha256)
        BY <1>2, <3>2, <3>5 DEF Holds
      <4>2. \A q \in DOMAIN m : \E i \in 1..n : entries[i].path = q
        <5>1. \A q \in DOMAIN root : \E i \in 1..n : files[i] = q
          BY <3>2
        <5>2. \A i \in 1..n : entries[i].path = files[i]
          BY <1>2
        <5>. QED BY <3>5, <5>1, <5>2
      <4>. QED BY <4>1, <4>2 DEF Describes
    <3>7. m \in moments
      BY <3>5 DEF LocalRootInductive, RootWell
    <3>. QED BY <3>2, <3>4, <3>6, <3>7
  <2>. QED BY <1>10, <1>11, <1>12, <1>13, <1>15, <2>2, <2>3 DEF LocalRootInductive
<1>17. CASE ~last
  <2>1. backup' = [backup EXCEPT !.next = @ + 1] /\ fence' = fence
    BY <1>1, <1>2, <1>17 DEF LocalRootInductive, CountsWell
  <2>2. /\ backup'.pc = "copy" /\ backup'.files = files /\ backup'.entries = entries
        /\ backup'.next = c + 1
    BY <1>0, <1>1, <1>2, <2>1
  <2>3. c + 1 \in 1..n /\ c + 1 \in Nat
    BY <1>2, <1>17
  <2>4. backup' \in [pc : {"idle", "close", "list"} \cup Listed, files : Seq(Paths),
                     entries : Seq(EntryRecords), next : Nat, page : Nat]
    <3>1. backup' = [pc |-> backup.pc, files |-> backup.files, entries |-> backup.entries,
                     next |-> c + 1, page |-> backup.page]
      BY <1>0, <1>2, <2>1
    <3>. QED BY <1>2, <2>3, <3>1
  <2>5. BackupWell'
    <3>1. archived'.copied = backup'.next - 1
      BY <1>2, <1>4, <2>2
    <3>. QED BY <1>1, <1>2, <1>4, <2>1, <2>2, <2>3, <2>4, <3>1 DEF BackupWell, Listed
  <2>6. HashesWell'
    BY <1>0, <1>1, <2>2 DEF LocalRootInductive, HashesWell
  <2>7. MomentsWell'
    <3>1. SUFFICES ASSUME NEW k \in Witnesses(c, entries)
                   PROVE  \E m \in moments : FitsCopied(m, k)'
      <4>1. backup'.next - 1 = c
        BY <1>2, <2>2
      <4>2. Witnesses(backup.next - 1, backup.entries)' = Witnesses(c, entries)
        BY <1>1, <2>2, <4>1 DEF Witnesses
      <4>. QED BY <1>1, <2>2, <4>2 DEF MomentsWell
    <3>2. k \in c..n /\ k \in Witnesses(c - 1, entries)
      <4>1. n \in Nat /\ c \in 1..n
        BY <1>2
      <4>2. CASE counts["losses"] = 0
        BY <3>1, <4>1, <4>2 DEF Witnesses
      <4>3. CASE counts["losses"] # 0
        BY <3>1, <4>1, <4>3 DEF Witnesses
      <4>. QED BY <4>2, <4>3
    <3>3. PICK m \in moments : FitsCopied(m, k)
      BY <1>0, <1>1, <3>2 DEF LocalRootInductive, MomentsWell
    <3>4. \A i \in 1..n : i <= c <=> i < c + 1
      BY <1>2
    <3>5. FitsCopied(m, k)' <=>
            \A i \in 1..n :
              IF i < c + 1 \/ k < i
              THEN Verified(entries[i])' => Holds(m, entries[i].path, entries[i].sha256)
              ELSE \/ Holds(m, entries[i].path, entries[i].sha256)
                   \/ Passed(entries[i].path, entries[i].sha256, root)
      BY <1>1, <2>2 DEF FitsCopied, Verified
    <3>6. FitsCopied(m, k)'
      BY <1>14, <3>2, <3>3, <3>4, <3>5
    <3>. QED BY <3>6
  <2>8. UndisturbedWell'
    <3>1. c + 1 - 1 = c
      BY <1>2
    <3>2. SUFFICES ASSUME Undisturbed
                   PROVE  \A i \in 1..c : Verified(entries[i])'
      <4>1. UndisturbedWell
        BY DEF LocalRootInductive
      <4>2. Undisturbed => /\ PagesHold(backup.entries)'
                           /\ refusal' # "integrity_error"
        BY <1>0, <1>1, <2>2, <4>1 DEF UndisturbedWell, Undisturbed, PagesHold
      <4>3. Undisturbed =>
              /\ \A i \in 1..Len(files) : files[i] \in DOMAIN root
              /\ \A q \in DOMAIN root : \E i \in 1..Len(files) : files[i] = q
              /\ \A i \in 1..n : entries[i].sha256 = root[entries[i].path]
        BY <1>0, <1>1, <4>1 DEF UndisturbedWell, Listed
      <4>4. backup'.next - 1 = c
        BY <1>2, <2>2
      <4>5. Undisturbed' = Undisturbed
        BY <1>1 DEF Undisturbed
      <4>6. ASSUME Undisturbed => \A i \in 1..c : Verified(entries[i])'
            PROVE  Undisturbed' => \A i \in 1..(backup'.next - 1) : Verified(backup.entries[i])'
        BY <2>2, <4>4, <4>5, <4>6 DEF Verified
      <4>7. backup'.pc = "copy" /\ root' = root
        BY <1>1, <2>2
      <4>8. ASSUME Undisturbed', \A i \in 1..c : Verified(entries[i])'
            PROVE  /\ \A i \in 1..Len(backup'.files) : backup'.files[i] \in DOMAIN root'
                   /\ \A q \in DOMAIN root' : \E i \in 1..Len(backup'.files) : backup'.files[i] = q
                   /\ \A i \in 1..Len(backup'.entries) :
                        backup'.entries[i].sha256 = root'[backup'.entries[i].path]
        BY <2>2, <4>3, <4>5, <4>7, <4>8
      <4>. QED BY <4>2, <4>5, <4>6, <4>7, <4>8 DEF UndisturbedWell
    <3>3. /\ \A i \in 1..(c - 1) : Verified(entries[i])
          /\ \A i \in 1..n : entries[i].sha256 = root[entries[i].path]
      BY <1>0, <1>1, <3>2 DEF LocalRootInductive, UndisturbedWell, Listed
    <3>4. \A i \in 1..c : (i = c \/ i \in 1..(c - 1)) /\ i \in 1..n
      BY <1>2
    <3>. QED BY <1>3, <1>7, <1>8, <3>3, <3>4
  <2>. QED BY <1>10, <1>11, <1>12, <1>13, <1>15, <2>5, <2>6, <2>7, <2>8 DEF LocalRootInductive
<1>. QED BY <1>16, <1>17

LEMMA CopyFileKeeps ==
    ASSUME LocalRootInductive, CopyFile
    PROVE  LocalRootInductive'
<1>1. CASE backup.files[backup.next] \in DOMAIN root
  BY <1>1, CopyKeeps
<1>2. CASE backup.files[backup.next] \notin DOMAIN root
  <2>1. FileVanished(backup.files[backup.next]) /\ backup.pc = "copy"
    BY <1>2 DEF CopyFile
  <2>. QED BY <2>1, VanishKeeps
<1>. QED BY <1>1, <1>2

-----------------------------------------------------------------------------
(* The pages *)

\* Every nonempty set of naturals has a least element: induction over the
\* pages, in a form the provers can use.
LEMMA LeastNatural ==
    ASSUME NEW T, T \subseteq Nat, T # {}
    PROVE  \E x \in T : \A y \in T : x <= y
<1> DEFINE R == OpToRel(<, Nat)
<1>1. IsWellFoundedOn(R, Nat)
  BY NatLessThanWellFounded
<1>2. \A y, x \in Nat : y < x => <<y, x>> \in R
  BY DEF OpToRel
<1> HIDE DEF R
<1>3. PICK x \in T : \A y \in T : ~ (<<y, x>> \in R)
  BY <1>1, WFMin
<1>4. ASSUME NEW y \in T PROVE x <= y
  <2>1. x \in Nat /\ y \in Nat
    OBVIOUS
  <2>2. ~(y < x)
    BY <1>2, <1>3, <2>1
  <2>. QED BY <2>1, <2>2
<1>. QED BY <1>4

\* The last page is not empty, and the pages hold every entry.
LEMMA PageCounts ==
    ASSUME NEW n \in Nat \ {0}, NEW k \in Nat \ {0}, NEW c, c = (n + k - 1) \div k
    PROVE  /\ c \in Nat \ {0}
           /\ (c - 1) * k < n
           /\ n <= c * k
<1>1. c \in Int /\ c * k <= n + k - 1 /\ n + k - 1 < (c + 1) * k
  BY SMTT(30)
<1>2. (c - 1) * k = c * k - k /\ (c + 1) * k = c * k + k
  BY <1>1, SMT
<1>3. (c - 1) * k < n /\ n <= c * k
  BY <1>1, <1>2
<1>4. c > 0
  <2> SUFFICES ASSUME c <= 0 PROVE FALSE
    BY <1>1, SMT
  <2>1. c * k <= 0
    BY <1>1, SMT
  <2>. QED BY <1>1, <1>3, <2>1
<1>. QED BY <1>1, <1>3, <1>4

\* How many entries the first i pages hold.
Paged(entries, i) == IF i * PageEntries < Len(entries) THEN i * PageEntries ELSE Len(entries)

LEMMA PagedBounds ==
    ASSUME NEW C, NEW entries \in Seq(C), entries # <<>>
    PROVE  /\ PageCount(entries) \in Nat \ {0}
           /\ Paged(entries, 0) = 0
           /\ Paged(entries, PageCount(entries)) = Len(entries)
           /\ \A i \in 0..(PageCount(entries) - 1) :
                /\ Paged(entries, i) \in 0..Len(entries)
                /\ Paged(entries, i + 1) \in 0..Len(entries)
                /\ Paged(entries, i) < Paged(entries, i + 1)
                /\ Slice(entries, i)
                     = SubSeq(entries, Paged(entries, i) + 1, Paged(entries, i + 1))
<1>1. PICK n, k, c : n = Len(entries) /\ k = PageEntries /\ c = PageCount(entries)
  OBVIOUS
<1>2. n \in Nat \ {0} /\ k \in Nat \ {0} /\ c = (n + k - 1) \div k
  BY <1>1, LocalRootParameters DEF PageCount
<1>3. c \in Nat \ {0} /\ (c - 1) * k < n /\ n <= c * k
  BY <1>2, PageCounts
<1>4. Paged(entries, 0) = 0
  BY <1>1, <1>2 DEF Paged
<1>5. c * k \in Int
  BY <1>2, <1>3
<1>6. Paged(entries, c) = n
  BY <1>1, <1>2, <1>3, <1>5 DEF Paged
<1>7. ASSUME NEW i \in 0..(c - 1)
      PROVE  /\ Paged(entries, i) \in 0..n
             /\ Paged(entries, i + 1) \in 0..n
             /\ Paged(entries, i) < Paged(entries, i + 1)
             /\ Slice(entries, i)
                  = SubSeq(entries, Paged(entries, i) + 1, Paged(entries, i + 1))
  <2>1. PICK a, b : a = i * k /\ b = (i + 1) * k
    OBVIOUS
  <2>2. a \in Nat /\ b = a + k
    BY <1>2, <1>3, <2>1, SMT
  <2>3. a < n
    <3>1. i <= c - 1 /\ i \in Int /\ c - 1 \in Int /\ k \in Nat
      BY <1>2, <1>3
    <3>2. i * k <= (c - 1) * k
      <4> HIDE <1>7
      <4>. QED BY <3>1, SMT
    <3>3. (c - 1) * k \in Int
      BY <3>1
    <3>. QED BY <1>2, <1>3, <2>1, <2>2, <3>2, <3>3
  <2>4. Paged(entries, i) = a
    BY <1>1, <2>1, <2>3 DEF Paged
  <2>5. Paged(entries, i + 1) = IF b < n THEN b ELSE n
    BY <1>1, <2>1 DEF Paged
  <2>6. Slice(entries, i) = SubSeq(entries, a + 1, IF b < n THEN b ELSE n)
    BY <1>1, <2>1 DEF Slice
  <2>. QED BY <1>2, <2>2, <2>3, <2>4, <2>5, <2>6
<1>. QED BY <1>1, <1>3, <1>4, <1>6, <1>7

\* No page is empty.
LEMMA SliceNonempty ==
    ASSUME NEW C, NEW entries \in Seq(C), entries # <<>>,
           NEW i \in 0..(PageCount(entries) - 1)
    PROVE  Slice(entries, i) \in Seq(C) /\ Slice(entries, i) # <<>>
<1>1. PICK a, b : a = Paged(entries, i) /\ b = Paged(entries, i + 1)
  OBVIOUS
<1>2. a \in 0..Len(entries) /\ b \in 0..Len(entries) /\ a < b
      /\ Slice(entries, i) = SubSeq(entries, a + 1, b)
  BY <1>1, PagedBounds
<1>. QED BY <1>2

\* The equations of the digests of a chain.
DigestStep(g, entries, i) ==
    PageDigest(i, IF i = 0 THEN <<>> ELSE g[i - 1], Slice(entries, i))

\* The digests of a chain exist: a least page up to which they do not is no
\* page.
LEMMA DigestsExist ==
    ASSUME NEW entries, NEW last \in Nat
    PROVE  \E g : g = [i \in 0..last |-> DigestStep(g, entries, i)]
<1> DEFINE Built(n) == \E g : g = [i \in 0..n |-> DigestStep(g, entries, i)]
           T == {n \in 0..last : ~Built(n)}
<1>1. SUFFICES ASSUME T # {} PROVE FALSE
  <2>1. last \in 0..last
    OBVIOUS
  <2> HIDE DEF Built
  <2>2. T = {} => Built(last)
    BY <2>1
  <2>. QED BY <2>2 DEF Built
<1>2. PICK m \in T : \A n \in T : m <= n
  <2>1. T \subseteq Nat
    OBVIOUS
  <2> HIDE DEF T
  <2>. QED BY <1>1, <2>1, LeastNatural
<1>3. Built(0)
  <2> DEFINE e == [i \in 0..0 |-> PageDigest(0, <<>>, Slice(entries, 0))]
  <2>1. \A i \in 0..0 : i = 0
    OBVIOUS
  <2>2. \A i \in 0..0 : DigestStep(e, entries, i) = PageDigest(0, <<>>, Slice(entries, 0))
    BY <2>1 DEF DigestStep
  <2>3. e = [i \in 0..0 |-> DigestStep(e, entries, i)]
    BY <2>2
  <2>. QED BY <2>3
<1>4. m \in 1..last /\ m - 1 \in 0..last /\ ~Built(m)
  <2> HIDE DEF Built
  <2>. QED BY <1>3
<1>5. Built(m - 1)
  <2> HIDE DEF Built
  <2>. QED BY <1>2, <1>4
<1>6. PICK g : g = [i \in 0..(m - 1) |-> DigestStep(g, entries, i)]
  BY <1>5
<1> DEFINE h == [i \in 0..m |-> IF i = m THEN DigestStep(g, entries, m) ELSE g[i]]
<1>7. ASSUME NEW i \in 0..m PROVE h[i] = DigestStep(h, entries, i)
  <2>1. CASE i = m
    <3>1. h[m - 1] = g[m - 1] /\ h[m] = DigestStep(g, entries, m)
      BY <1>4
    <3>. QED BY <1>4, <2>1, <3>1 DEF DigestStep
  <2>2. CASE i # m
    <3>1. i \in 0..(m - 1) /\ h[i] = g[i]
      BY <1>4, <2>2
    <3>2. i # 0 => h[i - 1] = g[i - 1]
      BY <1>4, <2>2
    <3>3. g[i] = DigestStep(g, entries, i)
      BY <1>6, <3>1
    <3> HIDE DEF h
    <3>. QED BY <3>1, <3>2, <3>3 DEF DigestStep
  <2>. QED BY <2>1, <2>2
<1>8. h = [i \in 0..m |-> h[i]]
  OBVIOUS
<1> HIDE DEF h
<1>9. h = [i \in 0..m |-> DigestStep(h, entries, i)]
  BY <1>7, <1>8
<1>10. Built(m)
  BY <1>9
<1>. QED BY <1>4, <1>10

LEMMA DigestsChain ==
    ASSUME NEW entries, NEW last \in Nat, last = PageCount(entries) - 1
    PROVE  \A i \in 0..last :
             ChainDigests(entries)[i] = DigestStep(ChainDigests(entries), entries, i)
<1> DEFINE Chain(g) == g = [i \in 0..last |-> DigestStep(g, entries, i)]
           chain == CHOOSE g : Chain(g)
<1>1. ChainDigests(entries) = chain
  BY DEF ChainDigests, DigestStep
<1>2. \E g : Chain(g)
  BY DigestsExist
<1>3. Chain(chain)
  <2> HIDE DEF Chain
  <2>. QED BY <1>2
<1>4. \A i \in 0..last : chain[i] = DigestStep(chain, entries, i)
  <2> HIDE DEF chain
  <2>. QED BY <1>3
<1> HIDE DEF chain, Chain
<1>. QED BY <1>1, <1>4

\* A chain that ends as that of the entries does is that of the entries: the
\* digest of a page tells the digest before it and the entries of the page.
LEMMA LoadedPages ==
    ASSUME NEW C, NEW entries \in Seq(C), entries # <<>>,
           manifest = ManifestOf(entries), LoadPages
    PROVE  \A i \in 0..(PageCount(entries) - 1) : pages[i].entries = Slice(entries, i)
<1>1. PICK c : c = PageCount(entries)
  OBVIOUS
<1>2. PICK last : last = c - 1
  OBVIOUS
<1>3. PICK g : g = ChainDigests(entries)
  OBVIOUS
<1>4. PICK book : book = pages
  OBVIOUS
<1>5. c \in Nat \ {0} /\ last \in Nat
  BY <1>1, <1>2, PagedBounds
<1>6. \A i \in 0..last :
        g[i] = <<i, IF i = 0 THEN <<>> ELSE g[i - 1], Slice(entries, i)>>
  BY <1>1, <1>2, <1>3, <1>5, DigestsChain DEF DigestStep, PageDigest
<1>7. manifest.page_count = c /\ manifest.final = g[last]
  <2>1. last \in 0..last /\ last = PageCount(entries) - 1
    BY <1>1, <1>2, <1>5
  <2>2. PageChain(entries)[last].digest = g[last]
    BY <1>3, <2>1 DEF PageChain
  <2>. QED BY <1>1, <2>1, <2>2 DEF ManifestOf
<1>8. /\ \A i \in 0..last :
           /\ book[i].previous = IF i = 0 THEN <<>> ELSE book[i - 1].digest
           /\ book[i].digest = <<book[i].index, book[i].previous, book[i].entries>>
      /\ book[last].digest = g[last]
  BY <1>2, <1>4, <1>7 DEF LoadPages, PageDigest
<1> DEFINE Wrong(j) == book[last - j].digest # g[last - j]
           T == {j \in 0..last : Wrong(j)}
<1>9. T = {}
  <2>1. SUFFICES ASSUME T # {} PROVE FALSE
    OBVIOUS
  <2>2. PICK m \in T : \A j \in T : m <= j
    <3>1. T \subseteq Nat
      OBVIOUS
    <3> HIDE DEF T
    <3>. QED BY <2>1, <3>1, LeastNatural
  <2>3. m \in 0..last /\ book[last - m].digest # g[last - m]
    OBVIOUS
  <2>4. m # 0
    BY <1>5, <1>8, <2>3
  <2>5. PICK i : i = last - (m - 1)
    OBVIOUS
  <2>6. i \in 0..last /\ i # 0 /\ i - 1 = last - m /\ m - 1 \in 0..last
    BY <1>5, <2>3, <2>4, <2>5
  <2>7. book[i].digest = g[i]
    <3>1. m - 1 \notin T
      <4> HIDE DEF T
      <4>. QED BY <2>2, <2>3, <2>6
    <3>. QED BY <2>5, <2>6, <3>1
  <2>8. g[i] = <<i, g[i - 1], Slice(entries, i)>>
    BY <1>6, <2>6
  <2>9. book[i].digest = <<book[i].index, book[i - 1].digest, book[i].entries>>
    <3>1. book[i].previous = book[i - 1].digest
      BY <1>8, <2>6
    <3>. QED BY <1>8, <2>6, <3>1
  <2>10. g[i - 1] = book[i - 1].digest
    BY <2>7, <2>8, <2>9
  <2>. QED BY <2>3, <2>6, <2>10
<1>10. ASSUME NEW i \in 0..last PROVE book[i].entries = Slice(entries, i)
  <2>1. last - i \in 0..last /\ last - (last - i) = i
    BY <1>5
  <2>2. book[i].digest = g[i]
    BY <1>9, <2>1
  <2>3. g[i] = <<i, IF i = 0 THEN <<>> ELSE g[i - 1], Slice(entries, i)>>
    BY <1>6
  <2>4. book[i].digest = <<book[i].index, book[i].previous, book[i].entries>>
    BY <1>8
  <2>. QED BY <2>2, <2>3, <2>4
<1>. QED BY <1>1, <1>2, <1>4, <1>10

\* Pages that hold the chain of the entries are accepted.
LEMMA HeldPagesLoad ==
    ASSUME NEW C, NEW entries \in Seq(C), entries # <<>>,
           manifest = ManifestOf(entries), PagesHold(entries)
    PROVE  LoadPages
<1>1. PICK c : c = PageCount(entries)
  OBVIOUS
<1>2. PICK g : g = ChainDigests(entries)
  OBVIOUS
<1>3. c \in Nat \ {0} /\ c - 1 \in 0..(c - 1) /\ c - 1 \in Nat
  BY <1>1, PagedBounds
<1>4. \A i \in 0..(c - 1) :
        g[i] = <<i, IF i = 0 THEN <<>> ELSE g[i - 1], Slice(entries, i)>>
  <2>1. PICK last : last = c - 1
    OBVIOUS
  <2>2. last \in Nat /\ last = PageCount(entries) - 1
    BY <1>1, <1>3, <2>1
  <2>. QED BY <1>2, <2>1, <2>2, DigestsChain DEF DigestStep, PageDigest
<1>5. \A i \in 0..(c - 1) :
        /\ i \in DOMAIN pages
        /\ pages[i].index = i
        /\ pages[i].previous = IF i = 0 THEN <<>> ELSE g[i - 1]
        /\ pages[i].entries = Slice(entries, i)
        /\ pages[i].digest = g[i]
  <2> SUFFICES ASSUME NEW i \in 0..(c - 1)
               PROVE  /\ i \in DOMAIN pages
                      /\ pages[i].index = i
                      /\ pages[i].previous = IF i = 0 THEN <<>> ELSE g[i - 1]
                      /\ pages[i].entries = Slice(entries, i)
                      /\ pages[i].digest = g[i]
    OBVIOUS
  <2>1. i \in DOMAIN pages /\ pages[i] = PageChain(entries)[i]
    BY <1>1 DEF PagesHold
  <2>2. PICK previous, slice, digest :
          /\ previous = IF i = 0 THEN <<>> ELSE g[i - 1]
          /\ slice = Slice(entries, i) /\ digest = g[i]
    OBVIOUS
  <2>3. PageChain(entries)[i] = [index |-> i, previous |-> previous, entries |-> slice,
                                 digest |-> digest]
    BY <1>1, <1>2, <2>2 DEF PageChain
  <2>. QED BY <2>1, <2>2, <2>3
<1>6. manifest.page_count = c /\ manifest.final = g[c - 1]
  <2>1. PageChain(entries)[c - 1].digest = g[c - 1]
    BY <1>1, <1>2, <1>3 DEF PageChain
  <2>. QED BY <1>1, <2>1 DEF ManifestOf
<1>7. ASSUME NEW i \in 0..(c - 1)
      PROVE  /\ i \in DOMAIN pages
             /\ pages[i].index = i
             /\ pages[i].previous = IF i = 0 THEN <<>> ELSE pages[i - 1].digest
             /\ pages[i].digest = PageDigest(pages[i].index, pages[i].previous, pages[i].entries)
             /\ pages[i].entries # <<>>
  <2>1. i # 0 => i - 1 \in 0..(c - 1)
    BY <1>3
  <2>2. i # 0 => pages[i - 1].digest = g[i - 1]
    BY <1>5, <2>1
  <2>3. Slice(entries, i) # <<>>
    BY <1>1, SliceNonempty
  <2>. QED BY <1>4, <1>5, <2>2, <2>3 DEF PageDigest
<1>8. pages[c - 1].digest = g[c - 1]
  BY <1>3, <1>5
<1>. QED BY <1>6, <1>7, <1>8 DEF LoadPages

\* What a restore reads from pages that hold the entries are the entries.
LEMMA EntriesAreRead ==
    ASSUME NEW C, NEW entries \in Seq(C), entries # <<>>,
           manifest = ManifestOf(entries),
           \A i \in 0..(PageCount(entries) - 1) : pages[i].entries = Slice(entries, i)
    PROVE  Entries = entries
<1>1. PICK c : c = PageCount(entries)
  OBVIOUS
<1>2. PICK book : book = pages
  OBVIOUS
<1>3. c \in Nat \ {0} /\ manifest.page_count = c
  BY <1>1, PagedBounds DEF ManifestOf
<1> DEFINE Joined(f) == f = [i \in 0..c |-> IF i = 0 THEN <<>> ELSE f[i - 1] \o book[i - 1].entries]
           upto == CHOOSE f : Joined(f)
           read == [i \in 0..c |-> SubSeq(entries, 1, Paged(entries, i))]
<1>4. Entries = upto[c]
  BY <1>2, <1>3 DEF Entries
<1>5. Joined(read)
  <2>1. read[0] = <<>>
    <3>1. Paged(entries, 0) = 0
      BY PagedBounds
    <3>. QED BY <1>3, <3>1
  <2>2. ASSUME NEW i \in 1..c PROVE read[i] = read[i - 1] \o book[i - 1].entries
    <3>1. i - 1 \in 0..(c - 1) /\ i - 1 + 1 = i /\ i \in 0..c /\ i - 1 \in 0..c
      BY <1>3
    <3>2. PICK a, b : a = Paged(entries, i - 1) /\ b = Paged(entries, i)
      OBVIOUS
    <3>3. /\ a \in 0..Len(entries) /\ b \in 0..Len(entries) /\ a < b
          /\ Slice(entries, i - 1) = SubSeq(entries, a + 1, b)
      BY <1>1, <3>1, <3>2, PagedBounds
    <3>4. 1 \in 1..(Len(entries) + 1) /\ a \in (1 - 1)..Len(entries) /\ b \in a..Len(entries)
      BY <3>3
    <3>5. SubSeq(entries, 1, a) \o SubSeq(entries, a + 1, b) = SubSeq(entries, 1, b)
      BY <3>4, ConcatAdjacentSubSeq
    <3>6. book[i - 1].entries = SubSeq(entries, a + 1, b)
      BY <1>1, <1>2, <3>1, <3>3
    <3>. QED BY <3>1, <3>2, <3>5, <3>6
  <2>3. \A i \in 0..c : i # 0 => i \in 1..c
    BY <1>3
  <2>4. read = [i \in 0..c |-> read[i]]
    OBVIOUS
  <2> HIDE DEF read
  <2>. QED BY <2>1, <2>2, <2>3, <2>4
<1>6. Joined(upto)
  <2> HIDE DEF Joined, read
  <2>. QED BY <1>5
<1>7. /\ upto[0] = <<>> /\ read[0] = <<>>
      /\ \A i \in 1..c : /\ upto[i] = upto[i - 1] \o book[i - 1].entries
                         /\ read[i] = read[i - 1] \o book[i - 1].entries
  <2> HIDE DEF upto, read
  <2>1. 0 \in 0..c /\ \A i \in 1..c : i \in 0..c /\ i # 0
    BY <1>3
  <2>. QED BY <1>5, <1>6, <2>1
<1>8. read[c] = entries
  <2>1. Paged(entries, c) = Len(entries)
    BY <1>1, PagedBounds
  <2>2. SubSeq(entries, 1, Len(entries)) = entries
    OBVIOUS
  <2>. QED BY <1>3, <2>1, <2>2
<1> HIDE DEF Joined, upto, read
<1> DEFINE T == {i \in 0..c : upto[i] # read[i]}
<1>9. T = {}
  <2>1. SUFFICES ASSUME T # {} PROVE FALSE
    OBVIOUS
  <2>2. PICK m \in T : \A j \in T : m <= j
    <3>1. T \subseteq Nat
      OBVIOUS
    <3> HIDE DEF T
    <3>. QED BY <2>1, <3>1, LeastNatural
  <2>3. m \in 0..c /\ upto[m] # read[m]
    OBVIOUS
  <2>4. m \in 1..c /\ m - 1 \in 0..c
    BY <1>3, <1>7, <2>3
  <2>5. upto[m - 1] = read[m - 1]
    <3>1. m - 1 \notin T
      <4> HIDE DEF T
      <4>. QED BY <2>2, <2>4
    <3>. QED BY <2>4, <3>1
  <2>. QED BY <1>7, <2>3, <2>4, <2>5
<1>10. c \in 0..c
  BY <1>3
<1>. QED BY <1>4, <1>8, <1>9, <1>10

\* The entries of a backup are in strict path order, no path twice.
LEMMA FitIsInOrder ==
    ASSUME NEW entries, Fit(entries)
    PROVE  InPathOrder(entries)
<1>1. entries \in Seq(EntryRecords) /\ DOMAIN entries = 1..Len(entries) /\ Len(entries) \in Nat
  BY DEF Fit
<1>2. \A i \in 1..Len(entries) : entries[i].path \in Paths /\ entries[i].path[1] \in Nat
  <2>1. \A i \in 1..Len(entries) : entries[i] \in EntryRecords
    BY <1>1
  <2>. QED BY <2>1, RanksDiffer DEF EntryRecords
<1>3. ASSUME NEW i \in 1..Len(entries), NEW j \in 1..Len(entries), i < j
      PROVE  entries[i].path[1] < entries[j].path[1]
  BY <1>3 DEF Fit, Increasing
<1>4. ASSUME NEW i \in DOMAIN entries, NEW j \in DOMAIN entries,
             entries[i].path = entries[j].path
      PROVE  i = j
  <2>1. ~(i < j) /\ ~(j < i)
    BY <1>1, <1>2, <1>3, <1>4
  <2>. QED BY <1>1, <2>1
<1>5. ASSUME NEW i \in 1..(Len(entries) - 1)
      PROVE  entries[i].path[1] < entries[i + 1].path[1]
  <2>1. i \in 1..Len(entries) /\ i + 1 \in 1..Len(entries) /\ i < i + 1
    BY <1>1
  <2>. QED BY <1>3, <2>1
<1>. QED BY <1>4, <1>5 DEF InPathOrder

\* A restore reads the entries the backup wrote, or refuses the archive; it
\* accepts one that holds the pages of the backup.
LEMMA EntriesOfArchive ==
    ASSUME NEW entries, Fit(entries), entries # <<>>, manifest = ManifestOf(entries)
    PROVE  /\ LoadPages => Entries = entries
           /\ PagesHold(entries) => /\ LoadPages
                                    /\ Entries = entries
                                    /\ InPathOrder(Entries)
                                    /\ Len(Entries) = manifest.entry_count
<1>1. entries \in Seq(EntryRecords)
  BY DEF Fit
<1>2. LoadPages => Entries = entries
  BY <1>1, LoadedPages, EntriesAreRead
<1>3. PagesHold(entries) => LoadPages
  BY <1>1, HeldPagesLoad
<1>4. InPathOrder(entries)
  BY FitIsInOrder
<1>5. manifest.entry_count = Len(entries)
  BY DEF ManifestOf
<1>. QED BY <1>2, <1>3, <1>4, <1>5

-----------------------------------------------------------------------------
(* local-backup restore and the environment *)

\* What a restore changes beside itself: the last refusal, the staging
\* directory and its count.
LEMMA RestoreLeaves ==
    ASSUME LocalRootInductive,
           UNCHANGED <<root, session, writer, fence, backup, pages, manifest, objects,
                       moments, disturbed, archived>>,
           CountsWell', counts'["losses"] = counts["losses"],
           counts'["crashes"] = counts["crashes"],
           RestoreWell', backup.pc # "idle" => restore'.pc = "idle",
           refusal' = "integrity_error" => refusal = "integrity_error" \/ ~Undisturbed
    PROVE  LocalRootInductive'
<1>1. RootWell' /\ WriterWell'
  BY DEF LocalRootInductive, RootWell, WriterWell
<1>2. BackupWell'
  BY DEF LocalRootInductive, BackupWell
<1>3. HashesWell' /\ ArchiveWell'
  BY DEF LocalRootInductive, HashesWell, ArchiveWell
<1>4. CopiesWell'
  BY DEF LocalRootInductive, CopiesWell
<1>5. MomentsWell'
  BY DEF LocalRootInductive, MomentsWell, Witnesses, FitsHashed, FitsCopied, Verified
<1>6. ArchiveIsOneMoment'
  BY DEF LocalRootInductive, ArchiveIsOneMoment, CopiedWhole, Verified
<1>7. UndisturbedWell'
  <2>1. Undisturbed' = Undisturbed
    BY DEF Undisturbed
  <2>2. UndisturbedWell
    BY DEF LocalRootInductive
  <2>. QED BY <2>1, <2>2 DEF UndisturbedWell, PagesHold, Verified
<1>. QED BY <1>1, <1>2, <1>3, <1>4, <1>5, <1>6, <1>7 DEF LocalRootInductive

\* A path of the archive and the content of its entry.
LEMMA ArchiveEntries ==
    ASSUME ArchiveWell, NEW i \in 1..Len(archived.entries)
    PROVE  /\ archived.entries[i].path \in Paths
           /\ archived.entries[i].sha256 \in SUBSET Facts
           /\ archived.entries[i].sha256 # {}
<1>1. archived.entries \in Seq(EntryRecords)
  BY DEF ArchiveWell, Fit
<1>2. PICK entry : entry = archived.entries[i]
  OBVIOUS
<1>3. entry \in EntryRecords
  BY <1>1, <1>2
<1>4. entry.sha256 # {}
  BY <1>2 DEF ArchiveWell, Fit, Content
<1>. QED BY <1>2, <1>3, <1>4 DEF EntryRecords

LEMMA BeginRestoreKeeps ==
    ASSUME LocalRootInductive, BeginRestore
    PROVE  LocalRootInductive'
<1> DEFINE accepted == /\ LoadPages
                       /\ InPathOrder(Entries)
                       /\ Len(Entries) = manifest.entry_count
<1>1. /\ restore.pc = "idle" /\ backup.pc = "idle" /\ manifest # None
      /\ counts' = [counts EXCEPT !["restores"] = @ + 1]
      /\ UNCHANGED <<root, session, writer, fence, backup, pages, manifest, objects,
                     moments, disturbed, archived>>
      /\ IF ~accepted
         THEN refusal' = "integrity_error" /\ UNCHANGED <<restore, stage>>
         ELSE IF stage # None
         THEN refusal' = "staging_exists" /\ UNCHANGED <<restore, stage>>
         ELSE /\ restore' = [pc |-> "stage", entries |-> Entries, next |-> 1]
              /\ stage' = Nothing
              /\ refusal' = "none"
  BY DEF BeginRestore, Count, backupVars, historyVars
<1>2. /\ counts'["losses"] = counts["losses"] /\ counts'["crashes"] = counts["crashes"]
      /\ CountsWell'
  BY <1>1 DEF LocalRootInductive, CountsWell
<1>3. /\ Fit(archived.entries) /\ archived.entries # <<>>
      /\ manifest = ManifestOf(archived.entries)
  BY <1>1 DEF LocalRootInductive, ArchiveWell
<1>4. PICK entries : entries = archived.entries
  OBVIOUS
<1>5. /\ LoadPages => Entries = entries
      /\ PagesHold(entries) => accepted
  BY <1>3, <1>4, EntriesOfArchive
<1> HIDE DEF accepted
<1>6. CASE ~accepted
  <2>1. ~Undisturbed
    BY <1>1, <1>4, <1>5, <1>6 DEF LocalRootInductive, UndisturbedWell
  <2>2. RestoreWell'
    BY <1>1, <1>6 DEF RestoreWell
  <2>. QED BY <1>1, <1>2, <1>6, <2>1, <2>2, RestoreLeaves
<1>7. CASE accepted /\ stage # None
  <2>1. RestoreWell'
    BY <1>1, <1>7 DEF RestoreWell
  <2>. QED BY <1>1, <1>2, <1>7, <2>1, RestoreLeaves
<1>8. CASE accepted /\ stage = None
  <2>1. /\ restore' = [pc |-> "stage", entries |-> entries, next |-> 1]
        /\ stage' = Nothing /\ refusal' = "none"
    BY <1>1, <1>5, <1>8 DEF accepted
  <2>2. stage' # None
    <3>1. Nothing \in [{} -> SUBSET Facts]
      BY DEF Nothing
    <3>. QED BY <2>1, <3>1, NoneIsNoDirectory
  <2>3. 1 \in 1..Len(entries)
    <3>1. entries \in Seq(EntryRecords) /\ entries # <<>>
      BY <1>3, <1>4 DEF Fit
    <3>. QED BY <3>1
  <2>4. stage' = [p \in {entries[i].path : i \in 1..0} |-> objects[p]]
    BY <2>1 DEF Nothing
  <2>5. RestoreWell'
    <3>1. restore'.next - 1 = 0 /\ restore'.pc = "stage" /\ restore'.next = 1
      BY <2>1
    <3>2. archived'.entries = entries
      BY <1>1, <1>4
    <3>3. restore' \in [pc : {"stage", "replace"}, entries : {entries}, next : Nat]
      BY <2>1
    <3>4. 1..0 = {}
      OBVIOUS
    <3>5. stage' = [p \in {entries[i].path : i \in 1..(restore'.next - 1)} |-> objects'[p]]
      BY <1>1, <2>4, <3>1
    <3>. QED BY <1>1, <1>3, <1>4, <2>2, <2>3, <3>1, <3>2, <3>3, <3>4, <3>5 DEF RestoreWell
  <2>. QED BY <1>1, <1>2, <2>1, <2>5, RestoreLeaves
<1>. QED BY <1>6, <1>7, <1>8

LEMMA RefuseKeeps ==
    ASSUME LocalRootInductive, NEW code, Refuse(code),
           code = "integrity_error" => ~Undisturbed
    PROVE  LocalRootInductive'
<1>1. /\ UNCHANGED <<root, session, writer, fence, backup, pages, manifest, objects,
                     moments, disturbed, archived, counts>>
      /\ refusal' = code /\ restore'.pc = "idle"
  BY DEF Refuse, NoRestore, backupVars, historyVars
<1>2. RestoreWell' /\ CountsWell'
  BY <1>1 DEF LocalRootInductive, RestoreWell, CountsWell
<1>. QED BY <1>1, <1>2, RestoreLeaves

LEMMA StageFileKeeps ==
    ASSUME LocalRootInductive, StageFile
    PROVE  LocalRootInductive'
<1>1. PICK entries, c, entry : /\ entries = archived.entries /\ c = restore.next
                               /\ entry = entries[c]
  OBVIOUS
<1>2. /\ restore.pc = "stage"
      /\ restore \in [pc : {"stage", "replace"}, entries : {entries}, next : Nat]
      /\ restore.entries = entries /\ entries # <<>> /\ manifest # None
      /\ backup.pc = "idle" /\ c \in 1..Len(entries)
      /\ \A i \in 1..(c - 1) : Verified(entries[i])
      /\ stage = [p \in {entries[i].path : i \in 1..(c - 1)} |-> objects[p]]
  BY <1>1 DEF LocalRootInductive, RestoreWell, StageFile
<1>3. CASE ~Verified(entry)
  <2>1. Refuse("integrity_error")
    BY <1>1, <1>2, <1>3 DEF StageFile
  <2>2. ~Undisturbed
    BY <1>1, <1>2, <1>3 DEF LocalRootInductive, UndisturbedWell
  <2>. QED BY <2>1, <2>2, RefuseKeeps
<1>4. CASE Verified(entry)
  <2>1. /\ stage' = With(stage, entry.path, objects[entry.path])
        /\ restore' = [restore EXCEPT
             !.next = @ + 1,
             !.pc = IF restore.next = Len(restore.entries) THEN "replace" ELSE @]
        /\ UNCHANGED <<root, session, writer, fence, backup, pages, manifest, objects,
                       moments, disturbed, archived, counts, refusal>>
    BY <1>1, <1>2, <1>4 DEF StageFile, backupVars, historyVars
  <2>2. /\ restore'.next = c + 1 /\ restore'.entries = entries
        /\ restore'.pc = IF c = Len(entries) THEN "replace" ELSE "stage"
        /\ restore' \in [pc : {"stage", "replace"}, entries : {entries}, next : Nat]
    <3>1. restore = [pc |-> "stage", entries |-> entries, next |-> c] /\ c \in Nat
      BY <1>1, <1>2
    <3>2. restore' = [pc |-> IF c = Len(entries) THEN "replace" ELSE "stage",
                      entries |-> entries, next |-> c + 1]
      BY <2>1, <3>1
    <3>. QED BY <3>1, <3>2
  <2>3. c \in Nat /\ Len(entries) \in Nat /\ c + 1 - 1 = c /\ \A i \in 1..c : i = c \/ i \in 1..(c - 1)
    <3>1. entries \in Seq(EntryRecords)
      BY <1>1 DEF LocalRootInductive, ArchiveWell
    <3>. QED BY <1>2, <3>1
  <2>4. \A i \in 1..c : Verified(entries[i])
    BY <1>1, <1>2, <1>4, <2>3
  <2>5. stage' = [p \in {entries[i].path : i \in 1..c} |-> objects[p]]
    <3>1. {entries[i].path : i \in 1..c} = {entries[i].path : i \in 1..(c - 1)} \cup {entry.path}
      <4>1. c \in 1..c /\ \A i \in 1..(c - 1) : i \in 1..c
        BY <1>2, <2>3
      <4>. QED BY <1>1, <2>3, <4>1
    <3>. QED BY <1>2, <2>1, <3>1 DEF With
  <2>6. stage' # None
    <3>1. \A i \in 1..c : /\ entries[i].path \in Paths
                          /\ objects[entries[i].path] \in SUBSET Facts
      <4>1. \A i \in 1..c : i \in 1..Len(entries)
        BY <1>2, <2>3
      <4>. QED BY <1>1, <2>4, <4>1, ArchiveEntries DEF LocalRootInductive, Verified
    <3>2. PICK paths : paths = {entries[i].path : i \in 1..c}
      OBVIOUS
    <3>3. paths \in SUBSET Paths /\ stage' \in [paths -> SUBSET Facts]
      BY <2>5, <3>1, <3>2
    <3>. QED BY <3>3, NoneIsNoDirectory
  <2>7. RestoreWell'
    <3>1. /\ restore'.pc = "stage" => restore'.next \in 1..Len(entries)
          /\ restore'.pc = "replace" => restore'.next = Len(entries) + 1
      BY <1>2, <2>2, <2>3
    <3>2. \A i \in 1..(restore'.next - 1) : Verified(entries[i])'
      BY <2>1, <2>2, <2>3, <2>4 DEF Verified
    <3>3. stage' = [p \in {entries[i].path : i \in 1..(restore'.next - 1)} |-> objects'[p]]
      BY <2>1, <2>2, <2>3, <2>5
    <3>4. archived'.entries = entries
      BY <1>1, <2>1
    <3>5. \A i \in 1..(restore'.next - 1) : Verified(archived.entries[i])'
      BY <3>2, <3>4 DEF Verified
    <3>6. stage' = [p \in {archived'.entries[i].path : i \in 1..(restore'.next - 1)}
                     |-> objects'[p]]
      BY <3>3, <3>4
    <3>7. /\ restore'.pc \in {"stage", "replace"} /\ archived'.entries # <<>>
          /\ manifest' # None /\ backup'.pc = "idle"
      BY <1>2, <2>1, <2>2, <3>4
    <3>. QED BY <2>2, <2>6, <3>1, <3>4, <3>5, <3>6, <3>7 DEF RestoreWell
  <2>8. CountsWell' /\ backup.pc = "idle"
    BY <1>2, <2>1 DEF LocalRootInductive, CountsWell
  <2>. QED BY <2>1, <2>7, <2>8, RestoreLeaves
<1>. QED BY <1>3, <1>4

LEMMA ClearStageKeeps ==
    ASSUME LocalRootInductive, ClearStage
    PROVE  LocalRootInductive'
<1>1. /\ UNCHANGED <<root, session, writer, fence, backup, pages, manifest, objects,
                     moments, disturbed, archived, counts, refusal, restore>>
      /\ restore.pc = "idle"
  BY DEF ClearStage, backupVars, historyVars
<1>2. RestoreWell' /\ CountsWell'
  BY <1>1 DEF LocalRootInductive, RestoreWell, CountsWell
<1>. QED BY <1>1, <1>2, RestoreLeaves

\* The staging directory a restore is about to put in place: the files of the
\* entries, as hashed, and a root.
LEMMA StagedIsRoot ==
    ASSUME LocalRootInductive, restore.pc = "replace"
    PROVE  /\ \A i \in 1..Len(archived.entries) :
                /\ Verified(archived.entries[i])
                /\ Holds(stage, archived.entries[i].path, archived.entries[i].sha256)
           /\ \A p \in DOMAIN stage : \E i \in 1..Len(archived.entries) :
                archived.entries[i].path = p
           /\ RootShape(stage)
           /\ DOMAIN stage # {} /\ manifest # None
           /\ counts["losses"] # 0 \/ DOMAIN root # {}
<1>1. PICK entries, n : entries = archived.entries /\ n = Len(entries)
  OBVIOUS
<1>2. /\ restore.next = n + 1 /\ entries # <<>> /\ manifest # None
      /\ \A i \in 1..(restore.next - 1) : Verified(entries[i])
      /\ stage = [p \in {entries[i].path : i \in 1..(restore.next - 1)} |-> objects[p]]
  BY <1>1 DEF LocalRootInductive, RestoreWell
<1>3. entries \in Seq(EntryRecords) /\ Fit(entries) /\ HasDatabases(entries)
  BY <1>1, <1>2 DEF LocalRootInductive, ArchiveWell
<1>4. n \in Nat /\ n > 0 /\ n + 1 - 1 = n
  BY <1>1, <1>2, <1>3
<1>5. \A i \in 1..n : Verified(entries[i])
  BY <1>2, <1>4
<1>6. stage = [p \in {entries[i].path : i \in 1..n} |-> objects[p]]
  BY <1>2, <1>4
<1>7. /\ DOMAIN stage = {entries[i].path : i \in 1..n}
      /\ \A i \in 1..n : /\ entries[i].path \in DOMAIN stage
                         /\ stage[entries[i].path] = entries[i].sha256
  BY <1>5, <1>6 DEF Verified
<1>8. \A i \in 1..n : /\ entries[i].path \in Paths /\ entries[i].sha256 \in SUBSET Facts
                      /\ Content(entries[i].path, entries[i].sha256)
                      /\ entries[i].sha256 # {}
  BY <1>1, <1>3, ArchiveEntries DEF LocalRootInductive, Fit
<1>9. PICK f : f = stage
  OBVIOUS
<1>10. /\ f = [p \in DOMAIN f |-> f[p]] /\ DOMAIN f = {entries[i].path : i \in 1..n}
       /\ \A i \in 1..n : entries[i].path \in DOMAIN f /\ f[entries[i].path] = entries[i].sha256
  <2>1. f = [p \in {entries[i].path : i \in 1..n} |-> objects[p]]
    BY <1>6, <1>9
  <2>2. f = [p \in DOMAIN f |-> f[p]]
    BY <2>1
  <2>. QED BY <1>7, <1>9, <2>2
<1>11. RootShape(f)
  <2>1. \A p \in DOMAIN f : /\ \E i \in 1..n : p = entries[i].path
                            /\ p \in Paths /\ f[p] \in SUBSET Facts /\ Content(p, f[p])
    BY <1>8, <1>10
  <2>2. DOMAIN f \subseteq Paths /\ f \in [DOMAIN f -> SUBSET Facts]
    BY <1>10, <2>1
  <2>3. PICK a \in 1..n : entries[a].path = DuckDB
    BY <1>1, <1>3 DEF HasDatabases
  <2>4. PICK b \in 1..n : entries[b].path = Sqlite
    BY <1>1, <1>3 DEF HasDatabases
  <2>5. /\ DuckDB \in DOMAIN f /\ f[DuckDB] = entries[a].sha256
        /\ Sqlite \in DOMAIN f /\ f[Sqlite] = entries[b].sha256
    BY <1>10, <2>3, <2>4
  <2>6. Landed(f[DuckDB]) \subseteq Seen(f[Sqlite])
    BY <1>1, <1>3, <2>3, <2>4, <2>5 DEF Fit
  <2>7. ASSUME Wal \in DOMAIN f
        PROVE  f[Wal] \cap f[DuckDB] = {} /\ Landed(f[Wal]) \subseteq Seen(f[Sqlite])
    <3>1. PICK w \in 1..n : entries[w].path = Wal /\ f[Wal] = entries[w].sha256
      BY <1>10, <2>1, <2>7
    <3>2. entries[a].sha256 \cap entries[w].sha256 = {}
      BY <1>1, <1>3, <2>3, <3>1 DEF Fit
    <3>3. Landed(entries[w].sha256) \subseteq Seen(entries[b].sha256)
      BY <1>1, <1>3, <2>4, <3>1 DEF Fit
    <3>4. f[Wal] \cap f[DuckDB] = {}
      BY <2>5, <3>1, <3>2
    <3>. QED BY <2>5, <3>1, <3>3, <3>4
  <2>. QED BY <2>1, <2>2, <2>5, <2>6, <2>7 DEF RootShape
<1>12. 1 \in 1..n
  BY <1>4
<1>13. DOMAIN stage # {}
  BY <1>7, <1>12
<1>14. counts["losses"] # 0 \/ DOMAIN root # {}
  <2>1. /\ entries[1].path \in DOMAIN objects
        /\ objects[entries[1].path] # {}
    BY <1>5, <1>8, <1>12 DEF Verified
  <2>. QED BY <2>1 DEF LocalRootInductive, CopiesWell
<1>. QED BY <1>1, <1>2, <1>5, <1>7, <1>9, <1>11, <1>13, <1>14 DEF Holds

LEMMA ReplaceRootKeeps ==
    ASSUME LocalRootInductive, ReplaceRoot
    PROVE  LocalRootInductive'
<1>0. restore.pc = "replace" /\ backup.pc = "idle"
  BY DEF LocalRootInductive, RestoreWell, ReplaceRoot
<1>1. CASE DOMAIN root # {}
  <2>1. Refuse("root_exists")
    BY <1>1 DEF ReplaceRoot
  <2>. QED BY <2>1, RefuseKeeps
<1>2. CASE DOMAIN root = {}
  <2>1. /\ root' = stage /\ moments' = moments \cup {root'} /\ restore'.pc = "idle"
        /\ UNCHANGED <<session, writer, fence, backup, pages, manifest, objects, refusal,
                       counts, disturbed, archived>>
    BY <1>2 DEF ReplaceRoot, Moment, NoRestore, backupVars
  <2>2. RootShape(root') /\ DOMAIN root' # {} /\ counts["losses"] # 0
    BY <1>0, <1>2, <2>1, StagedIsRoot
  <2>3. RootWell' /\ CountsWell'
    BY <2>1, <2>2 DEF LocalRootInductive, RootWell, CountsWell, Nothing
  <2>4. WriterWell'
    <3>1. writer.pc = "idle"
      BY <1>2 DEF LocalRootInductive, WriterWell
    <3>. QED BY <2>1, <3>1 DEF LocalRootInductive, WriterWell, WriterSteps
  <2>5. BackupWell'
    BY <1>0, <2>1 DEF LocalRootInductive, BackupWell, Listed
  <2>6. HashesWell'
    <3>1. backup.entries = <<>>
      BY <1>0 DEF LocalRootInductive, BackupWell, Listed
    <3>2. Fit(backup.entries)' /\ Len(backup'.entries) = 0
      BY <2>1, <3>1 DEF LocalRootInductive, HashesWell
    <3>. QED BY <3>2 DEF HashesWell
  <2>7. ArchiveWell' /\ RestoreWell'
    BY <2>1 DEF LocalRootInductive, ArchiveWell, RestoreWell
  <2>8. CopiesWell' /\ MomentsWell'
    BY <1>0, <2>1, <2>2 DEF CopiesWell, MomentsWell
  <2>9. ArchiveIsOneMoment'
    <3>1. root' # Nothing
      BY <2>2 DEF Nothing
    <3>. QED BY <2>1, <2>2, <3>1 DEF LocalRootInductive, ArchiveIsOneMoment, CopiedWhole, Verified
  <2>10. UndisturbedWell'
    <3>1. Undisturbed' = Undisturbed /\ UndisturbedWell
      BY <2>1 DEF Undisturbed, LocalRootInductive
    <3>. QED BY <1>0, <2>1, <3>1 DEF UndisturbedWell, PagesHold, Verified, Listed
  <2>. QED BY <2>3, <2>4, <2>5, <2>6, <2>7, <2>8, <2>9, <2>10 DEF LocalRootInductive
<1>. QED BY <1>1, <1>2

LEMMA LoseRootKeeps ==
    ASSUME LocalRootInductive, LoseRoot
    PROVE  LocalRootInductive'
<1>1. /\ writer.pc = "idle" /\ backup.pc = "idle" /\ root' = Nothing /\ fence' = FALSE
      /\ counts' = [counts EXCEPT !["losses"] = @ + 1]
      /\ UNCHANGED <<session, writer, backup, pages, manifest, objects, restore, stage,
                     refusal, moments, disturbed, archived>>
  BY DEF LoseRoot, Count, restoreVars, historyVars
<1>2. /\ counts' \in [{"backups", "restores", "crashes", "damages", "losses"} -> Nat]
      /\ counts'["losses"] = counts["losses"] + 1 /\ counts["losses"] \in Nat
      /\ counts'["crashes"] = counts["crashes"]
  BY <1>1 DEF LocalRootInductive, CountsWell
<1>3. RootWell' /\ CountsWell'
  <2>1. RootShape(Nothing)
    BY DEF RootShape, Nothing
  <2>. QED BY <1>1, <1>2, <2>1 DEF LocalRootInductive, RootWell, CountsWell
<1>4. WriterWell'
  BY <1>1 DEF LocalRootInductive, WriterWell, WriterSteps
<1>5. BackupWell'
  BY <1>1 DEF LocalRootInductive, BackupWell, Listed
<1>6. HashesWell'
  <2>1. backup.entries = <<>>
    BY <1>1 DEF LocalRootInductive, BackupWell, Listed
  <2>2. Fit(backup.entries)' /\ Len(backup'.entries) = 0
    BY <1>1, <2>1 DEF LocalRootInductive, HashesWell
  <2>. QED BY <2>2 DEF HashesWell
<1>7. ArchiveWell'
  BY <1>1 DEF LocalRootInductive, ArchiveWell
<1>8. RestoreWell'
  BY <1>1 DEF LocalRootInductive, RestoreWell, Verified
<1>9. CopiesWell' /\ MomentsWell'
  BY <1>1, <1>2 DEF CopiesWell, MomentsWell
<1>10. ArchiveIsOneMoment'
  <2>1. counts'["losses"] # 0 /\ (counts'["losses"] = 1 => counts["losses"] = 0)
    BY <1>2
  <2>. QED BY <1>1, <2>1 DEF LocalRootInductive, ArchiveIsOneMoment, CopiedWhole, Verified
<1>11. UndisturbedWell'
  <2>1. Undisturbed' = Undisturbed /\ UndisturbedWell
    BY <1>1, <1>2 DEF Undisturbed, LocalRootInductive
  <2>. QED BY <1>1, <2>1 DEF UndisturbedWell, PagesHold, Verified, Listed
<1>. QED BY <1>3, <1>4, <1>5, <1>6, <1>7, <1>8, <1>9, <1>10, <1>11 DEF LocalRootInductive

\* What damage leaves of the objects: each that is there still is what it was,
\* or holds nothing.
Decayed(before, after) ==
    /\ after \in [DOMAIN after -> SUBSET Facts]
    /\ \A p \in DOMAIN after : p \in DOMAIN before /\ after[p] \in {before[p], {}}

LEMMA DamageKeeps ==
    ASSUME LocalRootInductive, NEW archivePages, NEW archiveObjects,
           Damage(archivePages, archiveObjects), Decayed(objects, archiveObjects)
    PROVE  LocalRootInductive'
<1>1. /\ backup.pc = "idle" /\ restore.pc = "idle" /\ disturbed' = TRUE
      /\ counts' = [counts EXCEPT !["damages"] = @ + 1] /\ objects' = archiveObjects
      /\ UNCHANGED <<root, session, writer, fence, backup, manifest, restore, stage,
                     refusal, moments, archived>>
  BY DEF Damage, Count, restoreVars
<1>2. /\ counts' \in [{"backups", "restores", "crashes", "damages", "losses"} -> Nat]
      /\ counts'["losses"] = counts["losses"] /\ counts'["crashes"] = counts["crashes"]
  BY <1>1 DEF LocalRootInductive, CountsWell
<1>3. RootWell' /\ CountsWell' /\ WriterWell'
  BY <1>1, <1>2 DEF LocalRootInductive, RootWell, CountsWell, WriterWell
<1>4. BackupWell'
  BY <1>1, <1>2 DEF LocalRootInductive, BackupWell
<1>5. HashesWell' /\ RestoreWell' /\ MomentsWell'
  BY <1>1 DEF LocalRootInductive, HashesWell, RestoreWell, MomentsWell
<1>6. ArchiveWell'
  BY <1>1 DEF LocalRootInductive, ArchiveWell, Decayed
<1>7. CopiesWell'
  BY <1>1, <1>2 DEF LocalRootInductive, CopiesWell, Decayed
<1>8. ArchiveIsOneMoment'
  <2>1. PICK entries : entries = archived.entries
    OBVIOUS
  <2>2. \A i \in 1..Len(entries) : Verified(entries[i])' => Verified(entries[i])
    <3>1. \A i \in 1..Len(entries) : entries[i].sha256 # {}
      BY <2>1, ArchiveEntries DEF LocalRootInductive
    <3>. QED BY <1>1, <3>1 DEF Decayed, Verified
  <2>3. ArchiveIsOneMoment' <=>
          (CopiedWhole \/ counts["losses"] = 0 \/ (counts["losses"] = 1 /\ root = Nothing) =>
             \E m \in moments : \A i \in 1..Len(entries) :
               Verified(entries[i])' => Holds(m, entries[i].path, entries[i].sha256))
    BY <1>1, <1>2, <2>1 DEF ArchiveIsOneMoment, CopiedWhole, Verified
  <2>. QED BY <2>1, <2>2, <2>3 DEF LocalRootInductive, ArchiveIsOneMoment
<1>9. UndisturbedWell'
  BY <1>1 DEF UndisturbedWell, Undisturbed
<1>. QED BY <1>3, <1>4, <1>5, <1>6, <1>7, <1>8, <1>9 DEF LocalRootInductive

LEMMA DamageArchiveKeeps ==
    ASSUME LocalRootInductive, DamageArchive
    PROVE  LocalRootInductive'
<1>1. objects \in [DOMAIN objects -> SUBSET Facts]
  BY DEF LocalRootInductive, ArchiveWell
<1>2. ASSUME NEW p \in DOMAIN objects, Damage(pages, With(objects, p, {}))
      PROVE  LocalRootInductive'
  <2>1. Decayed(objects, With(objects, p, {}))
    BY <1>1, <1>2 DEF Decayed, With
  <2>. QED BY <1>2, <2>1, DamageKeeps
<1>3. ASSUME NEW p \in DOMAIN objects, Damage(pages, Without(objects, p))
      PROVE  LocalRootInductive'
  <2>1. Decayed(objects, Without(objects, p))
    BY <1>1, <1>3 DEF Decayed, Without
  <2>. QED BY <1>3, <2>1, DamageKeeps
<1>4. Decayed(objects, objects)
  BY <1>1 DEF Decayed
<1>5. ASSUME NEW damaged, Damage(damaged, objects) PROVE LocalRootInductive'
  BY <1>4, <1>5, DamageKeeps
<1>6. CASE \E i \in DOMAIN pages : Damage(Without(pages, i), objects)
  <2>1. PICK i \in DOMAIN pages : Damage(Without(pages, i), objects)
    BY <1>6
  <2>. QED BY <1>5, <2>1
<1>7. CASE \E i, j \in DOMAIN pages :
             i < j /\ Damage([pages EXCEPT ![i] = pages[j], ![j] = pages[i]], objects)
  <2>1. PICK i, j \in DOMAIN pages :
             i < j /\ Damage([pages EXCEPT ![i] = pages[j], ![j] = pages[i]], objects)
    BY <1>7
  <2>. QED BY <1>5, <2>1
<1>. QED BY <1>2, <1>3, <1>6, <1>7 DEF DamageArchive

-----------------------------------------------------------------------------
(* The theorems *)

LEMMA LocalRootInit ==
    ASSUME Init
    PROVE  LocalRootInductive
<1>1. /\ root = Nothing /\ fence = FALSE /\ session = None
      /\ writer = [pc |-> "idle", delivery |-> None] /\ backup = NoBackup
      /\ pages = Nothing /\ manifest = None /\ objects = Nothing
      /\ restore = NoRestore /\ stage = None /\ refusal = "none"
      /\ counts = [n \in {"backups", "restores", "crashes", "damages", "losses"} |-> 0]
      /\ moments = {Nothing} /\ disturbed = FALSE
      /\ archived = [entries |-> <<>>, copied |-> 0]
  BY DEF Init
<1>2. RootWell
  <2>1. RootShape(Nothing)
    BY DEF RootShape, Nothing
  <2>. QED BY <1>1, <2>1 DEF RootWell
<1>3. CountsWell
  BY <1>1 DEF CountsWell
<1>4. WriterWell
  BY <1>1, LocalRootParameters DEF WriterWell, WriterSteps
<1>5. /\ backup.pc = "idle" /\ backup.files = <<>> /\ backup.entries = <<>>
      /\ backup.next = 1 /\ backup.page = 0
      /\ backup \in [pc : {"idle", "close", "list"} \cup Listed, files : Seq(Paths),
                     entries : Seq(EntryRecords), next : Nat, page : Nat]
  BY <1>1 DEF NoBackup
<1>6. BackupWell
  BY <1>1, <1>5, LocalRootParameters DEF BackupWell, Listed
<1>7. Fit(<<>>)
  BY DEF Fit, Increasing
<1>8. HashesWell
  BY <1>5, <1>7 DEF HashesWell
<1>9. ArchiveWell
  BY <1>1, <1>7 DEF ArchiveWell, Nothing
<1>10. RestoreWell
  BY <1>1 DEF RestoreWell, NoRestore
<1>11. CopiesWell
  BY <1>1 DEF CopiesWell, Nothing
<1>12. MomentsWell
  BY <1>5 DEF MomentsWell
<1>13. ArchiveIsOneMoment
  BY <1>1 DEF ArchiveIsOneMoment
<1>14. UndisturbedWell
  BY <1>1, <1>5 DEF UndisturbedWell, Listed
<1>. QED BY <1>2, <1>3, <1>4, <1>6, <1>8, <1>9, <1>10, <1>11, <1>12, <1>13, <1>14
         DEF LocalRootInductive

LEMMA LocalRootStutters ==
    ASSUME LocalRootInductive, UNCHANGED vars
    PROVE  LocalRootInductive'
<1>1. /\ UNCHANGED <<root, session, writer, fence, backup, pages, manifest, objects,
                     moments, disturbed, archived, counts, refusal, restore, stage>>
  BY DEF vars, backupVars, restoreVars, historyVars
<1>2. RestoreWell' /\ CountsWell'
  BY <1>1 DEF LocalRootInductive, RestoreWell, CountsWell, Verified
<1>3. backup.pc # "idle" => restore'.pc = "idle"
  BY <1>1 DEF LocalRootInductive, BackupWell
<1>. QED BY <1>1, <1>2, <1>3, RestoreLeaves

\* The files of a root, its archive and the commands on them keep the inductive
\* invariant, for any deliveries, page size and bounds: ingest file
\* (local_raw_store.py), local-backup create and restore (local_backup.py).
THEOREM LocalRootIsInductive ==
    Spec => []LocalRootInductive
<1>1. Init => LocalRootInductive
  BY LocalRootInit
<1>2. LocalRootInductive /\ [Next]_vars => LocalRootInductive'
  <2> SUFFICES ASSUME LocalRootInductive, [Next]_vars PROVE LocalRootInductive'
    OBVIOUS
  <2>1. CASE UNCHANGED vars
    BY <2>1, LocalRootStutters
  <2>2. CASE Next
    <3>1. CASE \/ \E d \in Deliveries : OpenSession(d)
               \/ PreservePayload \/ PreserveManifest \/ PreserveReceipt
               \/ SubmitAttempt \/ LandRows \/ CommitAttempt \/ CloseSession
      BY <3>1, IngestKeeps DEF Ingest
    <3>2. CASE CrashWriter
      BY <3>2, CrashWriterKeeps
    <3>3. CASE BeginBackup
      BY <3>3, BeginBackupKeeps
    <3>4. CASE CloseForBackup
      BY <3>4, CloseForBackupKeeps
    <3>5. CASE ListFiles
      BY <3>5, ListFilesKeeps
    <3>6. CASE HashFile
      BY <3>6, HashFileKeeps
    <3>7. CASE WritePage
      BY <3>7, WritePageKeeps
    <3>8. CASE WriteManifest
      BY <3>8, WriteManifestKeeps
    <3>9. CASE CopyFile
      BY <3>9, CopyFileKeeps
    <3>10. CASE CrashBackup
      BY <3>10, CrashBackupKeeps
    <3>11. CASE BeginRestore
      BY <3>11, BeginRestoreKeeps
    <3>12. CASE StageFile
      BY <3>12, StageFileKeeps
    <3>13. CASE ReplaceRoot
      BY <3>13, ReplaceRootKeeps
    <3>14. CASE ClearStage
      BY <3>14, ClearStageKeeps
    <3>15. CASE LoseRoot
      BY <3>15, LoseRootKeeps
    <3>16. CASE DamageArchive
      BY <3>16, DamageArchiveKeeps
    <3>. QED BY <2>2, <3>1, <3>2, <3>3, <3>4, <3>5, <3>6, <3>7, <3>8, <3>9, <3>10, <3>11,
                <3>12, <3>13, <3>14, <3>15, <3>16 DEF Next
  <2>. QED BY <2>1, <2>2
<1>. QED BY <1>1, <1>2, PTL DEF Spec

\* The root and its archive are well formed, and a restore finds fault with an
\* archive only after damage, a crash, or ingestion amid the backup: what
\* _write_pages and _write_manifest leave is what _load_pages accepts, and
\* what it reads there is what was hashed.
THEOREM LocalRootHolds ==
    Spec => []LocalRootInvariant
<1>1. LocalRootInductive => LocalRootInvariant
  <2> SUFFICES ASSUME LocalRootInductive PROVE LocalRootInvariant
    OBVIOUS
  <2>1. \A p \in DOMAIN root : root[p] \subseteq Facts
    BY DEF LocalRootInductive, RootWell, RootShape
  <2>2. \A p \in DOMAIN objects : objects[p] \subseteq Facts
    BY DEF LocalRootInductive, ArchiveWell
  <2>3. /\ session = "writer" => writer.pc # "idle"
        /\ session = "backup" => backup.pc = "close"
        /\ fence => backup.pc # "idle" \/ counts["crashes"] > 0
        /\ restore.pc # "idle" => stage # None
    BY DEF LocalRootInductive, WriterWell, BackupWell, RestoreWell
  <2>4. RefusalHasCause
    BY DEF LocalRootInductive, UndisturbedWell, Undisturbed, RefusalHasCause, CountsWell
  <2>. QED BY <2>1, <2>2, <2>3, <2>4 DEF LocalRootInvariant, LocalRootTypeOK
<1>. QED BY <1>1, LocalRootIsInductive, PTL

\* What restore_backup puts in place of a lost root is what the root held at
\* one moment, whatever was ingested while it was copied, whatever died, and
\* whatever was damaged since.
THEOREM RestoreIsOneMoment ==
    Spec => RestoredIsOneMoment
<1> DEFINE Restored ==
      root = Nothing /\ DOMAIN root' # {} /\ restore.pc = "replace"
        /\ restore'.pc = "idle" /\ (CopiedWhole \/ counts["losses"] <= 1) =>
      \E m \in moments :
        /\ \A p \in DOMAIN root' : p \in DOMAIN m /\ root'[p] = m[p]
        /\ disturbed \/ counts["crashes"] > 0 \/ DOMAIN m = DOMAIN root'
<1>1. LocalRootInductive /\ [Next]_vars => [Restored]_vars
  <2> SUFFICES ASSUME LocalRootInductive, Next,
                      root = Nothing, DOMAIN root' # {}, restore.pc = "replace",
                      restore'.pc = "idle", CopiedWhole \/ counts["losses"] <= 1
               PROVE  \E m \in moments :
                        /\ \A p \in DOMAIN root' : p \in DOMAIN m /\ root'[p] = m[p]
                        /\ disturbed \/ counts["crashes"] > 0 \/ DOMAIN m = DOMAIN root'
    OBVIOUS
  <2>1. DOMAIN root = {}
    BY DEF Nothing
  <2>2. backup.pc = "idle"
    BY DEF LocalRootInductive, RestoreWell
  <2>3. ReplaceRoot
    <3>1. restore' # restore
      OBVIOUS
    <3>2. CASE StageFile
      BY <3>2 DEF StageFile
    <3>. QED BY <2>2, <3>1, <3>2
         DEF Next, OpenSession, PreservePayload, PreserveManifest, PreserveReceipt,
             SubmitAttempt, LandRows, CommitAttempt, CloseSession, CrashWriter, Write,
             BeginBackup, CloseForBackup, ListFiles, HashFile, WritePage, WriteManifest,
             CopyFile, CrashBackup, BeginRestore, ClearStage, LoseRoot, DamageArchive,
             Damage, restoreVars
  <2>4. root' = stage
    BY <2>1, <2>3 DEF ReplaceRoot, Moment
  <2>5. /\ \A i \in 1..Len(archived.entries) :
             /\ Verified(archived.entries[i])
             /\ Holds(stage, archived.entries[i].path, archived.entries[i].sha256)
        /\ \A p \in DOMAIN stage : \E i \in 1..Len(archived.entries) :
             archived.entries[i].path = p
        /\ manifest # None
    BY StagedIsRoot
  <2>6. CASE Undisturbed
    <3>1. PICK m \in moments : Describes(archived.entries, m)
      BY <2>2, <2>5, <2>6 DEF LocalRootInductive, UndisturbedWell
    <3>2. \A p \in DOMAIN stage : p \in DOMAIN m /\ stage[p] = m[p]
      <4> TAKE p \in DOMAIN stage
      <4>1. PICK i \in 1..Len(archived.entries) : archived.entries[i].path = p
        BY <2>5
      <4>2. Holds(stage, p, archived.entries[i].sha256)
        BY <2>5, <4>1
      <4>3. Holds(m, p, archived.entries[i].sha256)
        BY <3>1, <4>1 DEF Describes
      <4>. QED BY <4>2, <4>3 DEF Holds
    <3>3. DOMAIN m = DOMAIN stage
      <4>1. \A i \in 1..Len(archived.entries) : archived.entries[i].path \in DOMAIN stage
        BY <2>5 DEF Holds
      <4>2. \A p \in DOMAIN m : p \in DOMAIN stage
        BY <3>1, <4>1 DEF Describes
      <4>. QED BY <3>2, <4>2
    <3>. QED BY <2>4, <3>2, <3>3
  <2>7. CASE ~Undisturbed
    <3>1. disturbed \/ counts["crashes"] > 0
      BY <2>7 DEF Undisturbed, LocalRootInductive, CountsWell
    <3>2. CopiedWhole \/ counts["losses"] = 0 \/ (counts["losses"] = 1 /\ root = Nothing)
      BY DEF LocalRootInductive, CountsWell
    <3>3. PICK m \in moments : \A i \in 1..Len(archived.entries) :
            Verified(archived.entries[i])
              => Holds(m, archived.entries[i].path, archived.entries[i].sha256)
      BY <3>2 DEF LocalRootInductive, ArchiveIsOneMoment
    <3>4. \A p \in DOMAIN stage : p \in DOMAIN m /\ stage[p] = m[p]
      BY <2>5, <3>3 DEF Holds
    <3>. QED BY <2>4, <3>1, <3>4
  <2>. QED BY <2>6, <2>7
<1>. QED BY <1>1, LocalRootIsInductive, PTL DEF Spec, RestoredIsOneMoment
=============================================================================
