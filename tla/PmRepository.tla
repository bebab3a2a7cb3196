---------------------------- MODULE PmRepository ----------------------------
(***************************************************************************)
(* The package manager, bunsan::pm::repository.                            *)
(*                                                                         *)
(* A package is published on a static file server as an index, which names *)
(* its imports, its sources, and a checksum of both.  update(package)      *)
(* fetches what has changed into a cache directory and rebuilds there, in  *)
(* depth-first order, what is outdated: the build of a package is made of  *)
(* its sources and source imports, its installation of the build and of    *)
(* other installations.  Next to each archive the cache keeps a snapshot,  *)
(* the checksums of everything the archive was made of; comparing it with  *)
(* the current checksums decides whether the archive is still good.        *)
(*                                                                         *)
(* The cache is shared by processes that may die at any point; a file lock *)
(* lets one update in at a time.  Packages are published while updates     *)
(* run.  The order in which dependencies are visited is left open.         *)
(***************************************************************************)
EXTENDS Naturals, Sequences, FiniteSets

CONSTANTS
  Packages,    \* package names
  Sources,     \* contents of a package's own sources
  Releases,    \* per package: its releases, in the order of publication
  MaxFaults,   \* bound on interrupted updates and clean_cache calls
  None, Torn   \* no file; a file whose writer died

Indices == [source_self : BOOLEAN,
            source_package : SUBSET Packages, source_source : SUBSET Packages,
            package_package : SUBSET Packages, package_source : SUBSET Packages]

(* A checksum covers the index and the sources: it is the release.          *)
Checksums == [index : Indices, source : Sources]

ASSUME PackagesAssumption == IsFiniteSet(Packages)
ASSUME AbsentAssumption ==
  /\ {None, Torn} \cap (Indices \cup Sources \cup Checksums) = {}
  /\ None # Torn /\ None \notin Packages
ASSUME ReleasesAssumption ==
  /\ Releases \in [Packages -> Seq(Checksums)]
  /\ \A p \in Packages : Len(Releases[p]) > 0
  /\ \A snapshot \in SUBSET UNION {{<<p, Releases[p][n]>> :
                                     n \in DOMAIN Releases[p]} : p \in Packages} :
       snapshot \notin {None, Torn}

ASSUME BoundsAssumption == MaxFaults \in Nat

VARIABLES
  remote,        \* per package: the releases its files on the server are of
  checksum, index, source,  \* per package: the files fetched into the cache
  build, installation,      \* per package: archive and snapshot in the cache
  phase,         \* of the update that holds the cache lock, or "idle"
  target,        \* the package it updates
  current,       \* the package whose index it is about to fetch
  todo, visited, \* update_meta_tree: packages to fetch, and fetched
  stack,         \* update_package_depends: the stages being visited, in
  done,          \* ... and those visited: updated and snapshot_cache
  faults         \* interrupted updates and clean_cache calls so far

sourceVars == <<checksum, index, source>>
packageVars == <<build, installation>>
updateVars == <<phase, target, current, todo, visited, stack, done>>
repositoryVars == <<remote, sourceVars, packageVars, updateVars, faults>>

----------------------------------------------------------------------------
(* State *)

Stages == Packages \X {"installation", "build", "build_empty", "source"}

Snapshots == SUBSET (Packages \X Checksums)
Entries == [archive : Snapshots \cup {None, Torn},
            snapshot : Snapshots \cup {None, Torn}]
NoEntry == [archive |-> None, snapshot |-> None]

Published == [checksum : Nat \ {0}, index : Nat \ {0}, source : Nat \ {0}]

Init ==
  /\ remote = [p \in Packages |-> [checksum |-> 1, index |-> 1, source |-> 1]]
  /\ checksum = [p \in Packages |-> None]
  /\ index = [p \in Packages |-> None]
  /\ source = [p \in Packages |-> None]
  /\ build = [p \in Packages |-> NoEntry]
  /\ installation = [p \in Packages |-> NoEntry]
  /\ phase = "idle" /\ target = None /\ current = None
  /\ todo = {} /\ visited = {}
  /\ stack = <<>> /\ done = <<>>
  /\ faults = 0

Fault == faults < MaxFaults /\ faults' = faults + 1

----------------------------------------------------------------------------
(* The server: a new release replaces the index, then the sources, and last *)
(* the checksum, as distributor::create leaves them.                        *)

Publish(p) ==
  /\ LET r == remote[p] IN
     \/ /\ r.index = r.checksum /\ r.index < Len(Releases[p])
        /\ remote' = [remote EXCEPT ![p].index = @ + 1]
     \/ /\ r.source < r.index
        /\ remote' = [remote EXCEPT ![p].source = @ + 1]
     \/ /\ r.checksum < r.source
        /\ remote' = [remote EXCEPT ![p].checksum = @ + 1]
  /\ UNCHANGED <<sourceVars, packageVars, updateVars, faults>>

remote_checksum(p) == Releases[p][remote[p].checksum]
remote_index(p) == Releases[p][remote[p].index].index
remote_source(p) == Releases[p][remote[p].source].source

----------------------------------------------------------------------------
(* The cache lock: whoever has it is the one update under way, and forgets   *)
(* everything when it ends                                                   *)

Unlock ==
  /\ phase' = "idle" /\ target' = None /\ current' = None
  /\ todo' = {} /\ visited' = {}
  /\ stack' = <<>> /\ done' = <<>>

Update(p) ==
  /\ phase = "idle"
  /\ phase' = "meta"
  /\ target' = p
  /\ todo' = {p}
  /\ UNCHANGED <<remote, sourceVars, packageVars, current, visited, stack,
                 done, faults>>

(* clean_cache(), or an update with another version of the library.          *)
CleanCache ==
  /\ phase = "idle"
  /\ Fault
  /\ checksum' = [p \in Packages |-> None]
  /\ index' = [p \in Packages |-> None]
  /\ source' = [p \in Packages |-> None]
  /\ build' = [p \in Packages |-> NoEntry]
  /\ installation' = [p \in Packages |-> NoEntry]
  /\ UNCHANGED <<remote, updateVars>>

----------------------------------------------------------------------------
(* update_meta_tree *)

imports(i) == i.source_package \cup i.source_source
                \cup i.package_package \cup i.package_source

(* Mutant of UpdateChecksum: a checksum in the cache is not fetched again. *)
UpdateChecksumOnce(p) ==
  /\ phase = "meta"
  /\ p \in todo
  /\ checksum' = [checksum EXCEPT ![p] = IF @ = None THEN remote_checksum(p) ELSE @]
  /\ current' = p
  /\ phase' = "index"
  /\ UNCHANGED <<remote, index, source, packageVars, target, todo,
                 visited, stack, done, faults>>

UpdateChecksum(p) ==
  /\ phase = "meta"
  /\ p \in todo
  /\ checksum' = [checksum EXCEPT ![p] = remote_checksum(p)]
  /\ current' = p
  /\ phase' = "index"
  /\ UNCHANGED <<remote, index, source, packageVars, target, todo,
                 visited, stack, done, faults>>

(* update_file: a file that does not match the checksum is fetched, and the *)
(* update fails if the file that comes does not match it either.            *)
UpdateIndex ==
  /\ phase = "index"
  /\ IF index[current] = checksum[current].index
       THEN UNCHANGED index
       ELSE index' = [index EXCEPT ![current] = remote_index(current)]
  /\ IF index'[current] = checksum[current].index
       THEN /\ visited' = visited \cup {current}
            /\ todo' = (todo \cup imports(index'[current])) \ visited'
            /\ phase' = IF todo' = {} THEN "build" ELSE "meta"
            /\ stack' = IF todo' = {} THEN <<<<target, "installation">>>>
                                      ELSE <<>>
            /\ current' = None
            /\ UNCHANGED <<target, done>>
       ELSE Unlock
  /\ UNCHANGED <<remote, checksum, source, packageVars, faults>>

----------------------------------------------------------------------------
(* update_package_depends *)

Top == stack[Len(stack)]

Stage(ps, kind) == {<<p, kind>> : p \in ps}

(* index::source.empty(): nothing to build *)
source_empty(i) ==
  ~i.source_self /\ i.source_package = {} /\ i.source_source = {}

DependsOn(s) ==
  LET i == index[s[1]] IN
  CASE s[2] = "installation" ->
         Stage(i.package_package, "installation")
           \cup Stage(i.package_source, "source")
           \cup {<<s[1], IF source_empty(i) THEN "build_empty" ELSE "build">>}
    [] s[2] = "source" ->
         Stage(i.source_package, "installation")
           \cup Stage(i.source_source, "source")
    [] OTHER -> {<<s[1], "source">>}

Visited(s) == s \in DOMAIN done

(* A stage that is being visited already: circular_dependencies_error. *)
Descend(s) ==
  /\ phase = "build"
  /\ s \in DependsOn(Top)
  /\ ~Visited(s)
  /\ IF \E n \in DOMAIN stack : stack[n] = s
       THEN Unlock
       ELSE /\ stack' = Append(stack, s)
            /\ UNCHANGED <<phase, target, current, todo, visited, done>>
  /\ UNCHANGED <<remote, sourceVars, packageVars, faults>>

DependsDone == phase = "build" /\ \A s \in DependsOn(Top) : Visited(s)

DependsUpdated == \E s \in DependsOn(Top) : done[s].updated
DependsSnapshot == UNION {done[s].snapshot : s \in DependsOn(Top)}

Leave(updated, snapshot) ==
  /\ done' = [s \in DOMAIN done \cup {Top} |->
                IF s = Top THEN [updated |-> updated, snapshot |-> snapshot]
                           ELSE done[s]]
  /\ stack' = SubSeq(stack, 1, Len(stack) - 1)
  /\ phase' = IF Len(stack) = 1 THEN "updated" ELSE "build"
  /\ UNCHANGED <<target, current, todo, visited>>

(* Mutants of UpdateSources: a source that exists is not fetched; what has   *)
(* been fetched is not compared with the checksum.                          *)
UpdateSourcesExisting ==
  LET p == Top[1] IN
  /\ DependsDone
  /\ Top[2] = "source"
  /\ source' = [source EXCEPT ![p] = IF @ = None THEN remote_source(p) ELSE @]
  /\ Leave(DependsUpdated, DependsSnapshot \cup {<<p, checksum[p]>>})
  /\ UNCHANGED <<remote, checksum, index, packageVars, faults>>
UpdateSourcesUnverified ==
  LET p == Top[1] IN
  /\ DependsDone
  /\ Top[2] = "source"
  /\ source' = [source EXCEPT ![p] = IF @ = checksum[p].source
                                       THEN @ ELSE remote_source(p)]
  /\ Leave(DependsUpdated, DependsSnapshot \cup {<<p, checksum[p]>>})
  /\ UNCHANGED <<remote, checksum, index, packageVars, faults>>

UpdateSources ==
  LET p == Top[1] IN
  /\ DependsDone
  /\ Top[2] = "source"
  /\ IF source[p] = checksum[p].source
       THEN UNCHANGED source
       ELSE source' = [source EXCEPT ![p] = remote_source(p)]
  /\ IF source'[p] = checksum[p].source
       THEN Leave(DependsUpdated, DependsSnapshot \cup {<<p, checksum[p]>>})
       ELSE Unlock
  /\ UNCHANGED <<remote, checksum, index, packageVars, faults>>

(* The cached archive and snapshot that stage s makes. *)
Cached(s) == IF s[2] = "installation" THEN installation[s[1]] ELSE build[s[1]]

SetCached(s, entry) ==
  IF s[2] = "installation"
    THEN installation' = [installation EXCEPT ![s[1]] = entry] /\ UNCHANGED build
    ELSE build' = [build EXCEPT ![s[1]] = entry] /\ UNCHANGED installation

Missing(s) == Cached(s).archive = None \/ Cached(s).snapshot = None

(* Whether the stage must be made again; the snapshot is read only if       *)
(* nothing else has decided it.                                             *)
Outdated(s) ==
  DependsUpdated \/ Missing(s) \/ Cached(s).snapshot # DependsSnapshot

UpToDate ==
  /\ DependsDone
  /\ Top[2] # "source"
  /\ ~Outdated(Top)
  /\ Leave(FALSE, DependsSnapshot)
  /\ UNCHANGED <<remote, sourceVars, packageVars, faults>>

(* A snapshot whose writer died cannot be read. *)
SnapshotUnreadable ==
  /\ DependsDone
  /\ Top[2] # "source"
  /\ ~DependsUpdated /\ ~Missing(Top)
  /\ Cached(Top).snapshot = Torn
  /\ Unlock
  /\ UNCHANGED <<remote, sourceVars, packageVars, faults>>

----------------------------------------------------------------------------
(* The builder.  The content of an archive is what it was made of; an empty  *)
(* build counts as made of its package.                                     *)

(* The packages whose sources unpack_source(p) extracts. *)
Tree(p) ==
  {q \in visited : \A ps \in SUBSET visited :
     p \in ps /\ (\A r \in ps : index[r].source_source \subseteq ps) => q \in ps}

Imported(ps) == UNION {index[q].source_package : q \in ps}

Extracted(q) == <<q, [index |-> index[q], source |-> source[q]]>>

UnpackedSource(p) ==
  {Extracted(q) : q \in Tree(p)}
    \cup UNION {installation[q].archive : q \in Imported(Tree(p))}
SourceSnapshot(p) ==
  {<<q, checksum[q]>> : q \in Tree(p)}
    \cup UNION {installation[q].snapshot : q \in Imported(Tree(p))}

Content(s) ==
  LET p == s[1] IN
  CASE s[2] = "build" -> UnpackedSource(p)
    [] s[2] = "build_empty" -> {Extracted(p)}
    [] s[2] = "installation" ->
         build[p].archive \cup {Extracted(p)}
           \cup (UNION {UnpackedSource(q) : q \in index[p].package_source})
           \cup (UNION {installation[q].archive : q \in index[p].package_package})

(* Mutant of SnapshotOf: the snapshots of imported installations are left out. *)
SnapshotOfOwn(s) ==
  IF s[2] = "installation" THEN build[s[1]].snapshot
                           ELSE {<<q, checksum[q]>> : q \in Tree(s[1])}

SnapshotOf(s) ==
  LET p == s[1] IN
  CASE s[2] = "build" -> SourceSnapshot(p)
    [] s[2] = "build_empty" -> {<<p, checksum[p]>>}
    [] s[2] = "installation" ->
         build[p].snapshot
           \cup (UNION {SourceSnapshot(q) : q \in index[p].package_source})
           \cup (UNION {installation[q].snapshot : q \in index[p].package_package})

(* The archives that a build extracts. *)
Unpacked(s) ==
  LET p == s[1]
      trees == IF s[2] = "build" THEN Tree(p)
                 ELSE UNION {Tree(q) : q \in index[p].package_source} IN
  CASE s[2] = "build" -> {installation[q].archive : q \in Imported(trees)}
    [] s[2] = "build_empty" -> {}
    [] s[2] = "installation" ->
         {build[p].archive} \cup
           {installation[q].archive :
              q \in Imported(trees) \cup index[p].package_package}

Builds ==
  /\ DependsDone
  /\ Top[2] # "source"
  /\ Outdated(Top)
  /\ DependsUpdated \/ Missing(Top) \/ Cached(Top).snapshot # Torn

(* An archive whose writer died cannot be extracted: the build fails. *)
ArchiveUnreadable ==
  /\ Builds
  /\ Torn \in Unpacked(Top)
  /\ Unlock
  /\ UNCHANGED <<remote, sourceVars, packageVars, faults>>

Pack ==
  /\ Builds
  /\ Torn \notin Unpacked(Top)
  /\ SetCached(Top, [Cached(Top) EXCEPT !.archive = Content(Top)])
  /\ phase' = "packed"
  /\ UNCHANGED <<remote, sourceVars, target, current, todo, visited,
                 stack, done, faults>>

(* The assertion after a build: the snapshot is the one that was expected. *)
WriteSnapshot ==
  /\ phase = "packed"
  /\ SetCached(Top, [Cached(Top) EXCEPT !.snapshot = SnapshotOf(Top)])
  /\ IF SnapshotOf(Top) = DependsSnapshot
       THEN Leave(TRUE, DependsSnapshot)
       ELSE /\ phase' = "asserted"
            /\ UNCHANGED <<target, current, todo, visited, stack, done>>
  /\ UNCHANGED <<remote, sourceVars, faults>>

----------------------------------------------------------------------------
(* The caller extracts the installation and lets go of the lock. *)
Extract ==
  /\ phase = "updated"
  /\ Unlock
  /\ UNCHANGED <<remote, sourceVars, packageVars, faults>>

(* What an interrupted update leaves of the file it is writing. *)
Tear ==
  \/ /\ phase = "index"
     /\ index[current] # checksum[current].index
     /\ index' = [index EXCEPT ![current] = Torn]
     /\ UNCHANGED <<checksum, source, packageVars>>
  \/ /\ DependsDone /\ Top[2] = "source"
     /\ source[Top[1]] # checksum[Top[1]].source
     /\ source' = [source EXCEPT ![Top[1]] = Torn]
     /\ UNCHANGED <<checksum, index, packageVars>>
  \/ /\ Builds /\ Torn \notin Unpacked(Top)
     /\ SetCached(Top, [Cached(Top) EXCEPT !.archive = Torn])
     /\ UNCHANGED sourceVars
  \/ /\ phase = "packed"
     /\ SetCached(Top, [Cached(Top) EXCEPT !.snapshot = Torn])
     /\ UNCHANGED sourceVars

(* A fetch, a build or an archiver fails, or the process dies. *)
Interrupt ==
  /\ phase # "idle"
  /\ Fault
  /\ Tear \/ UNCHANGED <<sourceVars, packageVars>>
  /\ Unlock
  /\ UNCHANGED remote

UpdateStep ==
  \/ \E p \in Packages : UpdateChecksum(p)
  \/ UpdateIndex
  \/ \E s \in Stages : Descend(s)
  \/ UpdateSources
  \/ UpToDate
  \/ SnapshotUnreadable
  \/ ArchiveUnreadable
  \/ Pack
  \/ WriteSnapshot

Next ==
  \/ \E p \in Packages : Publish(p)
  \/ \E p \in Packages : Update(p)
  \/ CleanCache
  \/ UpdateStep
  \/ Extract
  \/ Interrupt

Spec == Init /\ [][Next]_repositoryVars

(* Whoever holds the lock goes on; nobody need publish, call or fail. *)
Fairness == WF_repositoryVars(UpdateStep) /\ WF_repositoryVars(Extract)
FairSpec == Spec /\ Fairness

----------------------------------------------------------------------------
(* Properties *)

TypeOK ==
  /\ remote \in [Packages -> Published]
  /\ checksum \in [Packages -> Checksums \cup {None}]
  /\ index \in [Packages -> Indices \cup {None, Torn}]
  /\ source \in [Packages -> Sources \cup {None, Torn}]
  /\ \A p \in Packages : \A e \in {build[p], installation[p]} :
       /\ e.archive \in {None, Torn} \/ e.archive \subseteq Packages \X Checksums
       /\ e.snapshot \in {None, Torn} \/ e.snapshot \subseteq Packages \X Checksums
  /\ phase \in {"idle", "meta", "index", "build", "packed", "updated", "asserted"}
  /\ target \in Packages \cup {None}
  /\ current \in Packages \cup {None}
  /\ todo \subseteq Packages
  /\ visited \subseteq Packages
  /\ stack \in Seq(Stages)
  /\ DOMAIN done \subseteq Stages
  /\ \A s \in DOMAIN done : /\ done[s].updated \in BOOLEAN
                            /\ done[s].snapshot \subseteq Packages \X Checksums
  /\ faults \in 0..MaxFaults

(* The packages p is made of, from the indices alone: those whose sources    *)
(* its installation needs, over any chain of imports.                        *)
MadeOf(p) ==
  LET Needs(x) == LET i == index[x[1]] IN
        IF x[2] = "source"
          THEN Stage(i.source_package, "installation")
                 \cup Stage(i.source_source, "source")
          ELSE Stage(i.package_package, "installation")
                 \cup Stage(i.package_source, "source")
                 \cup {<<x[1], "source">>}
  IN  {q \in visited : \A xs \in SUBSET (visited \X {"installation", "source"}) :
         /\ <<p, "installation">> \in xs
         /\ \A x \in xs : Needs(x) \subseteq xs
         => <<q, "source">> \in xs}

Expected(p) == {<<q, checksum[q]>> : q \in MadeOf(p)}

(* Every update picks one release of each package it comes to, current at    *)
(* that moment, and one that returns has installed exactly what these need   *)
(* and a snapshot that says so; however packages are published meanwhile,    *)
(* updates interrupted and the cache reused or cleaned.  Once a release has  *)
(* been published again, this holds of the snapshot alone.                   *)
(* (repository.cpp:62, :192, :206, distributor.cpp:130)                      *)
Picked == visited \cup (IF phase = "index" THEN {current} ELSE {})
Updates == INSTANCE PackageUpdates WITH
  published <- [p \in Packages |-> remote[p].checksum],
  updating  <- target,
  picked    <- [p \in Packages |-> IF p \in Picked THEN checksum[p] ELSE None],
  installed <- IF phase = "updated" THEN {installation[target]} ELSE {}
ImplementsUpdates == Updates!Spec

(* A package is at a release that it has been at before, and had left: then  *)
(* a snapshot that was given up may match again.                             *)
Republished == Updates!Republished

(* When update() returns, the snapshot of the installation names the current *)
(* release of every package it needs, and the installation was made of       *)
(* exactly these, unless a release has been published again: whatever was    *)
(* reused from the cache was good. (repository.cpp:263, :280, :295)          *)
UpdatedIsFresh ==
  phase = "updated" =>
    /\ installation[target].snapshot = Expected(target)
    /\ Republished \/ installation[target].archive = Expected(target)

(* The assertions after each build hold: what the builder has recorded is    *)
(* what the dependency walk expected. (repository.cpp:267, :283, :298)       *)
AssertionsHold == phase # "asserted"

(* While no release is published again, a snapshot either tells what its     *)
(* archive is made of or lists a checksum that is not current any more, so   *)
(* no update takes it for up to date: a crash between the two writes, or in  *)
(* one, is noticed.  Without the condition it may not be: the snapshot that  *)
(* the crash left becomes current again, over an archive of the release in   *)
(* between. (repository.cpp:263-300, builder.cpp:31-73)                      *)
SnapshotHonest ==
  ~Republished => \A p \in Packages : \A e \in {build[p], installation[p]} :
    e.snapshot \notin {None, Torn} /\ e.archive # None =>
      \/ e.archive = e.snapshot
      \/ \E x \in e.snapshot : x[2] # remote_checksum(x[1])

(* Every update ends, circular imports and unreadable snapshots included:    *)
(* again and again nobody has the lock. (repository.cpp:62, :212)            *)
UpdateEnds == []<>(phase = "idle")

=============================================================================
