------------------------------ MODULE PmCache -------------------------------
(***************************************************************************)
(* bunsan::pm::cache: a directory of installed packages that the threads   *)
(* of a server share.  get(package) installs or updates the package if its *)
(* installation is older than a lifetime, and returns an entry, which      *)
(* keeps a shared lock on the whole cache; updates and clean() lock it     *)
(* exclusively.  What is old is decided before any lock is taken, by the   *)
(* file (meta) that an installation ends with.                             *)
(*                                                                         *)
(* The package manager behind it is abstract: an update finds the release  *)
(* of some moment of the update (PmRepository), or fails.  Releases are    *)
(* numbered; one may be published again.                                   *)
(***************************************************************************)
EXTENDS Naturals, FiniteSets

CONSTANTS
  Users,         \* threads
  Installable,   \* package names
  MaxReleases,   \* number of different releases of a package
  MaxPublished,  \* bound on publications
  MaxTime,       \* bound on the clock
  Lifetime,      \* of an installation, config::cache_config::lifetime
  MaxFailures,   \* bound on failures and on calls of clean(), together
  Nothing        \* no package, no user, no file

ASSUME CacheBoundsAssumption ==
  /\ MaxReleases \in Nat \ {0}
  /\ {MaxPublished, MaxTime, Lifetime, MaxFailures} \subseteq Nat
ASSUME NothingAssumption ==
  Nothing \notin Users \cup Installable \cup Nat

VARIABLES
  released,      \* per package: its current release in the repository
  now,           \* std::time
  data, meta,    \* per package: the release whose manifest is among the
                 \* files of its installation, and the file that ends it
  whole,         \* packages of which all the files are there
  owner, sharers, blocked, \* m_lock: who has it, and that a writer waits
  pc,            \* per user: where it is in get() or clean()
  package,       \* per user: the package it gets
  found,         \* per user: the release its update has found
  overtaken,     \* history: users whose installation was removed between
                 \* the decision that it is good and the shared lock
  damaged,       \* history: packages whose files are incomplete though
                 \* meta does not tell, until all of them are removed
  published,     \* publications so far
  failures

releaseVars == <<released, published>>
diskVars == <<data, meta, whole, damaged>>
mlockVars == <<owner, sharers, blocked>>
cacheVars == <<releaseVars, now, diskVars, mlockVars, pc, package, found,
               overtaken, failures>>

ReleasesOf == 1..MaxReleases
Unreadable == 0   \* the snapshot in a meta that was not copied to its end

CacheInit ==
  /\ released = [p \in Installable |-> 1]
  /\ now = 0
  /\ data = [p \in Installable |-> Nothing]
  /\ meta = [p \in Installable |-> Nothing]
  /\ whole = {} /\ damaged = {}
  /\ owner = Nothing /\ sharers = {} /\ blocked = FALSE
  /\ pc = [u \in Users |-> "idle"]
  /\ package = [u \in Users |-> Nothing]
  /\ found = [u \in Users |-> Nothing]
  /\ overtaken = {}
  /\ published = 0 /\ failures = 0

Goes(u, to) == pc' = [pc EXCEPT ![u] = to]

Failure == failures < MaxFailures /\ failures' = failures + 1

----------------------------------------------------------------------------
(* boost::shared_mutex: a writer that has to wait keeps new readers out      *)
(* until the lock is next free.                                             *)

WriterWaits(u) ==
  /\ pc[u] \in {"exclusive", "clean"}
  /\ owner # Nothing \/ sharers # {}
  /\ blocked' = TRUE
  /\ UNCHANGED <<releaseVars, now, diskVars, owner, sharers, pc, package,
                 found, overtaken, failures>>

LockExclusive(u) ==
  /\ owner = Nothing /\ sharers = {}
  /\ owner' = u
  /\ UNCHANGED <<sharers, blocked>>

UnlockExclusive == owner' = Nothing /\ blocked' = FALSE /\ UNCHANGED sharers

UnlockShared(u) ==
  /\ sharers' = sharers \ {u}
  /\ blocked' = (blocked /\ sharers' # {})
  /\ UNCHANGED owner

----------------------------------------------------------------------------
(* extractor::need_update *)

out_of_range(p) ==
  now > Lifetime + meta[p].time \/ meta[p].time > Lifetime + now

OldMeta(p) == meta[p] = Nothing \/ out_of_range(p)

(* get() asks before it locks: that meta exists, and then for its time.      *)
FindMeta(u) ==
  /\ pc[u] = "meta"
  /\ Goes(u, IF meta[package[u]] = Nothing THEN "exclusive" ELSE "time")
  /\ UNCHANGED <<releaseVars, now, diskVars, mlockVars, package, found,
                 overtaken, failures>>

ReadTime(u) ==
  /\ pc[u] = "time" /\ meta[package[u]] # Nothing
  /\ Goes(u, IF out_of_range(package[u]) THEN "exclusive" ELSE "shared")
  /\ UNCHANGED <<releaseVars, now, diskVars, mlockVars, package, found,
                 overtaken, failures>>

(* Somebody has removed meta in between: last_write_time throws. *)
MetaVanished(u) ==
  /\ pc[u] = "time" /\ meta[package[u]] = Nothing
  /\ Goes(u, "threw")
  /\ UNCHANGED <<releaseVars, now, diskVars, mlockVars, package, found,
                 overtaken, failures>>

----------------------------------------------------------------------------
(* cache::get *)

Get(u, p) ==
  /\ pc[u] = "idle" /\ Goes(u, "meta")
  /\ package' = [package EXCEPT ![u] = p]
  /\ UNCHANGED <<releaseVars, now, diskVars, mlockVars, found, overtaken,
                 failures>>

(* The exclusive section begins; repository::update asks again whether the   *)
(* installation is old.                                                      *)
LockToUpdate(u) ==
  /\ pc[u] = "exclusive"
  /\ Goes(u, IF OldMeta(package[u]) THEN "update" ELSE "unlock")
  /\ LockExclusive(u)
  /\ UNCHANGED <<releaseVars, now, diskVars, package, found, overtaken,
                 failures>>

(* repository::update(package), and extractor::update: the same release is   *)
(* installed already, or a new installation is made.                         *)
UpdatePackage(u) ==
  LET p == package[u]
      same == meta[p] # Nothing /\ meta[p].snapshot = released[p] IN
  /\ pc[u] = "update" /\ Goes(u, IF same THEN "unlock" ELSE "reset")
  /\ found' = [found EXCEPT ![u] = released[p]]
  /\ IF same THEN meta' = [meta EXCEPT ![p].time = now] ELSE UNCHANGED meta
  /\ UNCHANGED <<releaseVars, now, data, whole, damaged, mlockVars, package,
                 overtaken, failures>>

(* Whoever has decided that its package's installation is good, and has no   *)
(* shared lock yet, loses it when the installation is removed.               *)
Overtake(ps) ==
  overtaken' = overtaken \cup
    {u \in Users : pc[u] = "shared" /\ package[u] \in ps}

(* Files that are not all there, of the release that is current by their     *)
(* meta: an update takes them for the installation it would make.            *)
Unnoticed == {p \in Installable \ whole : meta[p] # Nothing
                                         /\ meta[p].snapshot = released[p]}

(* reset_dir that fails: any of the files are removed, and no more.  What    *)
(* has lost its manifest, or another file, is not whole.                     *)
RemovePartly(ps) ==
  \E noManifest, noMeta, broken \in SUBSET ps :
    /\ noManifest \subseteq broken
    /\ data' = [p \in Installable |->
                   IF p \in noManifest THEN Nothing ELSE data[p]]
    /\ meta' = [p \in Installable |->
                   IF p \in noMeta THEN Nothing ELSE meta[p]]
    /\ whole' = whole \ broken
    /\ Overtake(ps)

StampOf(snapshot) == [snapshot |-> snapshot, time |-> now]

(* Mutant of InstallReset: meta is made before the data. *)
InstallResetStamped(u) ==
  /\ pc[u] = "reset" /\ Goes(u, "extract")
  /\ data' = [data EXCEPT ![package[u]] = Nothing]
  /\ meta' = [meta EXCEPT ![package[u]] = StampOf(found[u])]
  /\ whole' = whole \ {package[u]} /\ damaged' = damaged \ {package[u]}
  /\ Overtake({package[u]})
  /\ UNCHANGED <<releaseVars, now, mlockVars, package, found, failures>>

(* extractor::install *)
InstallReset(u) ==
  /\ pc[u] = "reset" /\ Goes(u, "extract")
  /\ data' = [data EXCEPT ![package[u]] = Nothing]
  /\ meta' = [meta EXCEPT ![package[u]] = Nothing]
  /\ whole' = whole \ {package[u]} /\ damaged' = damaged \ {package[u]}
  /\ Overtake({package[u]})
  /\ UNCHANGED <<releaseVars, now, mlockVars, package, found, failures>>

InstallData(u) ==
  /\ pc[u] = "extract" /\ Goes(u, "install")
  /\ data' = [data EXCEPT ![package[u]] = found[u]]
  /\ whole' = whole \cup {package[u]}
  /\ UNCHANGED <<releaseVars, now, meta, damaged, mlockVars, package, found,
                 overtaken, failures>>

InstallMeta(u) ==
  /\ pc[u] = "install" /\ Goes(u, "unlock")
  /\ meta' = [meta EXCEPT ![package[u]] = StampOf(found[u])]
  /\ UNCHANGED <<releaseVars, now, data, whole, damaged, mlockVars, package,
                 found, overtaken, failures>>

(* Where an update may fail: in fetching and building; in removing the old   *)
(* files; in extracting the new ones, the manifest among them or not; in     *)
(* copying meta, or after it.                                                *)
FailsBefore(u) == pc[u] = "update" /\ UNCHANGED <<diskVars, overtaken>>
FailsToReset(u) ==
  /\ pc[u] = "reset"
  /\ RemovePartly({package[u]})
  /\ damaged' = damaged \cup Unnoticed'
FailsToExtract(u) ==
  /\ pc[u] = "extract"
  /\ data' \in {data, [data EXCEPT ![package[u]] = found[u]]}
  /\ UNCHANGED <<meta, whole, damaged, overtaken>>
FailsToStamp(u) ==
  /\ pc[u] = "install"
  /\ meta' \in {meta} \cup
       {[meta EXCEPT ![package[u]] = StampOf(s)] : s \in {found[u], Unreadable}}
  /\ UNCHANGED <<data, whole, damaged, overtaken>>

(* The update returns or throws, and with it goes what it has found. *)
Forget(u) == found' = [found EXCEPT ![u] = Nothing]

UpdateFails(u) ==
  /\ UNCHANGED <<releaseVars, now, package>>
  /\ FailsBefore(u) \/ FailsToReset(u) \/ FailsToExtract(u) \/ FailsToStamp(u)
  /\ Goes(u, "threw") /\ Failure
  /\ UnlockExclusive /\ Forget(u)

UnlockUpdated(u) ==
  /\ pc[u] = "unlock" /\ Goes(u, "shared")
  /\ UnlockExclusive /\ Forget(u)
  /\ UNCHANGED <<releaseVars, now, diskVars, package, overtaken, failures>>

(* The entry takes its shared lock after the exclusive one has gone. *)
LockShared(u) ==
  /\ pc[u] = "shared" /\ Goes(u, "entry")
  /\ owner = Nothing /\ ~blocked
  /\ sharers' = sharers \cup {u}
  /\ UNCHANGED <<releaseVars, now, diskVars, owner, blocked, package, found,
                 overtaken, failures>>

----------------------------------------------------------------------------
(* cache::clean *)

Clean(u) ==
  /\ pc[u] = "idle" /\ Goes(u, "clean")
  /\ Failure
  /\ UNCHANGED <<releaseVars, now, diskVars, mlockVars, package, found,
                 overtaken>>

LockToClean(u) ==
  /\ pc[u] = "clean" /\ Goes(u, "cleaning")
  /\ LockExclusive(u)
  /\ data' = [p \in Installable |-> Nothing]
  /\ meta' = [p \in Installable |-> Nothing]
  /\ whole' = {} /\ damaged' = {}
  /\ Overtake(Installable)
  /\ UNCHANGED <<releaseVars, now, package, found, failures>>

(* It may fail like any reset_dir, but then nobody makes the files anew. *)
CleanFails(u) ==
  /\ pc[u] = "clean" /\ Goes(u, "cleaning")
  /\ LockExclusive(u)
  /\ RemovePartly(Installable)
  /\ damaged' = damaged \cup (whole \ whole')
  /\ UNCHANGED <<releaseVars, now, package, found, failures>>

UnlockCleaned(u) ==
  /\ pc[u] = "cleaning" /\ Goes(u, "idle")
  /\ UnlockExclusive
  /\ UNCHANGED <<releaseVars, now, diskVars, package, found, overtaken,
                 failures>>

----------------------------------------------------------------------------
(* Packages are published, and time passes. *)

Release(p) ==
  /\ published < MaxPublished /\ published' = published + 1
  /\ \E r \in ReleasesOf \ {released[p]} :
       released' = [released EXCEPT ![p] = r]
  /\ UNCHANGED <<data, meta, whole>> /\ damaged' = damaged \cup Unnoticed'
  /\ UNCHANGED <<now, mlockVars, pc, package, found, overtaken, failures>>

Tick ==
  /\ now < MaxTime
  /\ now' = now + 1
  /\ UNCHANGED <<releaseVars, diskVars, mlockVars, pc, package, found,
                 overtaken, failures>>

CacheStep(u) ==
  \/ FindMeta(u) \/ ReadTime(u) \/ MetaVanished(u)
  \/ WriterWaits(u)
  \/ LockToUpdate(u) \/ UpdatePackage(u) \/ InstallReset(u) \/ InstallData(u)
  \/ InstallMeta(u) \/ UnlockUpdated(u) \/ LockShared(u)
  \/ LockToClean(u) \/ UnlockCleaned(u)

Environment ==
  \/ \E u \in Users : Clean(u) \/ CleanFails(u) \/ UpdateFails(u)
  \/ \E p \in Installable : Release(p)
  \/ Tick

----------------------------------------------------------------------------
(* Properties *)

Stamps == [snapshot : ReleasesOf \cup {Unreadable}, time : 0..MaxTime]

CacheTypeOK ==
  /\ released \in [Installable -> ReleasesOf]
  /\ now \in 0..MaxTime
  /\ data \in [Installable -> ReleasesOf \cup {Nothing}]
  /\ meta \in [Installable -> Stamps \cup {Nothing}]
  /\ whole \subseteq Installable /\ damaged \subseteq Installable
  /\ owner \in Users \cup {Nothing}
  /\ sharers \subseteq Users
  /\ blocked \in BOOLEAN
  /\ package \in [Users -> Installable \cup {Nothing}]
  /\ found \in [Users -> ReleasesOf \cup {Nothing}]
  /\ overtaken \subseteq Users
  /\ published \in 0..MaxPublished
  /\ failures \in 0..MaxFailures

(* What an entry may be without being complete: get() decides before it has  *)
(* the lock of the entry; and files that are damaged are not told from       *)
(* whole ones, after a clean() that failed, or when a release is published   *)
(* again that was to be replaced by an update that failed.                   *)
Excused(u) == u \in overtaken \/ package[u] \in damaged

Complete(u) == package[u] \in whole /\ data[package[u]] \in ReleasesOf

(* The entry that get() returns is a complete installation, unless the       *)
(* installation was removed between get()'s decision and the entry's lock    *)
(* (cache.cpp:34-49) or is damaged: no other update that fails, wherever it  *)
(* fails, makes get() return what it left. (extractor.cpp:35-51)             *)
InstalledWhenHeld ==
  \A u \in Users : pc[u] = "entry" => Complete(u) \/ Excused(u)

=============================================================================
