------------------------------- MODULE PmProofs -------------------------------
(***************************************************************************)
(* Proofs about PmRepository and StatementProvider.                        *)
(*                                                                         *)
(* The repository, for any packages, releases and interruptions: what an   *)
(* archive is to be made of is a closure of imports.  Written as the least *)
(* closed set, it needs no induction: to show that a closure is inside a   *)
(* set one shows that the set is closed.  Its updates implement the        *)
(* abstract ones of PackageUpdates.                                        *)
(*                                                                         *)
(* The statement provider over PmCache: what an entry of the cache holds   *)
(* is complete, unless excused, and what is served out of it is of the     *)
(* revision asked for, for any users, packages and bounds.                 *)
(***************************************************************************)
EXTENDS Pm, TLAPS

----------------------------------------------------------------------------
(* The package repository *)

(* What needs sources: a package's sources, or its installation. *)
Items == Packages \X {"installation", "source"}

(* What an item needs at once, of the releases c; see MadeOf. *)
Needed(c, x) ==
  IF c[x[1]] \in Checksums
    THEN LET i == c[x[1]].index IN
         IF x[2] = "source"
           THEN Stage(i.source_package, "installation")
                  \cup Stage(i.source_source, "source")
           ELSE Stage(i.package_package, "installation")
                  \cup Stage(i.package_source, "source")
                  \cup {<<x[1], "source">>}
    ELSE {}

Closed(c, xs) == \A y \in xs : Needed(c, y) \subseteq xs
Below(c, x) ==
  {y \in Items : \A xs \in SUBSET Items : x \in xs /\ Closed(c, xs) => y \in xs}
Origins(c, x) == {q \in Packages : <<q, "source">> \in Below(c, x)}
Made(c, x) == {<<q, c[q]>> : q \in Origins(c, x)}
Whole(c, x) == \A y \in Below(c, x) : c[y[1]] \in Checksums

(***************************************************************************)
(* Closures                                                                *)
(***************************************************************************)

(* What an item needs is an item, for imports are packages. *)
LEMMA NeededAreItems ==
  ASSUME NEW c, NEW x \in Items
  PROVE  Needed(c, x) \subseteq Items
<1>1. CASE c[x[1]] \in Checksums
  <2> DEFINE i == c[x[1]].index
  <2>1. i \in Indices
    BY <1>1 DEF Checksums
  <2>2. /\ i.source_package \subseteq Packages /\ i.source_source \subseteq Packages
        /\ i.package_package \subseteq Packages /\ i.package_source \subseteq Packages
    BY <2>1 DEF Indices
  <2> HIDE DEF i
  <2>3. Needed(c, x) = IF x[2] = "source"
           THEN Stage(i.source_package, "installation")
                  \cup Stage(i.source_source, "source")
           ELSE Stage(i.package_package, "installation")
                  \cup Stage(i.package_source, "source")
                  \cup {<<x[1], "source">>}
    BY <1>1 DEF Needed, i
  <2> QED BY <2>2, <2>3 DEF Items, Stage
<1>2. CASE c[x[1]] \notin Checksums
  BY <1>2 DEF Needed
<1> QED BY <1>1, <1>2

(* An item is below itself, and so is all that is needed below it. *)
LEMMA BelowClosed ==
  ASSUME NEW c, NEW x \in Items
  PROVE  /\ x \in Below(c, x) /\ Below(c, x) \subseteq Items
         /\ Closed(c, Below(c, x))
<1>1. x \in Below(c, x) /\ Below(c, x) \subseteq Items
  BY DEF Below
<1>2. ASSUME NEW y \in Below(c, x), NEW z \in Needed(c, y) PROVE z \in Below(c, x)
  <2>1. z \in Items
    BY <1>1, NeededAreItems
  <2>2. ASSUME NEW xs \in SUBSET Items, x \in xs, Closed(c, xs) PROVE z \in xs
    <3>1. y \in xs
      BY <2>2 DEF Below
    <3> QED BY <2>2, <3>1 DEF Closed
  <2> QED BY <2>1, <2>2 DEF Below
<1> QED BY <1>1, <1>2 DEF Closed

(* A closed set has whatever is below what it has. *)
LEMMA BelowLeast ==
  ASSUME NEW c, NEW x, NEW xs \in SUBSET Items, x \in xs, Closed(c, xs)
  PROVE  Below(c, x) \subseteq xs
BY DEF Below

(* What is below what is below is below. *)
LEMMA BelowTrans ==
  ASSUME NEW c, NEW x \in Items, NEW y \in Below(c, x)
  PROVE  Below(c, y) \subseteq Below(c, x)
BY BelowClosed, BelowLeast

(* Below an item are itself and what is below what it needs. *)
LEMMA BelowUnfold ==
  ASSUME NEW c, NEW x \in Items
  PROVE  Below(c, x) = {x} \cup UNION {Below(c, z) : z \in Needed(c, x)}
<1> DEFINE xs == {x} \cup UNION {Below(c, z) : z \in Needed(c, x)}
<1>0. Needed(c, x) \subseteq Items
  BY NeededAreItems
<1>1. xs \subseteq Below(c, x)
  <2>1. Needed(c, x) \subseteq Below(c, x)
    BY BelowClosed DEF Closed
  <2> QED BY <2>1, BelowClosed, BelowTrans
<1>2. Closed(c, xs)
  <2>1. ASSUME NEW z \in Needed(c, x) PROVE z \in Below(c, z) /\ Closed(c, Below(c, z))
    BY <1>0, BelowClosed
  <2>2. Needed(c, x) \subseteq xs
    BY <2>1
  <2>3. ASSUME NEW z \in Needed(c, x), NEW y \in Below(c, z)
        PROVE  Needed(c, y) \subseteq xs
    BY <2>1, <2>3 DEF Closed
  <2> QED BY <2>2, <2>3 DEF Closed
<1>3. xs \in SUBSET Items /\ x \in xs
  BY <1>1, BelowClosed
<1>4. Below(c, x) \subseteq xs
  BY <1>2, <1>3, BelowLeast
<1> QED BY <1>1, <1>4

(* An item is made of its own sources and of what it needs is made of. *)
LEMMA MadeUnfold ==
  ASSUME NEW c, NEW x \in Items
  PROVE  Made(c, x) = (IF x[2] = "source" THEN {<<x[1], c[x[1]]>>} ELSE {})
                        \cup UNION {Made(c, z) : z \in Needed(c, x)}
<1> DEFINE own == IF x[2] = "source" THEN {x[1]} ELSE {}
<1>0. x = <<x[1], x[2]>> /\ x[1] \in Packages /\ x[2] \in {"installation", "source"}
  BY DEF Items
<1>1. ASSUME NEW q \in Packages
      PROVE  <<q, "source">> = x <=> q \in own
  BY <1>0
<1>2. ASSUME NEW q \in Packages
      PROVE  q \in Origins(c, x) <=> q \in own \/ \E z \in Needed(c, x) : q \in Origins(c, z)
  <2>1. q \in Origins(c, x) <=> <<q, "source">> = x \/ \E z \in Needed(c, x) :
                                 <<q, "source">> \in Below(c, z)
    BY BelowUnfold DEF Origins
  <2> QED BY <1>1, <2>1 DEF Origins
<1>3. Origins(c, x) \subseteq Packages /\ own \subseteq Packages
  BY <1>0 DEF Origins
<1>4. \A z : Origins(c, z) \subseteq Packages
  BY DEF Origins
<1>5. Origins(c, x) = own \cup UNION {Origins(c, z) : z \in Needed(c, x)}
  BY <1>2, <1>3, <1>4
<1>6. {<<q, c[q]>> : q \in own} = IF x[2] = "source" THEN {<<x[1], c[x[1]]>>} ELSE {}
  OBVIOUS
<1> HIDE DEF own
<1>7. {<<q, c[q]>> : q \in own \cup UNION {Origins(c, z) : z \in Needed(c, x)}}
        = {<<q, c[q]>> : q \in own} \cup UNION {{<<q, c[q]>> : q \in Origins(c, z)} :
                                              z \in Needed(c, x)}
  OBVIOUS
<1> QED BY <1>5, <1>6, <1>7 DEF Made

(* An item is made of whatever the items below are made of. *)
LEMMA MadeBelow ==
  ASSUME NEW c, NEW x \in Items, NEW y \in Below(c, x)
  PROVE  Made(c, y) \subseteq Made(c, x)
BY BelowTrans DEF Made, Origins

(* Below an item whose closure is known every closure is. *)
LEMMA WholeBelow ==
  ASSUME NEW c, NEW x \in Items, Whole(c, x), NEW y \in Below(c, x)
  PROVE  Whole(c, y)
BY BelowTrans DEF Whole

(* A closure depends on nothing but the releases of the packages in it. *)
LEMMA BelowInside ==
  ASSUME NEW c, NEW d, NEW x \in Items,
         \A y \in Below(c, x) : c[y[1]] = d[y[1]]
  PROVE  Below(d, x) \subseteq Below(c, x)
<1>1. \A y \in Below(c, x) : Needed(d, y) = Needed(c, y)
  BY DEF Needed
<1>2. Closed(d, Below(c, x))
  BY <1>1, BelowClosed DEF Closed
<1> QED BY <1>2, BelowClosed, BelowLeast

(* The packages below are those an item comes from. *)
LEMMA WholeOrigins ==
  ASSUME NEW c, NEW x \in Items, Whole(c, x), NEW y \in Below(c, x)
  PROVE  y[1] \in Origins(c, x)
<1>1. y \in Items /\ c[y[1]] \in Checksums
  BY BelowClosed DEF Whole
<1>2. y = <<y[1], "source">> \/ <<y[1], "source">> \in Needed(c, y)
  <2>1. CASE y[2] = "source"
    BY <1>1, <2>1 DEF Items
  <2>2. CASE y[2] # "source"
    BY <1>1, <2>2 DEF Needed
  <2> QED BY <2>1, <2>2
<1>3. <<y[1], "source">> \in Below(c, x)
  BY <1>2, BelowClosed DEF Closed
<1> QED BY <1>1, <1>3 DEF Origins, Items

(* The closure of an item depends on its origins' checksums only. *)
LEMMA SameClosure ==
  ASSUME NEW c, NEW d, NEW x \in Items, Whole(c, x),
         \A q \in Origins(c, x) : c[q] = d[q]
  PROVE  Below(d, x) = Below(c, x) /\ Made(d, x) = Made(c, x) /\ Whole(d, x)
<1>1. \A y \in Below(c, x) : c[y[1]] = d[y[1]]
  BY WholeOrigins
<1>2. Below(d, x) \subseteq Below(c, x)
  BY <1>1, BelowInside
<1>3. Below(c, x) \subseteq Below(d, x)
  <2>1. \A y \in Below(d, x) : d[y[1]] = c[y[1]]
    BY <1>1, <1>2
  <2> QED BY <2>1, BelowInside
<1>4. Below(d, x) = Below(c, x)
  BY <1>2, <1>3
<1>5. Origins(d, x) = Origins(c, x)
  BY <1>4 DEF Origins
<1>6. {<<q, d[q]>> : q \in Origins(c, x)} = {<<q, c[q]>> : q \in Origins(c, x)}
  OBVIOUS
<1> QED BY <1>1, <1>4, <1>5, <1>6 DEF Made, Whole

(* What an item is made of is packages with checksums. *)
LEMMA MadeTyped ==
  ASSUME NEW c, NEW x \in Items, Whole(c, x)
  PROVE  Made(c, x) \subseteq Packages \X Checksums
<1>1. ASSUME NEW q \in Origins(c, x) PROVE q \in Packages /\ c[q] \in Checksums
  <2>1. <<q, "source">> \in Below(c, x) /\ <<q, "source">>[1] = q
    BY DEF Origins
  <2> QED BY <2>1 DEF Origins, Whole
<1> QED BY <1>1 DEF Made

(* The entry of the cache that an item's sources are built into. *)
EntryOf(x) == IF x[2] = "installation" THEN installation[x[1]] ELSE build[x[1]]
HasSnapshot(x) == EntryOf(x).snapshot \notin {None, Torn}
Current(x) ==
  HasSnapshot(x) /\ \A y \in EntryOf(x).snapshot : checksum[y[1]] = y[2]

-----------------------------------------------------------------------------
(* The inductive invariant *)

EntryTypes ==
  build \in [Packages -> Entries] /\ installation \in [Packages -> Entries]

RemoteInv ==
  \A p \in Packages :
    LET r == remote[p] IN
    /\ r \in Published
    /\ r.checksum <= r.source /\ r.source <= r.index /\ r.index <= Len(Releases[p])

(* c is the release of p with number n or one before it. *)
ReleasedBy(p, c, n) == \E k \in 1..n : c = Releases[p][k]

(* The checksums fetched, and those in snapshots, which are no newer. *)
OlderInv ==
  /\ \A p \in Packages :
       checksum[p] # None => ReleasedBy(p, checksum[p], remote[p].checksum)
  /\ \A x \in Items : HasSnapshot(x) =>
       \A y \in EntryOf(x).snapshot :
         \E n \in 1..remote[y[1]].checksum :
           checksum[y[1]] = Releases[y[1]][n] /\ ReleasedBy(y[1], y[2], n)

(* An update knows the indices it has visited, and what is left to visit. *)
MetaInv ==
  /\ phase = "idle" => visited = {} /\ todo = {}
  /\ phase \in {"meta", "index"} => stack = <<>> /\ done = <<>>
  /\ phase = "index" => current \in todo /\ checksum[current] \in Checksums
  /\ phase \notin {"idle", "meta", "index"} => todo = {}
  /\ phase # "idle" => target \in visited \cup todo
  /\ todo \cap visited = {}
  /\ \A p \in visited : checksum[p] \in Checksums /\ index[p] = checksum[p].index
                        /\ imports(index[p]) \subseteq visited \cup todo

(* A stage that the walk can come to. *)
Proper(s) ==
  /\ s \in Stages /\ s[1] \in visited
  /\ s[2] = "build" => ~source_empty(index[s[1]])
  /\ s[2] = "build_empty" => source_empty(index[s[1]])

WalkInv ==
  /\ phase = "idle" => stack = <<>> /\ done = <<>>
  /\ \A n \in DOMAIN stack : Proper(stack[n]) /\ ~Visited(stack[n])
  /\ \A m, n \in DOMAIN stack : stack[m] = stack[n] => m = n
  /\ phase \in {"build", "packed", "asserted"} =>
       Len(stack) > 0 /\ stack[1] = <<target, "installation">>
  /\ phase = "updated" => <<target, "installation">> \in DOMAIN done
  /\ \A s \in DOMAIN done : Proper(s) /\ DependsOn(s) \subseteq DOMAIN done

Root(s) == IF s[2] = "installation" THEN s ELSE <<s[1], "source">>

(* The sources visited are those of their checksums, and the snapshots name *)
(* the releases they must.                                                  *)
Good(s) ==
  /\ done[s].snapshot = Made(checksum, Root(s))
  /\ IF s[2] = "source" THEN source[s[1]] = checksum[s[1]].source
     ELSE /\ Cached(s).archive # None
          /\ Cached(s).snapshot = Made(checksum, Root(s))
DoneInv == \A s \in DOMAIN done : Good(s)

(* The stage packed is the one on the top, and all it needs is done. *)
PackedInv ==
  phase = "packed" =>
    /\ Top[2] # "source" /\ DependsOn(Top) \subseteq DOMAIN done
    /\ Cached(Top).archive # None

UpdateInv == MetaInv /\ WalkInv /\ DoneInv /\ PackedInv /\ AssertionsHold

(* What every archive is made of has been released. *)
Released == UNION {{<<p, Releases[p][n]>> : n \in DOMAIN Releases[p]} : p \in Packages}
ArchivesReleased ==
  \A x \in Items : EntryOf(x).archive \in {None, Torn} \cup SUBSET Released

(* What holds whatever is published. *)
GenInv ==
  TypeOK /\ EntryTypes /\ ArchivesReleased /\ RemoteInv /\ OlderInv /\ UpdateInv

-----------------------------------------------------------------------------
(* What holds besides while no release is published again: no snapshot that  *)
(* was given up can match, so the archives are what their snapshots say.     *)

ArchivesInv ==
  \A s \in DOMAIN done :
    s[2] # "source" => Cached(s).archive = Made(checksum, Root(s))

(* Whether x takes in what stage s makes. *)
Above(x, s) ==
  (IF s[2] \in {"installation", "source"} THEN s ELSE <<s[1], "installation">>)
    \in Below(checksum, x)
NotDone(x) ==
  IF x[2] = "installation" THEN x \notin DOMAIN done
  ELSE \A s \in DOMAIN done : s[1] = x[1] => s[2] \notin {"build", "build_empty"}

(* What takes in an updated stage and has not been visited is outdated. *)
UpdatedInv ==
  \A s \in DOMAIN done : done[s].updated =>
    \A x \in Items : NotDone(x) /\ Above(x, s) => ~Current(x)

PackedFresh ==
  phase = "packed" =>
    /\ Cached(Top).archive = Made(checksum, Root(Top))
    /\ ~Current(Root(Top))
    /\ \A x \in Items : Above(x, Top) => ~Current(x)

(* A snapshot whose checksums are all current is that of the current releases,*)
(* its archive is too, and so are the installations it takes in.             *)
EntryInv(x) ==
  /\ EntryOf(x).archive = None => EntryOf(x).snapshot = None
  /\ Current(x) =>
       /\ EntryOf(x).archive = EntryOf(x).snapshot
       /\ EntryOf(x).snapshot = Made(checksum, x) /\ Whole(checksum, x)
       /\ \A q \in Packages : <<q, "installation">> \in Below(checksum, x) =>
            /\ installation[q].snapshot = Made(checksum, <<q, "installation">>)
            /\ build[q].snapshot = Made(checksum, <<q, "source">>)
EntriesInv == \A x \in Items : EntryInv(x)

FreshInv == EntriesInv /\ UpdatedInv /\ ArchivesInv /\ PackedFresh

CacheInv == GenInv /\ (~Republished => FreshInv)

-----------------------------------------------------------------------------
(* What the walk has visited *)

LEMMA DependsOnIs ==
  ASSUME NEW s
  PROVE  /\ s[2] = "installation" =>
              DependsOn(s) = Stage(index[s[1]].package_package, "installation")
                \cup Stage(index[s[1]].package_source, "source")
                \cup {<<s[1], IF source_empty(index[s[1]]) THEN "build_empty"
                                                           ELSE "build">>}
         /\ s[2] = "source" =>
              DependsOn(s) = Stage(index[s[1]].source_package, "installation")
                \cup Stage(index[s[1]].source_source, "source")
         /\ s[2] \in {"build", "build_empty"} => DependsOn(s) = {<<s[1], "source">>}
<1> DEFINE i == index[s[1]]
           A == Stage(i.package_package, "installation")
                  \cup Stage(i.package_source, "source")
                  \cup {<<s[1], IF source_empty(i) THEN "build_empty" ELSE "build">>}
           B == Stage(i.source_package, "installation")
                  \cup Stage(i.source_source, "source")
           C == {<<s[1], "source">>}
<1>1. DependsOn(s) = CASE s[2] = "installation" -> A [] s[2] = "source" -> B
                       [] OTHER -> C
  BY Zenon DEF DependsOn
<1> HIDE DEF A, B, C
<1>2. /\ s[2] = "installation" => DependsOn(s) = A
      /\ s[2] = "source" => DependsOn(s) = B
      /\ s[2] \in {"build", "build_empty"} => DependsOn(s) = C
  BY <1>1
<1> QED BY <1>2 DEF A, B, C

(* The index of a visited package is that of its checksum. *)
LEMMA VisitedIndex ==
  ASSUME MetaInv, NEW p \in visited
  PROVE  /\ checksum[p] \in Checksums /\ index[p] = checksum[p].index
         /\ index[p] \in Indices
         /\ index[p].source_package \subseteq Packages
         /\ index[p].source_source \subseteq Packages
         /\ index[p].package_package \subseteq Packages
         /\ index[p].package_source \subseteq Packages
         /\ Needed(checksum, <<p, "source">>) =
              Stage(index[p].source_package, "installation")
                \cup Stage(index[p].source_source, "source")
         /\ Needed(checksum, <<p, "installation">>) =
              Stage(index[p].package_package, "installation")
                \cup Stage(index[p].package_source, "source")
                \cup {<<p, "source">>}
<1>1. checksum[p] \in Checksums /\ index[p] = checksum[p].index
  BY DEF MetaInv
<1>2. index[p] \in Indices
  BY <1>1 DEF Checksums
<1>3. /\ index[p].source_package \subseteq Packages
      /\ index[p].source_source \subseteq Packages
      /\ index[p].package_package \subseteq Packages
      /\ index[p].package_source \subseteq Packages
  BY <1>2 DEF Indices
<1>4. /\ Needed(checksum, <<p, "source">>) =
              Stage(index[p].source_package, "installation")
                \cup Stage(index[p].source_source, "source")
      /\ Needed(checksum, <<p, "installation">>) =
              Stage(index[p].package_package, "installation")
                \cup Stage(index[p].package_source, "source")
                \cup {<<p, "source">>}
  BY <1>1 DEF Needed
<1> QED BY <1>1, <1>2, <1>3, <1>4

(* What an installation that has been visited needs has been too. *)
LEMMA DoneInstallation ==
  ASSUME MetaInv, WalkInv, NEW p, <<p, "installation">> \in DOMAIN done
  PROVE  /\ <<p, "source">> \in DOMAIN done
         /\ \E k \in {"build", "build_empty"} : <<p, k>> \in DOMAIN done
<1> DEFINE k == IF source_empty(index[p]) THEN "build_empty" ELSE "build"
<1>1. <<p, k>> \in DOMAIN done
  BY DependsOnIs DEF WalkInv
<1>2. k \in {"build", "build_empty"}
  OBVIOUS
<1> HIDE DEF k
<1>3. <<p, "source">> \in DOMAIN done
  BY <1>1, <1>2, DependsOnIs DEF WalkInv
<1> QED BY <1>1, <1>2, <1>3

(* A stage is done after those that it needs. *)
LEMMA DoneNeeds ==
  ASSUME MetaInv, WalkInv, NEW x \in Items \cap DOMAIN done
  PROVE  Needed(checksum, x) \subseteq DOMAIN done /\ checksum[x[1]] \in Checksums
<1>1. x = <<x[1], x[2]>> /\ x[2] \in {"installation", "source"} /\ x[1] \in visited
  BY DEF Items, WalkInv, Proper
<1>2. DependsOn(x) \subseteq DOMAIN done
  BY DEF WalkInv
<1>3. CASE x[2] = "source"
  <2>1. x = <<x[1], "source">>
    BY <1>1, <1>3
  <2>2. Needed(checksum, x) = DependsOn(x)
    BY <1>1, <1>3, <2>1, DependsOnIs, VisitedIndex
  <2> QED BY <1>1, <1>2, <2>2, VisitedIndex
<1>4. CASE x[2] = "installation"
  <2>1. <<x[1], "source">> \in DOMAIN done
    BY <1>1, <1>4, DoneInstallation
  <2> QED BY <1>1, <1>2, <1>4, <2>1, DependsOnIs, VisitedIndex
<1> QED BY <1>1, <1>3, <1>4

(* And after all below it. *)
LEMMA DoneBelow ==
  ASSUME MetaInv, WalkInv, NEW x \in Items \cap DOMAIN done
  PROVE  Below(checksum, x) \subseteq DOMAIN done /\ Whole(checksum, x)
<1> DEFINE xs == Items \cap DOMAIN done
<1>1. Closed(checksum, xs)
  BY DoneNeeds, NeededAreItems DEF Closed
<1>2. Below(checksum, x) \subseteq xs
  BY <1>1, BelowLeast
<1> QED BY <1>2, DoneNeeds DEF Whole

(* The build next to an installation that has been visited. *)
LEMMA DoneBuild ==
  ASSUME MetaInv, WalkInv, DoneInv, NEW p \in Packages,
         <<p, "installation">> \in DOMAIN done
  PROVE  build[p].snapshot = Made(checksum, <<p, "source">>)
<1>1. PICK k \in {"build", "build_empty"} : <<p, k>> \in DOMAIN done
  BY DoneInstallation
<1>2. Good(<<p, k>>)
  BY <1>1 DEF DoneInv
<1> QED BY <1>2 DEF Good, Cached, Root

(* What a stage that is done has recorded is what it is made of. *)
LEMMA DoneMade ==
  ASSUME DoneInv, NEW x \in Items \cap DOMAIN done
  PROVE  /\ done[x].snapshot = Made(checksum, x)
         /\ x[2] = "source" => source[x[1]] = checksum[x[1]].source
         /\ x[2] = "installation" =>
              /\ installation[x[1]].archive # None
              /\ installation[x[1]].snapshot = Made(checksum, x)
              /\ ArchivesInv => installation[x[1]].archive = Made(checksum, x)
<1>1. Good(x) /\ (x[2] = "source" => x = <<x[1], "source">>)
  BY DEF DoneInv, Items
<1>2. x[2] = "installation" /\ ArchivesInv => installation[x[1]].archive = Made(checksum, x)
  BY DEF ArchivesInv, Cached, Root
<1> QED BY <1>1, <1>2 DEF Good, Cached, Root, Items

-----------------------------------------------------------------------------
(* What the builder extracts *)

LEMMA ExtractedIs ==
  ASSUME MetaInv, NEW q \in visited, source[q] = checksum[q].source
  PROVE  Extracted(q) = <<q, checksum[q]>>
<1>1. checksum[q] \in Checksums /\ index[q] = checksum[q].index
  BY VisitedIndex
<1>2. checksum[q] = [index |-> checksum[q].index, source |-> checksum[q].source]
  BY <1>1 DEF Checksums
<1> QED BY <1>1, <1>2 DEF Extracted

(* A tree of sources that has been visited. *)
LEMMA TreeDone ==
  ASSUME MetaInv, WalkInv, DoneInv, NEW p \in Packages,
         <<p, "source">> \in DOMAIN done
  PROVE  /\ p \in Tree(p) /\ Tree(p) \subseteq visited
         /\ \A q \in Tree(p) :
              /\ index[q].source_source \subseteq Tree(p)
              /\ <<q, "source">> \in DOMAIN done \cap Below(checksum, <<p, "source">>)
              /\ Extracted(q) = <<q, checksum[q]>>
<1> DEFINE x == <<p, "source">>
           D == {q \in visited : <<q, "source">> \in DOMAIN done \cap Below(checksum, x)}
<1>0. x \in Items \cap DOMAIN done /\ Below(checksum, x) \subseteq Items
  BY BelowClosed DEF Items
<1>1. p \in D
  BY <1>0, BelowClosed DEF WalkInv, Proper
<1>2. ASSUME NEW q \in D PROVE index[q].source_source \subseteq D
  <2>1. <<q, "source">> \in Items \cap DOMAIN done
    BY <1>0
  <2>2. Needed(checksum, <<q, "source">>) \subseteq DOMAIN done
    BY <2>1, DoneNeeds
  <2>3. Needed(checksum, <<q, "source">>) \subseteq Below(checksum, x)
    BY <1>0, BelowClosed DEF Closed
  <2>4. Stage(index[q].source_source, "source") \subseteq DOMAIN done \cap Below(checksum, x)
    BY <2>2, <2>3, VisitedIndex
  <2>5. ASSUME NEW r \in index[q].source_source PROVE r \in D
    <3>1. <<r, "source">> \in DOMAIN done \cap Below(checksum, x)
      BY <2>4 DEF Stage
    <3>2. <<r, "source">>[1] \in visited
      BY <3>1 DEF WalkInv, Proper
    <3> QED BY <3>1, <3>2
  <2> QED BY <2>5
<1>3. D \in SUBSET visited
  OBVIOUS
<1>4. Tree(p) \subseteq D
  BY <1>1, <1>2, <1>3 DEF Tree
<1>5. p \in Tree(p) /\ Tree(p) \subseteq visited
  BY <1>1, <1>3 DEF Tree
<1>6. ASSUME NEW q \in Tree(p), NEW r \in index[q].source_source
      PROVE  r \in Tree(p)
  <2>1. r \in visited
    BY <1>2, <1>3, <1>4
  <2>2. ASSUME NEW ps \in SUBSET visited, p \in ps,
               \A s \in ps : index[s].source_source \subseteq ps
        PROVE  r \in ps
    <3>1. q \in ps
      BY <2>2 DEF Tree
    <3> QED BY <2>2, <3>1
  <2> QED BY <2>1, <2>2 DEF Tree
<1>7. ASSUME NEW q \in Tree(p) PROVE Extracted(q) = <<q, checksum[q]>>
  <2>1. q \in visited /\ <<q, "source">> \in Items \cap DOMAIN done
    BY <1>0, <1>4
  <2>2. source[q] = checksum[q].source
    <3> DEFINE y == <<q, "source">>
    <3>1. y[1] = q /\ y[2] = "source"
      OBVIOUS
    <3> QED BY <2>1, <3>1, DoneMade
  <2> QED BY <2>1, <2>2, ExtractedIs
<1> QED BY <1>4, <1>5, <1>6, <1>7

(* What is imported into a tree that has been visited. *)
LEMMA ImportedDone ==
  ASSUME MetaInv, WalkInv, DoneInv, NEW p \in Packages,
         <<p, "source">> \in DOMAIN done, NEW q \in Imported(Tree(p))
  PROVE  /\ <<q, "installation">> \in Items \cap DOMAIN done
         /\ <<q, "installation">> \in Below(checksum, <<p, "source">>)
         /\ installation[q].archive # None
         /\ installation[q].snapshot = Made(checksum, <<q, "installation">>)
         /\ ArchivesInv =>
              installation[q].archive = Made(checksum, <<q, "installation">>)
<1> DEFINE x == <<p, "source">>
           z == <<q, "installation">>
<1>1. PICK r \in Tree(p) : q \in index[r].source_package
  BY DEF Imported
<1>2. r \in visited /\ <<r, "source">> \in DOMAIN done \cap Below(checksum, x)
  BY TreeDone
<1>3. z \in Needed(checksum, <<r, "source">>)
  <2>1. z \in Stage(index[r].source_package, "installation")
    BY <1>1 DEF Stage
  <2> QED BY <1>2, <2>1, VisitedIndex
<1>4. x \in Items
  BY DEF Items
<1>5. z \in Below(checksum, x) /\ <<r, "source">> \in Items
  BY <1>2, <1>3, <1>4, BelowClosed DEF Closed
<1>6. z \in Items \cap DOMAIN done
  BY <1>2, <1>3, <1>4, <1>5, BelowClosed, DoneNeeds
<1> QED BY <1>5, <1>6, DoneMade

(* The snapshot that the builder writes of the sources it extracts is what   *)
(* the package's sources are to be made of; so are the sources, if what is   *)
(* imported into them is.                                                    *)
LEMMA UnpackedIs ==
  ASSUME MetaInv, WalkInv, DoneInv, NEW p \in Packages,
         <<p, "source">> \in DOMAIN done
  PROVE  /\ ArchivesInv => UnpackedSource(p) = Made(checksum, <<p, "source">>)
         /\ SourceSnapshot(p) = Made(checksum, <<p, "source">>)
<1> DEFINE x == <<p, "source">>
           ImportedItems == {<<q, "installation">> : q \in Imported(Tree(p))}
           U == {<<q, checksum[q]>> : q \in Tree(p)}
                  \cup UNION {Made(checksum, z) : z \in ImportedItems}
           xs == {<<q, "source">> : q \in Tree(p)}
                   \cup UNION {Below(checksum, z) : z \in ImportedItems}
<1>0. x \in Items
  BY DEF Items
<1>1. ASSUME ArchivesInv PROVE UnpackedSource(p) = U
  <2>1. {Extracted(q) : q \in Tree(p)} = {<<q, checksum[q]>> : q \in Tree(p)}
    BY TreeDone
  <2>2. UNION {installation[q].archive : q \in Imported(Tree(p))}
          = UNION {Made(checksum, z) : z \in ImportedItems}
    BY <1>1, ImportedDone
  <2> QED BY <2>1, <2>2 DEF UnpackedSource
<1>2. SourceSnapshot(p) = U
  <2>1. UNION {installation[q].snapshot : q \in Imported(Tree(p))}
          = UNION {Made(checksum, z) : z \in ImportedItems}
    BY ImportedDone
  <2> QED BY <2>1 DEF SourceSnapshot
<1>3. U \subseteq Made(checksum, x)
  <2>1. ASSUME NEW q \in Tree(p) PROVE <<q, checksum[q]>> \in Made(checksum, x)
    <3>1. <<q, "source">> \in Below(checksum, x)
      BY TreeDone
    <3>2. <<q, "source">> \in Items
      BY <1>0, <3>1, BelowClosed
    <3>3. q \in Origins(checksum, x)
      BY <3>1, <3>2 DEF Origins, Items
    <3> QED BY <3>3 DEF Made
  <2>2. ASSUME NEW z \in ImportedItems PROVE Made(checksum, z) \subseteq Made(checksum, x)
    BY <1>0, ImportedDone, MadeBelow
  <2> QED BY <2>1, <2>2
<1>4. \A z \in ImportedItems : z \in Below(checksum, z) /\ z \in Items
                               /\ Below(checksum, z) \subseteq Items
                               /\ Closed(checksum, Below(checksum, z))
  BY ImportedDone, BelowClosed
<1>5. xs \in SUBSET Items /\ x \in xs
  BY <1>4, TreeDone, BelowClosed, <1>0
<1>6. Closed(checksum, xs)
  <2>1. ASSUME NEW q \in Tree(p) PROVE Needed(checksum, <<q, "source">>) \subseteq xs
    <3>1. q \in visited /\ index[q].source_source \subseteq Tree(p)
      BY TreeDone
    <3>2. Stage(index[q].source_source, "source") \subseteq xs
      BY <3>1 DEF Stage
    <3>3. Stage(index[q].source_package, "installation") \subseteq ImportedItems
      BY DEF Stage, Imported
    <3> QED BY <1>4, <3>1, <3>2, <3>3, VisitedIndex
  <2>2. ASSUME NEW z \in ImportedItems, NEW y \in Below(checksum, z)
        PROVE  Needed(checksum, y) \subseteq xs
    BY <1>4 DEF Closed
  <2> QED BY <2>1, <2>2 DEF Closed
<1>7. Below(checksum, x) \subseteq xs
  BY <1>5, <1>6, BelowLeast
<1>8. Made(checksum, x) \subseteq U
  <2>1. ASSUME NEW q \in Origins(checksum, x) PROVE <<q, checksum[q]>> \in U
    <3>1. <<q, "source">> \in xs /\ q \in Packages
      BY <1>7 DEF Origins
    <3>2. CASE q \in Tree(p)
      BY <3>2
    <3>3. ASSUME NEW z \in ImportedItems, <<q, "source">> \in Below(checksum, z)
          PROVE  <<q, checksum[q]>> \in U
      BY <3>1, <3>3 DEF Made, Origins
    <3> QED BY <3>1, <3>2, <3>3
  <2> QED BY <2>1 DEF Made
<1> QED BY <1>1, <1>2, <1>3, <1>8

-----------------------------------------------------------------------------
(* The stage on the top of the stack, when all it depends on has been visited *)

TopReady ==
  /\ phase \in {"build", "packed"} /\ DependsOn(Top) \subseteq DOMAIN done
  /\ stack \in Seq(Stages) /\ MetaInv /\ WalkInv /\ DoneInv

(* The stage on top of the stack is the one worked on. *)
LEMMA TopIs ==
  ASSUME MetaInv, WalkInv, phase \in {"build", "packed", "asserted"}, stack \in Seq(Stages)
  PROVE  /\ Proper(Top) /\ ~Visited(Top) /\ Top[1] \in Packages
         /\ Top = <<Top[1], Top[2]>>
         /\ Top[2] \in {"installation", "build", "build_empty", "source"}
         /\ Len(stack) \in DOMAIN stack
<1>1. Len(stack) \in DOMAIN stack
  BY DEF WalkInv
<1>2. Proper(Top) /\ ~Visited(Top)
  BY <1>1 DEF WalkInv, Top
<1> QED BY <1>1, <1>2 DEF Proper, Stages

(* The expected snapshot, gathered from what Top depends on. *)
LEMMA DependsSnapshotIs ==
  ASSUME TopReady
  PROVE  /\ Top[2] = "source" =>
              DependsSnapshot \cup {<<Top[1], checksum[Top[1]]>>} = Made(checksum, Top)
         /\ Top[2] # "source" => DependsSnapshot = Made(checksum, Root(Top))
<1> USE DEF TopReady
<1> DEFINE p == Top[1]
           x == <<p, "source">>
           y == <<p, "installation">>
<1>1. /\ Proper(Top) /\ p \in Packages /\ p \in visited /\ Top = <<p, Top[2]>>
      /\ Top[2] \in {"installation", "build", "build_empty", "source"}
      /\ DependsOn(Top) \subseteq DOMAIN done
  BY TopIs DEF Proper
<1>2. x \in Items /\ y \in Items
  BY <1>1 DEF Items
<1>3. /\ Needed(checksum, x) = Stage(index[p].source_package, "installation")
                                 \cup Stage(index[p].source_source, "source")
      /\ Needed(checksum, y) = Stage(index[p].package_package, "installation")
                                 \cup Stage(index[p].package_source, "source")
                                 \cup {x}
  BY <1>1, VisitedIndex
<1>4. Needed(checksum, x) \subseteq Items /\ Needed(checksum, y) \subseteq Items
  BY <1>2, NeededAreItems
<1>5. CASE Top[2] = "source"
  <2>1. Top = x
    BY <1>1, <1>5
  <2>2. DependsOn(Top) = Needed(checksum, x)
    BY <1>3, <1>5, DependsOnIs
  <2>3. \A s \in DependsOn(Top) : done[s].snapshot = Made(checksum, s)
    BY <1>1, <1>4, <2>2, DoneMade
  <2>4. DependsSnapshot = UNION {Made(checksum, s) : s \in Needed(checksum, x)}
    BY <2>2, <2>3 DEF DependsSnapshot
  <2>5. Made(checksum, x) = {<<p, checksum[p]>>}
                              \cup UNION {Made(checksum, s) : s \in Needed(checksum, x)}
    BY <1>2, MadeUnfold
  <2> QED BY <1>5, <2>1, <2>4, <2>5
<1>6. CASE Top[2] \in {"build", "build_empty"}
  <2>1. DependsOn(Top) = {x} /\ Root(Top) = x
    BY <1>6, DependsOnIs DEF Root
  <2>2. done[x].snapshot = Made(checksum, x)
    BY <1>1, <1>2, <2>1, DoneMade
  <2>3. DependsSnapshot = done[x].snapshot
    BY <2>1 DEF DependsSnapshot
  <2> QED BY <1>6, <2>1, <2>2, <2>3
<1>7. CASE Top[2] = "installation"
  <2> DEFINE k == IF source_empty(index[p]) THEN "build_empty" ELSE "build"
             Z == Stage(index[p].package_package, "installation")
                    \cup Stage(index[p].package_source, "source")
  <2>1. Top = y /\ Root(Top) = y
    BY <1>1, <1>7 DEF Root
  <2>2. DependsOn(Top) = Z \cup {<<p, k>>}
    BY <1>7, DependsOnIs
  <2>3. Needed(checksum, y) = Z \cup {x}
    BY <1>3
  <2>4. k \in {"build", "build_empty"}
    OBVIOUS
  <2> HIDE DEF k, Z
  <2>5. done[<<p, k>>].snapshot = Made(checksum, x)
    <3>1. Good(<<p, k>>)
      BY <1>1, <2>2 DEF DoneInv
    <3> QED BY <2>4, <3>1 DEF Good, Root
  <2>6. \A s \in Z : done[s].snapshot = Made(checksum, s)
    BY <1>1, <1>4, <2>2, <2>3, DoneMade
  <2>7. DependsSnapshot = UNION {Made(checksum, s) : s \in Z \cup {x}}
    <3> DEFINE K == <<p, k>>
    <3>1. \A e : e \in DependsSnapshot <=> \E s \in DependsOn(Top) : e \in done[s].snapshot
      BY DEF DependsSnapshot
    <3>2. DependsOn(Top) = Z \cup {K} /\ done[K].snapshot = Made(checksum, x)
      BY <2>2, <2>5
    <3> HIDE DEF K
    <3>3. \A e : e \in DependsSnapshot <=> \E s \in Z \cup {x} : e \in Made(checksum, s)
      BY <2>6, <3>1, <3>2
    <3>4. DependsSnapshot = UNION {done[s].snapshot : s \in DependsOn(Top)}
      BY DEF DependsSnapshot
    <3> QED BY <3>3, <3>4
  <2>8. Made(checksum, y) = UNION {Made(checksum, s) : s \in Z \cup {x}}
    <3>1. y[2] # "source"
      OBVIOUS
    <3> QED BY <1>2, <2>3, <3>1, MadeUnfold
  <2> QED BY <1>7, <2>1, <2>7, <2>8
<1> QED BY <1>1, <1>5, <1>6, <1>7

(* What each kind of stage packs, and its snapshot. *)
LEMMA ContentCases ==
  ASSUME NEW s
  PROVE  /\ s[2] = "build" => /\ Content(s) = UnpackedSource(s[1])
                              /\ SnapshotOf(s) = SourceSnapshot(s[1])
         /\ s[2] = "build_empty" => /\ Content(s) = {Extracted(s[1])}
                                    /\ SnapshotOf(s) = {<<s[1], checksum[s[1]]>>}
         /\ s[2] = "installation" =>
              /\ Content(s) = build[s[1]].archive \cup {Extracted(s[1])}
                   \cup (UNION {UnpackedSource(q) : q \in index[s[1]].package_source})
                   \cup (UNION {installation[q].archive : q \in index[s[1]].package_package})
              /\ SnapshotOf(s) = build[s[1]].snapshot
                   \cup (UNION {SourceSnapshot(q) : q \in index[s[1]].package_source})
                   \cup (UNION {installation[q].snapshot : q \in index[s[1]].package_package})
<1> DEFINE p == s[1]
           A == UnpackedSource(p)
           B == {Extracted(p)}
           C == build[p].archive \cup {Extracted(p)}
                   \cup (UNION {UnpackedSource(q) : q \in index[p].package_source})
                   \cup (UNION {installation[q].archive : q \in index[p].package_package})
           D == SourceSnapshot(p)
           E == {<<p, checksum[p]>>}
           F == build[p].snapshot
                   \cup (UNION {SourceSnapshot(q) : q \in index[p].package_source})
                   \cup (UNION {installation[q].snapshot : q \in index[p].package_package})
<1>1. Content(s) = CASE s[2] = "build" -> A [] s[2] = "build_empty" -> B
                     [] s[2] = "installation" -> C
  BY Zenon DEF Content
<1>2. SnapshotOf(s) = CASE s[2] = "build" -> D [] s[2] = "build_empty" -> E
                     [] s[2] = "installation" -> F
  BY Zenon DEF SnapshotOf
<1> HIDE DEF A, B, C, D, E, F
<1>3. /\ s[2] = "build" => Content(s) = A
      /\ s[2] = "build_empty" => Content(s) = B
      /\ s[2] = "installation" => Content(s) = C
  BY <1>1
<1>4. /\ s[2] = "build" => SnapshotOf(s) = D
      /\ s[2] = "build_empty" => SnapshotOf(s) = E
      /\ s[2] = "installation" => SnapshotOf(s) = F
  BY <1>2
<1> QED BY Zenon, <1>3, <1>4 DEF A, B, C, D, E, F

(* The sources of the package that is built are done. *)
LEMMA SourceOfTop ==
  ASSUME TopReady, Top[2] # "source"
  PROVE  <<Top[1], "source">> \in DOMAIN done
<1> USE DEF TopReady
<1> DEFINE p == Top[1]
           x == <<p, "source">>
<1>1. Top[2] \in {"installation", "build", "build_empty"}
      /\ DependsOn(Top) \subseteq DOMAIN done
  BY TopIs
<1>2. CASE Top[2] \in {"build", "build_empty"}
  BY <1>1, <1>2, DependsOnIs
<1>3. CASE Top[2] = "installation"
  <2> DEFINE k == IF source_empty(index[p]) THEN "build_empty" ELSE "build"
  <2>1. <<p, k>> \in DOMAIN done
    BY <1>1, <1>3, DependsOnIs
  <2>2. k \in {"build", "build_empty"}
    OBVIOUS
  <2> HIDE DEF k
  <2>3. DependsOn(<<p, k>>) = {x}
    BY <2>2, DependsOnIs
  <2> QED BY <2>1, <2>3 DEF WalkInv
<1> QED BY <1>1, <1>2, <1>3

(* The snapshot that the builder writes is what is expected; what it makes   *)
(* is too, if what it makes it of is.                                        *)
LEMMA ContentIs ==
  ASSUME TopReady, Top[2] # "source"
  PROVE  /\ ArchivesInv => Content(Top) = Made(checksum, Root(Top))
         /\ SnapshotOf(Top) = Made(checksum, Root(Top))
<1> USE DEF TopReady
<1> DEFINE p == Top[1]
           x == <<p, "source">>
           y == <<p, "installation">>
<1>1. /\ Proper(Top) /\ p \in Packages /\ p \in visited /\ Top = <<p, Top[2]>>
      /\ Top[2] \in {"installation", "build", "build_empty"}
      /\ DependsOn(Top) \subseteq DOMAIN done
  BY TopIs DEF Proper
<1>2. x \in Items /\ y \in Items
  BY <1>1 DEF Items
<1>3. x \in DOMAIN done
  BY SourceOfTop
<1>4. /\ ArchivesInv => UnpackedSource(p) = Made(checksum, x)
      /\ SourceSnapshot(p) = Made(checksum, x)
  BY <1>1, <1>3, UnpackedIs
<1>5. Extracted(p) = <<p, checksum[p]>> /\ <<p, checksum[p]>> \in Made(checksum, x)
  <2>1. source[p] = checksum[p].source
    BY <1>2, <1>3, DoneMade
  <2>2. <<p, checksum[p]>> \in Made(checksum, x)
    BY <1>1, <1>2, BelowClosed DEF Made, Origins
  <2> QED BY <1>1, <2>1, <2>2, ExtractedIs
<1>6. CASE Top[2] = "build"
  BY <1>4, <1>6, ContentCases DEF Root
<1>7. CASE Top[2] = "build_empty"
  <2>1. index[p].source_package = {} /\ index[p].source_source = {}
    BY <1>1, <1>7 DEF Proper, source_empty
  <2>2. Needed(checksum, x) = {}
    <3>1. Stage({}, "installation") = {} /\ Stage({}, "source") = {}
      BY DEF Stage
    <3> QED BY <1>1, <2>1, <3>1, VisitedIndex
  <2>3. Made(checksum, x) = {<<p, checksum[p]>>}
    BY <1>2, <2>2, MadeUnfold
  <2> QED BY <1>5, <1>7, <2>3, ContentCases DEF Root
<1>8. CASE Top[2] = "installation"
  <2> DEFINE k == IF source_empty(index[p]) THEN "build_empty" ELSE "build"
             P == index[p].package_package
             S == index[p].package_source
  <2>1. Root(Top) = y
    BY <1>1, <1>8 DEF Root
  <2>2. /\ Stage(P, "installation") \cup Stage(S, "source") \cup {<<p, k>>}
             \subseteq DOMAIN done
        /\ P \subseteq Packages /\ S \subseteq Packages
        /\ Needed(checksum, y) = Stage(P, "installation") \cup Stage(S, "source") \cup {x}
    BY <1>1, <1>8, DependsOnIs, VisitedIndex
  <2>3. k \in {"build", "build_empty"}
    OBVIOUS
  <2> HIDE DEF k, P, S
  <2>4. /\ ArchivesInv => build[p].archive = Made(checksum, x)
        /\ build[p].snapshot = Made(checksum, x)
    <3> DEFINE K == <<p, k>>
    <3>1. Good(K) /\ K \in DOMAIN done /\ K[1] = p /\ K[2] = k
      BY <2>2 DEF DoneInv
    <3> HIDE DEF K
    <3> QED BY <2>3, <3>1 DEF Good, Cached, Root, ArchivesInv
  <2>5. ASSUME NEW q \in S
        PROVE  /\ ArchivesInv => UnpackedSource(q) = Made(checksum, <<q, "source">>)
               /\ SourceSnapshot(q) = Made(checksum, <<q, "source">>)
    BY <2>2, UnpackedIs DEF Stage
  <2>6. ASSUME NEW q \in P
        PROVE  /\ installation[q].snapshot = Made(checksum, <<q, "installation">>)
               /\ ArchivesInv =>
                    installation[q].archive = Made(checksum, <<q, "installation">>)
    <3> DEFINE z == <<q, "installation">>
    <3>1. z \in Items \cap DOMAIN done /\ z[1] = q /\ z[2] = "installation"
      BY <2>2 DEF Stage, Items
    <3> QED BY <3>1, DoneMade
  <2>7. \A e : e \in Made(checksum, y) <=>
                 \/ e \in Made(checksum, x)
                 \/ \E q \in S : e \in Made(checksum, <<q, "source">>)
                 \/ \E q \in P : e \in Made(checksum, <<q, "installation">>)
    <3>1. Made(checksum, y) = UNION {Made(checksum, z) : z \in Needed(checksum, y)}
      BY <1>2, MadeUnfold
    <3>2. \A e : e \in Made(checksum, y) <=>
                   \E z \in Needed(checksum, y) : e \in Made(checksum, z)
      BY <3>1
    <3> QED BY <2>2, <3>2 DEF Stage
  <2>8. Made(checksum, y) = Made(checksum, x)
                     \cup (UNION {Made(checksum, <<q, "source">>) : q \in S})
                     \cup (UNION {Made(checksum, <<q, "installation">>) : q \in P})
    <3>1. Made(checksum, y) = UNION {Made(checksum, z) : z \in Needed(checksum, y)}
      BY <1>2, MadeUnfold
    <3> QED BY <2>7, <3>1
  <2>9. ASSUME ArchivesInv
        PROVE  Content(Top) = Made(checksum, x) \cup {Extracted(p)}
                 \cup (UNION {Made(checksum, <<q, "source">>) : q \in S})
                 \cup (UNION {Made(checksum, <<q, "installation">>) : q \in P})
    <3>1. UNION {UnpackedSource(q) : q \in S}
            = UNION {Made(checksum, <<q, "source">>) : q \in S}
      BY <2>5, <2>9
    <3>2. UNION {installation[q].archive : q \in P}
            = UNION {Made(checksum, <<q, "installation">>) : q \in P}
      BY <2>6, <2>9
    <3>3. Content(Top) = build[p].archive \cup {Extracted(p)}
                           \cup (UNION {UnpackedSource(q) : q \in S})
                           \cup (UNION {installation[q].archive : q \in P})
      BY <1>8, ContentCases DEF P, S
    <3> QED BY <2>4, <2>9, <3>1, <3>2, <3>3
  <2>10. SnapshotOf(Top) = Made(checksum, x)
                         \cup (UNION {Made(checksum, <<q, "source">>) : q \in S})
                         \cup (UNION {Made(checksum, <<q, "installation">>) : q \in P})
    <3>1. UNION {SourceSnapshot(q) : q \in S}
            = UNION {Made(checksum, <<q, "source">>) : q \in S}
      BY <2>5
    <3>2. UNION {installation[q].snapshot : q \in P}
            = UNION {Made(checksum, <<q, "installation">>) : q \in P}
      BY <2>6
    <3>3. SnapshotOf(Top) = build[p].snapshot
                           \cup (UNION {SourceSnapshot(q) : q \in S})
                           \cup (UNION {installation[q].snapshot : q \in P})
      BY <1>8, ContentCases DEF P, S
    <3> QED BY <2>4, <3>1, <3>2, <3>3
  <2> QED BY <1>5, <2>1, <2>8, <2>9, <2>10
<1> QED BY <1>1, <1>6, <1>7, <1>8

(* The property's closure is this one, once all indices have been visited.   *)
LEMMA MadeOfIs ==
  ASSUME MetaInv, todo = {}, visited \subseteq Packages, NEW p \in visited
  PROVE  MadeOf(p) = Origins(checksum, <<p, "installation">>)
<1> DEFINE y == <<p, "installation">>
           V == visited \X {"installation", "source"}
           Needs(x) == LET i == index[x[1]] IN
              IF x[2] = "source"
                THEN Stage(i.source_package, "installation")
                       \cup Stage(i.source_source, "source")
                ELSE Stage(i.package_package, "installation")
                       \cup Stage(i.package_source, "source")
                       \cup {<<x[1], "source">>}
<1>1. y \in V /\ V \subseteq Items /\ y \in Items
  BY DEF Items
<1>2. ASSUME NEW x \in V PROVE Needs(x) = Needed(checksum, x)
  BY VisitedIndex DEF Needed
<1>3. ASSUME NEW x \in V PROVE Needed(checksum, x) \subseteq V
  <2>1. x[1] \in visited /\ x[2] \in {"installation", "source"} /\ x = <<x[1], x[2]>>
    OBVIOUS
  <2>2. imports(index[x[1]]) \subseteq visited
    BY <2>1 DEF MetaInv
  <2>3. /\ index[x[1]].source_package \subseteq visited
        /\ index[x[1]].source_source \subseteq visited
        /\ index[x[1]].package_package \subseteq visited
        /\ index[x[1]].package_source \subseteq visited
    BY <2>2 DEF imports
  <2>4. Needs(x) \subseteq V
    BY <2>1, <2>3 DEF Stage
  <2> QED BY <1>2, <2>4
<1>4. Closed(checksum, V)
  BY <1>3 DEF Closed
<1>5. Below(checksum, y) \subseteq V
  BY <1>1, <1>4, BelowLeast
<1>6. MadeOf(p) = {q \in visited : \A xs \in SUBSET V :
                     y \in xs /\ (\A x \in xs : Needs(x) \subseteq xs)
                       => <<q, "source">> \in xs}
  BY DEF MadeOf
<1> HIDE DEF Needs
<1>7. ASSUME NEW q \in MadeOf(p) PROVE q \in Origins(checksum, y)
  <2>1. /\ Below(checksum, y) \in SUBSET V /\ y \in Below(checksum, y)
        /\ \A x \in Below(checksum, y) : Needs(x) \subseteq Below(checksum, y)
    BY <1>1, <1>2, <1>5, BelowClosed DEF Closed
  <2>2. q \in visited /\ <<q, "source">> \in Below(checksum, y)
    BY <1>6, <2>1
  <2> QED BY <2>2 DEF Origins
<1>8. ASSUME NEW q \in Origins(checksum, y) PROVE q \in MadeOf(p)
  <2>1. <<q, "source">> \in Below(checksum, y) /\ q \in visited
    <3>1. <<q, "source">> \in Below(checksum, y)
      BY DEF Origins
    <3> QED BY <1>5, <3>1
  <2>2. ASSUME NEW xs \in SUBSET V, y \in xs, \A x \in xs : Needs(x) \subseteq xs
        PROVE  <<q, "source">> \in xs
    <3>1. xs \in SUBSET Items /\ Closed(checksum, xs)
      BY <1>1, <1>2, <2>2 DEF Closed
    <3>2. Below(checksum, y) \subseteq xs
      BY <2>2, <3>1, BelowLeast
    <3> QED BY <2>1, <3>2
  <2> QED BY <1>6, <2>1, <2>2
<1>9. MadeOf(p) \subseteq visited
  BY <1>6
<1> QED BY <1>7, <1>8

(* What is made of releases is no missing or torn file. *)
LEMMA ReleasedTyped ==
  /\ Released \subseteq Packages \X Checksums
  /\ \A e \in SUBSET Released : e \notin {None, Torn}
<1>1. \A p \in Packages : \A n \in DOMAIN Releases[p] : Releases[p][n] \in Checksums
  BY ReleasesAssumption
<1> QED BY <1>1, ReleasesAssumption DEF Released

(* The checksums fetched have been released. *)
LEMMA ChecksumReleased ==
  ASSUME RemoteInv, OlderInv, NEW q \in Packages, checksum[q] \in Checksums
  PROVE  <<q, checksum[q]>> \in Released
<1>1. checksum[q] # None
  BY AbsentAssumption
<1>2. PICK k \in 1..remote[q].checksum : checksum[q] = Releases[q][k]
  BY <1>1 DEF OlderInv, ReleasedBy
<1>3. Releases[q] \in Seq(Checksums)
  BY ReleasesAssumption
<1>4. /\ remote[q].checksum \in Nat /\ remote[q].source \in Nat
      /\ remote[q].index \in Nat /\ remote[q].checksum <= remote[q].source
      /\ remote[q].source <= remote[q].index /\ remote[q].index <= Len(Releases[q])
  BY DEF RemoteInv, Published
<1>5. k \in DOMAIN Releases[q]
  BY <1>2, <1>3, <1>4
<1> QED BY <1>2, <1>5 DEF Released

(* No file that is missing or torn is a snapshot of releases. *)
LEMMA MadeIsNoFile ==
  ASSUME RemoteInv, OlderInv, NEW x \in Items, Whole(checksum, x)
  PROVE  Made(checksum, x) \in SUBSET Released /\ Made(checksum, x) \notin {None, Torn}
<1>1. ASSUME NEW q \in Origins(checksum, x) PROVE <<q, checksum[q]>> \in Released
  <2>1. q \in Packages /\ <<q, "source">> \in Below(checksum, x)
    BY DEF Origins
  <2> QED BY <2>1, ChecksumReleased DEF Whole
<1> QED BY <1>1, ReleasedTyped DEF Made

(* Sources that are unpacked are of releases, if no archive is torn. *)
LEMMA SourceReleased ==
  ASSUME MetaInv, WalkInv, DoneInv, RemoteInv, OlderInv, EntryTypes, ArchivesReleased,
         NEW p \in Packages, <<p, "source">> \in DOMAIN done,
         \A q \in Imported(Tree(p)) : installation[q].archive # Torn
  PROVE  UnpackedSource(p) \subseteq Released
<1>1. ASSUME NEW q \in Tree(p) PROVE Extracted(q) \in Released
  <2>1. /\ q \in visited /\ Extracted(q) = <<q, checksum[q]>>
        /\ <<q, "source">> \in DOMAIN done
    BY TreeDone
  <2>2. <<q, "source">>[1] \in Packages
    BY <2>1 DEF WalkInv, Proper, Stages
  <2> QED BY <2>1, <2>2, VisitedIndex, ChecksumReleased
<1>2. ASSUME NEW q \in Imported(Tree(p)) PROVE installation[q].archive \subseteq Released
  <2> DEFINE z == <<q, "installation">>
  <2>1. z \in Items /\ installation[q].archive \notin {None, Torn}
    BY ImportedDone
  <2>2. EntryOf(z) = installation[q]
    BY DEF EntryOf
  <2> QED BY <2>1, <2>2 DEF ArchivesReleased
<1> QED BY <1>1, <1>2 DEF UnpackedSource

(* What each kind of stage unpacks. *)
LEMMA UnpackedCases ==
  ASSUME NEW s
  PROVE  /\ s[2] = "build" =>
              Unpacked(s) = {installation[q].archive : q \in Imported(Tree(s[1]))}
         /\ s[2] = "installation" =>
              Unpacked(s) = {build[s[1]].archive} \cup
                {installation[q].archive :
                   q \in Imported(UNION {Tree(q) : q \in index[s[1]].package_source})
                           \cup index[s[1]].package_package}
<1> DEFINE p == s[1]
           T == IF s[2] = "build" THEN Tree(p)
                  ELSE UNION {Tree(q) : q \in index[p].package_source}
           A == {installation[q].archive : q \in Imported(T)}
           C == {build[p].archive} \cup
                {installation[q].archive : q \in Imported(T) \cup index[p].package_package}
<1>1. Unpacked(s) = CASE s[2] = "build" -> A [] s[2] = "build_empty" -> {}
                      [] s[2] = "installation" -> C
  BY Zenon DEF Unpacked
<1> HIDE DEF A, C
<1>2. /\ s[2] = "build" => Unpacked(s) = A
      /\ s[2] = "installation" => Unpacked(s) = C
  BY <1>1
<1>3. /\ s[2] = "build" => T = Tree(p)
      /\ s[2] = "installation" => T = UNION {Tree(q) : q \in index[p].package_source}
  OBVIOUS
<1> HIDE DEF T
<1> QED BY <1>2, <1>3 DEF A, C

(* What a build packs is made of releases, if no archive it extracts is torn. *)
LEMMA ContentReleased ==
  ASSUME TopReady, RemoteInv, OlderInv, EntryTypes, ArchivesReleased,
         Top[2] # "source", Torn \notin Unpacked(Top)
  PROVE  Content(Top) \in SUBSET Released
<1> USE DEF TopReady
<1> DEFINE p == Top[1]
           x == <<p, "source">>
<1>1. /\ Proper(Top) /\ p \in Packages /\ p \in visited /\ Top = <<p, Top[2]>>
      /\ Top[2] \in {"installation", "build", "build_empty"}
      /\ DependsOn(Top) \subseteq DOMAIN done
  BY TopIs DEF Proper
<1>2. x \in DOMAIN done /\ x \in Items
  BY <1>1, SourceOfTop DEF Items
<1>3. Extracted(p) \in Released
  <2>1. source[p] = checksum[p].source
    BY <1>2, DoneMade
  <2> QED BY <1>1, <2>1, ExtractedIs, VisitedIndex, ChecksumReleased
<1>4. CASE Top[2] = "build"
  <2>1. \A q \in Imported(Tree(p)) : installation[q].archive # Torn
    BY <1>4, UnpackedCases
  <2> QED BY <1>1, <1>2, <1>4, <2>1, SourceReleased, ContentCases
<1>5. CASE Top[2] = "build_empty"
  BY <1>3, <1>5, ContentCases
<1>6. CASE Top[2] = "installation"
  <2> DEFINE k == IF source_empty(index[p]) THEN "build_empty" ELSE "build"
             P == index[p].package_package
             S == index[p].package_source
  <2>1. /\ Stage(P, "installation") \cup Stage(S, "source") \cup {<<p, k>>}
             \subseteq DOMAIN done
        /\ P \subseteq Packages /\ S \subseteq Packages
    BY <1>1, <1>6, DependsOnIs, VisitedIndex
  <2>2. k \in {"build", "build_empty"}
    OBVIOUS
  <2>3. /\ Unpacked(Top) = {build[p].archive} \cup
               {installation[q].archive : q \in Imported(UNION {Tree(q) : q \in S}) \cup P}
        /\ Content(Top) = build[p].archive \cup {Extracted(p)}
             \cup (UNION {UnpackedSource(q) : q \in S})
             \cup (UNION {installation[q].archive : q \in P})
    BY <1>6, UnpackedCases, ContentCases
  <2> HIDE DEF k, P, S
  <2>4. build[p].archive \subseteq Released
    <3> DEFINE K == <<p, k>>
    <3>1. Good(K) /\ K[1] = p /\ K[2] = k
      BY <2>1 DEF DoneInv
    <3> HIDE DEF K
    <3>2. build[p].archive \notin {None, Torn}
      BY <2>2, <2>3, <3>1 DEF Good, Cached
    <3>3. EntryOf(x) = build[p]
      BY DEF EntryOf
    <3> QED BY <1>2, <3>2, <3>3 DEF ArchivesReleased
  <2>5. ASSUME NEW q \in S PROVE UnpackedSource(q) \subseteq Released
    <3>1. <<q, "source">> \in DOMAIN done /\ q \in Packages
      BY <2>1 DEF Stage
    <3>2. Imported(Tree(q)) \subseteq Imported(UNION {Tree(r) : r \in S})
      BY DEF Imported
    <3>3. \A r \in Imported(Tree(q)) : installation[r].archive # Torn
      BY <2>3, <3>2
    <3> QED BY <3>1, <3>3, SourceReleased
  <2>6. ASSUME NEW q \in P PROVE installation[q].archive \subseteq Released
    <3> DEFINE z == <<q, "installation">>
    <3>1. z \in Items \cap DOMAIN done /\ z[1] = q /\ z[2] = "installation"
      BY <2>1 DEF Stage, Items
    <3>2. installation[q].archive \notin {None, Torn}
      BY <2>3, <3>1, DoneMade
    <3>3. EntryOf(z) = installation[q]
      BY DEF EntryOf
    <3> QED BY <3>1, <3>2, <3>3 DEF ArchivesReleased
  <2> QED BY <1>3, <2>3, <2>4, <2>5, <2>6
<1> QED BY <1>1, <1>4, <1>5, <1>6

(* What has taken in the stage on the top has not been visited. *)
LEMMA AboveNotDone ==
  ASSUME TopReady, NEW x \in Items, Above(x, Top) \/ x = Root(Top), Top[2] # "source"
  PROVE  NotDone(x)
<1> USE DEF TopReady
<1> DEFINE p == Top[1]
           y == <<p, "installation">>
<1>1. /\ Proper(Top) /\ p \in Packages /\ Top = <<p, Top[2]>> /\ Top \notin DOMAIN done
      /\ Top[2] \in {"installation", "build", "build_empty"}
  BY TopIs DEF Visited
<1>2. y \in Items
  BY <1>1 DEF Items
(* Only one of the two builds of a package is proper. *)
<1>3. ASSUME NEW k \in {"build", "build_empty"}, <<p, k>> \in DOMAIN done,
             Top[2] # "installation"
      PROVE  FALSE
  <2>1. Proper(<<p, k>>)
    BY <1>3 DEF WalkInv
  <2>2. k = Top[2]
    BY <1>1, <1>3, <2>1 DEF Proper
  <2> QED BY <1>1, <1>3, <2>2
<1>4. y \notin DOMAIN done
  BY <1>1, <1>3, DoneInstallation
<1>5. CASE Above(x, Top)
  <2>1. y \in Below(checksum, x)
    BY <1>1, <1>5 DEF Above
  <2>2. x \notin DOMAIN done
    BY <1>4, <2>1, DoneBelow
  <2>3. ASSUME x[2] = "source", NEW s \in DOMAIN done, s[1] = x[1],
               s[2] \in {"build", "build_empty"}
        PROVE  FALSE
    <3>1. x = <<s[1], "source">>
      BY <2>3 DEF Items
    <3>2. x \in DOMAIN done
      BY <2>3, <3>1, DependsOnIs DEF WalkInv
    <3> QED BY <2>2, <3>2
  <2> QED BY <2>2, <2>3 DEF NotDone, Items
<1>6. CASE x = Root(Top)
  <2>1. CASE Top[2] = "installation"
    BY <1>1, <1>6, <2>1 DEF NotDone, Root
  <2>2. CASE Top[2] # "installation"
    <3>1. x[1] = p /\ x[2] = "source"
      BY <1>6, <2>2 DEF Root
    <3>2. ASSUME NEW s \in DOMAIN done, s[1] = p, s[2] \in {"build", "build_empty"}
          PROVE  FALSE
      <4>1. s = <<p, s[2]>>
        BY <3>2 DEF WalkInv, Proper, Stages
      <4> QED BY <1>3, <2>2, <3>2, <4>1
    <3> QED BY <3>1, <3>2 DEF NotDone
  <2> QED BY <2>1, <2>2
<1> QED BY <1>5, <1>6

(* The stage on top stands for an item, whose needs are done. *)
LEMMA RootIs ==
  ASSUME TopReady
  PROVE  /\ Root(Top) \in Items /\ Cached(Top) = EntryOf(Root(Top))
         /\ Root(Top)[1] = Top[1] /\ Whole(checksum, Root(Top))
         /\ Needed(checksum, Root(Top)) \subseteq DOMAIN done
<1> USE DEF TopReady
<1> DEFINE p == Top[1]
<1>1. /\ Proper(Top) /\ p \in Packages /\ Top = <<p, Top[2]>>
      /\ Top[2] \in {"installation", "build", "build_empty", "source"}
  BY TopIs
<1>2. Root(Top) \in Items /\ Cached(Top) = EntryOf(Root(Top)) /\ Root(Top)[1] = p
  BY <1>1 DEF Root, Items, Cached, EntryOf
<1>3. ASSUME NEW z \in Needed(checksum, Root(Top)) PROVE z \in DOMAIN done
  <2>1. CASE Top[2] = "source"
    <3>1. Root(Top) = <<p, "source">>
      BY <1>1, <2>1 DEF Root
    <3>2. z \in DependsOn(Top)
      BY <1>1, <1>3, <2>1, <3>1, DependsOnIs, VisitedIndex DEF Proper
    <3> QED BY <3>2
  <2>2. CASE Top[2] \in {"build", "build_empty"}
    <3>1. Root(Top) = <<p, "source">> /\ <<p, "source">> \in DOMAIN done
      BY <1>1, <2>2, DependsOnIs DEF Root
    <3>2. <<p, "source">> \in Items
      BY <1>1 DEF Items
    <3> QED BY <1>3, <3>1, <3>2, DoneNeeds
  <2>3. CASE Top[2] = "installation"
    <3> DEFINE k == IF source_empty(index[p]) THEN "build_empty" ELSE "build"
    <3>1. Root(Top) = <<p, "installation">>
      BY <1>1, <2>3 DEF Root
    <3>2. z \in DependsOn(Top) \/ z = <<p, "source">>
      BY <1>1, <1>3, <2>3, <3>1, DependsOnIs, VisitedIndex DEF Proper
    <3>3. <<p, k>> \in DOMAIN done /\ k \in {"build", "build_empty"}
      BY <1>1, <2>3, DependsOnIs
    <3> HIDE DEF k
    <3>4. <<p, "source">> \in DOMAIN done
      BY <3>3, DependsOnIs DEF WalkInv
    <3> QED BY <3>2, <3>4
  <2> QED BY <1>1, <2>1, <2>2, <2>3
<1>4. checksum[p] \in Checksums
  BY <1>1, VisitedIndex DEF Proper
<1>5. Whole(checksum, Root(Top))
  <2>1. \A y \in Below(checksum, Root(Top)) :
          y = Root(Top) \/ \E z \in Needed(checksum, Root(Top)) : y \in Below(checksum, z)
    BY <1>2, BelowUnfold
  <2>2. \A z \in Needed(checksum, Root(Top)) : Whole(checksum, z)
    BY <1>2, <1>3, NeededAreItems, DoneBelow
  <2> QED BY <1>2, <1>4, <2>1, <2>2 DEF Whole
<1> QED BY <1>2, <1>3, <1>5

(* An outdated stage is one whose snapshot is not current, nor is that of     *)
(* any installation or build that takes it in.                                *)
LEMMA OutdatedIsNotCurrent ==
  ASSUME TopReady, RemoteInv, OlderInv, UpdatedInv, EntriesInv,
         Top[2] # "source", Outdated(Top),
         NEW x \in Items, Above(x, Top) \/ x = Root(Top)
  PROVE  ~Current(x)
<1> USE DEF TopReady
<1> DEFINE p == Top[1]
           y == <<p, "installation">>
           w == <<p, "source">>
<1>1. /\ Proper(Top) /\ p \in Packages /\ p \in visited /\ Top = <<p, Top[2]>>
      /\ Top[2] \in {"installation", "build", "build_empty"}
  BY TopIs DEF Proper
<1>2. /\ Root(Top) \in Items /\ Cached(Top) = EntryOf(Root(Top))
      /\ Whole(checksum, Root(Top)) /\ y \in Items /\ w \in Items
      /\ Root(Top) = IF Top[2] = "installation" THEN y ELSE w
  BY <1>1, RootIs DEF Items, Root
<1>3. CASE DependsUpdated
  <2>1. PICK s \in DependsOn(Top) : done[s].updated
    BY <1>3 DEF DependsUpdated
  <2>2. Above(x, s)
    <3>1. CASE Top[2] = "installation"
      <4>1. y \in Below(checksum, x)
        BY <1>1, <1>2, <3>1, BelowClosed DEF Above
      <4>2. s \in Needed(checksum, y)
              \/ s = <<p, IF source_empty(index[p]) THEN "build_empty" ELSE "build">>
        <5> DEFINE i == index[p]
                   Z == Stage(i.package_package, "installation")
                          \cup Stage(i.package_source, "source")
                   K == <<p, IF source_empty(i) THEN "build_empty" ELSE "build">>
        <5>1. DependsOn(Top) = Z \cup {K}
          BY <3>1, DependsOnIs
        <5>2. Needed(checksum, y) = Z \cup {w}
          BY <1>1, VisitedIndex
        <5> HIDE DEF Z, K
        <5>3. s \in Z \/ s = K
          BY <2>1, <5>1
        <5>4. s \in Needed(checksum, y) \/ s = K
          BY <5>2, <5>3
        <5> QED BY <5>4 DEF K
      <4>3. CASE s \in Needed(checksum, y)
        <5>1. s \in Below(checksum, x) /\ s \in Items
          BY <1>2, <4>1, <4>3, BelowClosed, NeededAreItems DEF Closed
        <5> QED BY <5>1 DEF Above, Items
      <4>4. CASE s = <<p, IF source_empty(index[p]) THEN "build_empty" ELSE "build">>
        <5>1. s[2] \notin {"installation", "source"} /\ s[1] = p
          BY <4>4
        <5> QED BY <4>1, <5>1 DEF Above
      <4> QED BY <4>2, <4>3, <4>4
    <3>2. CASE Top[2] # "installation"
      <4>1. s = w
        BY <1>1, <2>1, <3>2, DependsOnIs
      <4>2. w \in Below(checksum, x)
        <5>1. CASE x = Root(Top)
          BY <1>2, <3>2, <5>1, BelowClosed
        <5>2. CASE Above(x, Top)
          <6>1. y \in Below(checksum, x)
            BY <1>1, <3>2, <5>2 DEF Above
          <6>2. w \in Needed(checksum, y)
            BY <1>1, VisitedIndex
          <6> QED BY <6>1, <6>2, BelowClosed DEF Closed
        <5> QED BY <5>1, <5>2
      <4> QED BY <4>1, <4>2 DEF Above
    <3> QED BY <3>1, <3>2
  <2>3. NotDone(x)
    BY AboveNotDone
  <2> QED BY <2>1, <2>2, <2>3 DEF UpdatedInv
<1>4. CASE ~DependsUpdated
  <2>0. Made(checksum, Root(Top)) \notin {None, Torn}
    BY <1>2, MadeIsNoFile
  <2>1. ~(EntryOf(Root(Top)).snapshot = Made(checksum, Root(Top))
            /\ EntryOf(Root(Top)).archive # None)
    BY <1>2, <1>4, <2>0, DependsSnapshotIs DEF Outdated, Missing
  <2>2. ~(EntryOf(Root(Top)).snapshot = Made(checksum, Root(Top)))
    BY <1>2, <2>0, <2>1 DEF EntriesInv, EntryInv
  <2>3. CASE x = Root(Top)
    BY <1>2, <2>2, <2>3 DEF EntriesInv, EntryInv
  <2>4. CASE Above(x, Top)
    <3>1. y \in Below(checksum, x)
      BY <1>1, <2>4 DEF Above
    <3>2. EntryOf(Root(Top)) = IF Top[2] = "installation" THEN installation[p] ELSE build[p]
      BY <1>2 DEF EntryOf
    <3> QED BY <1>1, <1>2, <2>2, <3>1, <3>2 DEF EntriesInv, EntryInv
  <2> QED BY <2>3, <2>4
<1> QED BY <1>3, <1>4

(* The snapshot of a stage that is up to date is of the current releases; its *)
(* archive is too, unless a snapshot that was given up has matched.          *)
LEMMA UpToDateIsMade ==
  ASSUME TopReady, RemoteInv, OlderInv, Top[2] # "source", ~Outdated(Top)
  PROVE  /\ Cached(Top).archive # None
         /\ Cached(Top).snapshot = Made(checksum, Root(Top))
         /\ EntriesInv => Cached(Top).archive = Made(checksum, Root(Top))
<1> DEFINE r == Root(Top)
<1>1. r \in Items /\ Cached(Top) = EntryOf(r) /\ Whole(checksum, r)
  BY RootIs
<1>2. EntryOf(r).snapshot = Made(checksum, r)
  BY <1>1, DependsSnapshotIs DEF Outdated
<1>3. HasSnapshot(r)
  BY <1>1, <1>2, MadeIsNoFile DEF HasSnapshot
<1>4. \A z \in Made(checksum, r) : checksum[z[1]] = z[2]
  BY DEF Made
<1>5. Current(r)
  BY <1>2, <1>3, <1>4 DEF Current
<1>6. Cached(Top).archive # None
  BY DEF Outdated, Missing
<1> QED BY <1>1, <1>2, <1>5, <1>6 DEF EntriesInv, EntryInv

-----------------------------------------------------------------------------
(* What a step that leaves variables alone preserves *)

LEMMA SameIndex ==
  ASSUME index' = index
  PROVE  \A s : DependsOn(s)' = DependsOn(s)
BY Zenon DEF DependsOn

(* Entries that are left alone stay right. *)
LEMMA SameEntries ==
  ASSUME EntryTypes, ArchivesReleased, UNCHANGED <<checksum, build, installation>>
  PROVE  EntryTypes' /\ ArchivesReleased' /\ (EntriesInv => EntriesInv')
<1>1. \A x : EntryOf(x)' = EntryOf(x)
  BY DEF EntryOf
<1>2. \A x : Current(x)' = Current(x)
  BY <1>1 DEF Current, HasSnapshot
<1>3. EntriesInv => EntriesInv'
  BY <1>1, <1>2 DEF EntriesInv, EntryInv
<1> QED BY <1>1, <1>3 DEF EntryTypes, ArchivesReleased

(* So do those of older releases. *)
LEMMA SameOlder ==
  ASSUME OlderInv, UNCHANGED <<remote, checksum, build, installation>>
  PROVE  OlderInv'
BY DEF OlderInv, HasSnapshot, EntryOf, ReleasedBy

(* And the update under way. *)
LEMMA SameUpdate ==
  ASSUME UpdateInv, UNCHANGED <<sourceVars, packageVars, updateVars>>
  PROVE  UpdateInv' /\ (UpdatedInv /\ ArchivesInv /\ PackedFresh
                          => UpdatedInv' /\ ArchivesInv' /\ PackedFresh')
<1> USE DEF sourceVars, packageVars, updateVars, UpdateInv
<1>1. MetaInv'
  BY DEF MetaInv
<1>2. WalkInv'
  BY SameIndex DEF WalkInv, Proper, Visited
<1>3. DoneInv'
  BY DEF DoneInv, Good, Cached
<1>4. \A x : Current(x)' = Current(x)
  BY DEF Current, HasSnapshot, EntryOf
<1>5. \A x, s : Above(x, s)' = Above(x, s)
  BY DEF Above
<1>6. UpdatedInv => UpdatedInv'
  BY <1>4, <1>5 DEF UpdatedInv, NotDone
<1>7. Top' = Top /\ Cached(Top)' = Cached(Top)
  BY DEF Top, Cached
<1>8. PackedInv'
  BY <1>7, SameIndex DEF PackedInv
<1>9. PackedFresh => PackedFresh'
  BY <1>4, <1>5, <1>7 DEF PackedFresh
<1>10. ArchivesInv => ArchivesInv'
  BY DEF ArchivesInv, Cached
<1> QED BY <1>1, <1>2, <1>3, <1>6, <1>8, <1>9, <1>10 DEF AssertionsHold

(* An update that ends leaves nothing behind but the cache. *)
LEMMA UnlockKeeps ==
  ASSUME Unlock
  PROVE  UpdateInv' /\ UpdatedInv' /\ ArchivesInv' /\ PackedFresh'
BY DEF Unlock, UpdateInv, MetaInv, WalkInv, DoneInv, UpdatedInv, PackedInv,
       AssertionsHold, ArchivesInv, PackedFresh

(* The end of an update forgets what it was at. *)
LEMMA UnlockTypes ==
  ASSUME Unlock
  PROVE  /\ phase' \in {"idle", "meta", "index", "build", "packed", "updated", "asserted"}
         /\ target' \in Packages \cup {None}
         /\ current' \in Packages \cup {None}
         /\ todo' \subseteq Packages
         /\ visited' \subseteq Packages
         /\ stack' \in Seq(Stages)
         /\ DOMAIN done' \subseteq Stages
         /\ \A s \in DOMAIN done' : /\ done'[s].updated \in BOOLEAN
                                    /\ done'[s].snapshot \subseteq Packages \X Checksums
BY DEF Unlock

-----------------------------------------------------------------------------
(* The steps *)

LEMMA ReleasesLength ==
  ASSUME NEW p \in Packages
  PROVE  /\ Len(Releases[p]) \in Nat /\ Len(Releases[p]) > 0
         /\ DOMAIN Releases[p] = 1..Len(Releases[p])
         /\ \A n \in 1..Len(Releases[p]) : Releases[p][n] \in Checksums
<1>1. Releases[p] \in Seq(Checksums) /\ Len(Releases[p]) > 0
  BY ReleasesAssumption
<1> QED BY <1>1

(* A release is published after those before it, its checksum last. *)
LEMMA PublishKeeps ==
  ASSUME GenInv, NEW p \in Packages, Publish(p)
  PROVE  GenInv' /\ (FreshInv => FreshInv')
<1> USE DEF GenInv
<1> DEFINE r == remote[p]
<1>1. /\ remote \in [Packages -> Published]
      /\ UNCHANGED <<sourceVars, packageVars, updateVars, faults>>
  BY DEF TypeOK, Publish
<1>2. /\ r \in Published /\ r.checksum <= r.source /\ r.source <= r.index
      /\ r.index <= Len(Releases[p])
  BY DEF RemoteInv
<1>3. /\ r.checksum \in Nat \ {0} /\ r.source \in Nat \ {0} /\ r.index \in Nat \ {0}
      /\ Len(Releases[p]) \in Nat
      /\ r.checksum <= r.source /\ r.source <= r.index /\ r.index <= Len(Releases[p])
  BY <1>2, ReleasesLength DEF Published
<1>4. PICK new \in Published :
        /\ remote' = [remote EXCEPT ![p] = new]
        /\ r.checksum <= new.checksum /\ new.checksum <= new.source
        /\ new.source <= new.index /\ new.index <= Len(Releases[p])
  <2>1. CASE /\ r.index = r.checksum /\ r.index < Len(Releases[p])
             /\ remote' = [remote EXCEPT ![p].index = @ + 1]
    <3> DEFINE new == [r EXCEPT !.index = @ + 1]
    <3>1. /\ new \in Published /\ new.index = r.index + 1
          /\ new.source = r.source /\ new.checksum = r.checksum
      BY <1>2, <1>3 DEF Published
    <3>2. remote' = [remote EXCEPT ![p] = new]
      BY <2>1
    <3>3. r.index = r.checksum /\ r.index < Len(Releases[p])
      BY <2>1
    <3> HIDE DEF new, r
    <3>4. /\ r.checksum <= new.checksum /\ new.checksum <= new.source
          /\ new.source <= new.index /\ new.index <= Len(Releases[p])
      BY <1>3, <3>1, <3>3
    <3> QED BY <3>1, <3>2, <3>4
  <2>2. CASE r.source < r.index /\ remote' = [remote EXCEPT ![p].source = @ + 1]
    <3> DEFINE new == [r EXCEPT !.source = @ + 1]
    <3>1. /\ new \in Published /\ new.index = r.index
          /\ new.source = r.source + 1 /\ new.checksum = r.checksum
      BY <1>2, <1>3 DEF Published
    <3>2. remote' = [remote EXCEPT ![p] = new]
      BY <2>2
    <3>3. r.source < r.index
      BY <2>2
    <3> HIDE DEF new, r
    <3>4. /\ r.checksum <= new.checksum /\ new.checksum <= new.source
          /\ new.source <= new.index /\ new.index <= Len(Releases[p])
      BY <1>3, <3>1, <3>3
    <3> QED BY <3>1, <3>2, <3>4
  <2>3. CASE r.checksum < r.source /\ remote' = [remote EXCEPT ![p].checksum = @ + 1]
    <3> DEFINE new == [r EXCEPT !.checksum = @ + 1]
    <3>1. /\ new \in Published /\ new.index = r.index
          /\ new.source = r.source /\ new.checksum = r.checksum + 1
      BY <1>2, <1>3 DEF Published
    <3>2. remote' = [remote EXCEPT ![p] = new]
      BY <2>3
    <3>3. r.checksum < r.source
      BY <2>3
    <3> HIDE DEF new, r
    <3>4. /\ r.checksum <= new.checksum /\ new.checksum <= new.source
          /\ new.source <= new.index /\ new.index <= Len(Releases[p])
      BY <1>3, <3>1, <3>3
    <3> QED BY <3>1, <3>2, <3>4
  <2> QED BY <2>1, <2>2, <2>3 DEF Publish
<1>5. RemoteInv'
  BY <1>1, <1>4 DEF RemoteInv
<1>6. \A q \in Packages : /\ remote[q].checksum \in Nat /\ remote'[q].checksum \in Nat
                          /\ remote[q].checksum <= remote'[q].checksum
  <2>1. ASSUME NEW q \in Packages
        PROVE  /\ remote[q].checksum \in Nat /\ remote'[q].checksum \in Nat
               /\ remote[q].checksum <= remote'[q].checksum
    <3>1. remote[q].checksum \in Nat
      BY <1>1 DEF Published
    <3>2. CASE q = p
      <4>1. remote'[q] = new
        BY <1>1, <1>4, <3>2
      <4> QED BY <1>4, <3>1, <3>2, <4>1 DEF Published
    <3>3. CASE q # p
      <4>1. remote'[q] = remote[q]
        BY <1>1, <1>4, <3>3
      <4> QED BY <3>1, <4>1
    <3> QED BY <3>2, <3>3
  <2> QED BY <2>1
<1>7. \A q \in Packages : 1..remote[q].checksum \subseteq 1..remote'[q].checksum
  <2>1. \A m, n \in Nat : m <= n => 1..m \subseteq 1..n
    OBVIOUS
  <2> QED BY <1>6, <2>1
<1>8. OlderInv'
  <2>1. checksum' = checksum /\ \A x : EntryOf(x)' = EntryOf(x)
    BY <1>1 DEF EntryOf, sourceVars, packageVars
  <2>2. \A q \in Packages : checksum'[q] # None
          => ReleasedBy(q, checksum'[q], remote'[q].checksum)
    BY <1>7, <2>1 DEF OlderInv, ReleasedBy
  <2>3. ASSUME NEW x \in Items, HasSnapshot(x)', NEW y \in EntryOf(x)'.snapshot
        PROVE  \E n \in 1..remote'[y[1]].checksum :
                 checksum'[y[1]] = Releases[y[1]][n] /\ ReleasedBy(y[1], y[2], n)
    <3>1. HasSnapshot(x) /\ y \in EntryOf(x).snapshot
      BY <2>1, <2>3 DEF HasSnapshot
    <3>2. PICK n \in 1..remote[y[1]].checksum :
            checksum[y[1]] = Releases[y[1]][n] /\ ReleasedBy(y[1], y[2], n)
      BY <3>1 DEF OlderInv
    <3>3. EntryOf(x) \in Entries
      BY DEF EntryTypes, EntryOf, Items
    <3>4. y[1] \in Packages
      BY <3>1, <3>3 DEF Entries, Snapshots, HasSnapshot
    <3> QED BY <1>7, <2>1, <3>2, <3>4
  <2> QED BY <2>2, <2>3 DEF OlderInv
<1>9. TypeOK'
  <2>1. remote' \in [Packages -> Published]
    BY <1>1, <1>4
  <2> QED BY <1>1, <2>1 DEF TypeOK, sourceVars, packageVars, updateVars
<1>10. EntryTypes' /\ ArchivesReleased' /\ (EntriesInv => EntriesInv')
  BY <1>1, SameEntries DEF sourceVars, packageVars
<1>11. UpdateInv' /\ (UpdatedInv /\ ArchivesInv /\ PackedFresh
                         => UpdatedInv' /\ ArchivesInv' /\ PackedFresh')
  BY <1>1, SameUpdate
<1> QED BY <1>5, <1>8, <1>9, <1>10, <1>11 DEF FreshInv

(* An update begins. *)
LEMMA UpdateKeeps ==
  ASSUME GenInv, NEW p \in Packages, Update(p)
  PROVE  GenInv' /\ (FreshInv => FreshInv')
<1> USE DEF GenInv
<1> USE DEF Update, sourceVars, packageVars
<1>1. TypeOK'
  BY DEF TypeOK
<1>2. /\ RemoteInv' /\ OlderInv' /\ EntryTypes' /\ ArchivesReleased'
      /\ EntriesInv => EntriesInv'
  BY SameOlder, SameEntries DEF RemoteInv
<1>3. visited = {} /\ stack = <<>> /\ done = <<>>
  BY DEF UpdateInv, MetaInv, WalkInv
<1>4. MetaInv'
  BY <1>3 DEF MetaInv
<1>5. WalkInv' /\ DoneInv' /\ PackedInv' /\ AssertionsHold'
  BY <1>3 DEF WalkInv, DoneInv, PackedInv, AssertionsHold
<1>6. UpdatedInv' /\ ArchivesInv' /\ PackedFresh'
  BY <1>3 DEF UpdatedInv, ArchivesInv, PackedFresh
<1> QED BY <1>1, <1>2, <1>4, <1>5, <1>6 DEF UpdateInv, FreshInv

(* The whole cache is removed. *)
LEMMA CleanCacheKeeps ==
  ASSUME GenInv, CleanCache
  PROVE  GenInv' /\ (FreshInv => FreshInv')
<1> USE DEF GenInv
<1>1. /\ \A p \in Packages : /\ checksum'[p] = None /\ index'[p] = None
                             /\ source'[p] = None
                             /\ build'[p] = NoEntry /\ installation'[p] = NoEntry
      /\ phase = "idle" /\ UNCHANGED <<remote, updateVars>>
      /\ faults' \in 0..MaxFaults
  BY BoundsAssumption DEF CleanCache, Fault, TypeOK
<1>2. /\ checksum' \in [Packages -> Checksums \cup {None}]
      /\ index' \in [Packages -> Indices \cup {None, Torn}]
      /\ source' \in [Packages -> Sources \cup {None, Torn}]
  BY DEF CleanCache
<1>3. TypeOK'
  BY <1>1, <1>2 DEF TypeOK, updateVars, NoEntry
<1>4. EntryTypes'
  BY DEF EntryTypes, CleanCache, NoEntry, Entries
<1>5. \A x \in Items : EntryOf(x)' = NoEntry
  BY <1>1 DEF EntryOf, Items
<1>6. RemoteInv' /\ OlderInv' /\ EntriesInv' /\ ArchivesReleased'
  BY <1>1, <1>5 DEF RemoteInv, OlderInv, HasSnapshot, EntriesInv, EntryInv,
                    Current, NoEntry, ArchivesReleased
<1>7. /\ visited = {} /\ todo = {} /\ stack = <<>> /\ done = <<>>
      /\ phase' = "idle" /\ visited' = {} /\ todo' = {} /\ stack' = <<>> /\ done' = <<>>
  BY <1>1 DEF UpdateInv, MetaInv, WalkInv, updateVars
<1>8. UpdateInv'
  BY <1>7 DEF UpdateInv, MetaInv, WalkInv, DoneInv, PackedInv, AssertionsHold
<1>9. UpdatedInv' /\ ArchivesInv' /\ PackedFresh'
  BY <1>7 DEF UpdatedInv, ArchivesInv, PackedFresh
<1> QED BY <1>3, <1>4, <1>6, <1>8, <1>9 DEF FreshInv

(* A snapshot lists packages. *)
LEMMA ListedPackage ==
  ASSUME EntryTypes, NEW x \in Items, HasSnapshot(x), NEW y \in EntryOf(x).snapshot
  PROVE  y[1] \in Packages
<1>1. EntryOf(x) \in Entries
  BY DEF EntryTypes, EntryOf, Items
<1> QED BY <1>1 DEF Entries, Snapshots, HasSnapshot

(* While no release comes back, a snapshot that lists what is on the server   *)
(* now lists what the cache has.                                             *)
LEMMA ServedIsCached ==
  ASSUME EntryTypes, RemoteInv, OlderInv, ~Republished, NEW x \in Items, HasSnapshot(x),
         NEW y \in EntryOf(x).snapshot, y[2] = remote_checksum(y[1])
  PROVE  checksum[y[1]] = y[2]
<1> DEFINE p == y[1]
           last == remote[p].checksum
<1>1. p \in Packages
  BY ListedPackage
<1>2. PICK n \in 1..last : checksum[p] = Releases[p][n] /\ ReleasedBy(p, y[2], n)
  BY DEF OlderInv
<1>3. PICK k \in 1..n : y[2] = Releases[p][k]
  BY <1>2 DEF ReleasedBy
<1>4. /\ last \in Nat \ {0}
      /\ \A m \in 1..last : m < last => Releases[p][m] # Releases[p][last]
  <2>1. last \in Nat \ {0} /\ last \in 1..last
    BY <1>1 DEF RemoteInv, Published
  <2>2. \A m \in 1..last : m < last => Releases[p][m] # Releases[p][last]
    BY <1>1, <2>1 DEF Republished, Updates!Republished
  <2> QED BY <2>1, <2>2
<1>5. y[2] = Releases[p][last]
  BY DEF remote_checksum
<1> HIDE DEF last
<1>6. k = last
  <2>1. k \in 1..last /\ (k < last \/ k = last)
    BY <1>2, <1>3, <1>4
  <2> QED BY <1>3, <1>4, <1>5, <2>1
<1>7. n = last
  BY <1>4, <1>6
<1> QED BY <1>2, <1>5, <1>7

(* What is published of a package is one of its releases. *)
LEMMA RemoteIs ==
  ASSUME RemoteInv, NEW p \in Packages
  PROVE  /\ remote[p].checksum \in 1..Len(Releases[p])
         /\ remote_checksum(p) \in Checksums
<1>1. /\ remote[p].checksum \in Nat \ {0} /\ remote[p].source \in Nat
      /\ remote[p].index \in Nat /\ remote[p].checksum <= remote[p].source
      /\ remote[p].source <= remote[p].index
      /\ remote[p].index <= Len(Releases[p]) /\ Len(Releases[p]) \in Nat
  BY ReleasesLength DEF RemoteInv, Published
<1>2. remote[p].checksum \in 1..Len(Releases[p])
  BY <1>1
<1> QED BY <1>2, ReleasesLength DEF remote_checksum

(* A new checksum makes no snapshot current: one that is current after the   *)
(* step was so before, and its closure has not changed.                      *)
LEMMA UpdateChecksumKeeps ==
  ASSUME GenInv, NEW p \in Packages, UpdateChecksum(p)
  PROVE  GenInv' /\ (FreshInv /\ ~Republished => FreshInv')
<1> USE DEF GenInv
<1> DEFINE new == remote_checksum(p)
<1>1. /\ phase = "meta" /\ phase' = "index" /\ p \in todo /\ current' = p
      /\ checksum' = [checksum EXCEPT ![p] = new]
      /\ UNCHANGED <<remote, index, source, build, installation, target, todo,
                     visited, stack, done, faults>>
      /\ checksum \in [Packages -> Checksums \cup {None}]
      /\ new \in Checksums
  BY RemoteIs DEF UpdateChecksum, packageVars, TypeOK
<1>2. /\ checksum'[p] = new
      /\ \A q \in Packages : q # p => checksum'[q] = checksum[q]
      /\ checksum' \in [Packages -> Checksums \cup {None}]
  BY <1>1
<1>3. \A x : EntryOf(x)' = EntryOf(x) /\ HasSnapshot(x)' = HasSnapshot(x)
  BY <1>1 DEF EntryOf, HasSnapshot
<1> HIDE DEF new
<1>4. TypeOK'
  BY <1>1, <1>2 DEF TypeOK
<1>5. EntryTypes' /\ ArchivesReleased' /\ RemoteInv'
  BY <1>1, <1>3 DEF EntryTypes, ArchivesReleased, RemoteInv
<1>6. new = Releases[p][remote[p].checksum] /\ remote[p].checksum \in Nat \ {0}
  BY RemoteIs, ReleasesLength DEF new, remote_checksum
<1>7. OlderInv'
  <2>1. ASSUME NEW q \in Packages, checksum'[q] # None
        PROVE  ReleasedBy(q, checksum'[q], remote[q].checksum)
    BY <1>2, <1>6, <2>1 DEF OlderInv, ReleasedBy
  <2>2. ASSUME NEW x \in Items, HasSnapshot(x), NEW y \in EntryOf(x).snapshot
        PROVE  \E n \in 1..remote[y[1]].checksum :
                 checksum'[y[1]] = Releases[y[1]][n] /\ ReleasedBy(y[1], y[2], n)
    <3>1. PICK n \in 1..remote[y[1]].checksum :
            checksum[y[1]] = Releases[y[1]][n] /\ ReleasedBy(y[1], y[2], n)
      BY <2>2 DEF OlderInv
    <3>2. y[1] \in Packages
      BY <2>2, ListedPackage
    <3>3. CASE y[1] # p
      BY <1>2, <3>1, <3>2, <3>3
    <3>4. CASE y[1] = p
      <4>1. remote[p].checksum \in 1..remote[p].checksum
        BY <1>6
      <4>2. ReleasedBy(p, y[2], remote[p].checksum)
        <5>1. \A k, m, l \in Nat : k \in 1..m /\ m \in 1..l => k \in 1..l
          OBVIOUS
        <5> QED BY <1>6, <3>1, <3>4, <5>1 DEF ReleasedBy
      <4> QED BY <1>2, <1>6, <3>4, <4>1, <4>2
    <3> QED BY <3>3, <3>4
  <2> QED BY <1>1, <1>3, <2>1, <2>2 DEF OlderInv, ReleasedBy
<1>8. ASSUME EntriesInv, ~Republished PROVE EntriesInv'
  <2>1. ASSUME NEW x \in Items, HasSnapshot(x),
               \A y \in EntryOf(x).snapshot : checksum'[y[1]] = y[2]
        PROVE  /\ Current(x) /\ \A z \in Below(checksum, x) :
                    /\ Below(checksum', z) = Below(checksum, z)
                    /\ Made(checksum', z) = Made(checksum, z)
                    /\ Whole(checksum', z)
    <3>1. ASSUME NEW y \in EntryOf(x).snapshot PROVE checksum[y[1]] = y[2]
      <4>1. y[1] \in Packages
        BY <2>1, ListedPackage
      <4>2. y[1] # p => checksum[y[1]] = y[2]
        BY <1>2, <2>1, <4>1
      <4>3. y[1] = p => y[2] = remote_checksum(y[1])
        BY <1>2, <2>1 DEF new
      <4> QED BY <1>8, <2>1, <4>2, <4>3, ServedIsCached
    <3>2. Current(x)
      BY <2>1, <3>1 DEF Current
    <3>3. EntryOf(x).snapshot = Made(checksum, x) /\ Whole(checksum, x)
      BY <1>8, <3>2 DEF EntriesInv, EntryInv
    <3>4. \A q \in Origins(checksum, x) : checksum[q] = checksum'[q]
      <4>1. ASSUME NEW q \in Origins(checksum, x) PROVE checksum[q] = checksum'[q]
        <5>1. <<q, checksum[q]>> \in EntryOf(x).snapshot
          BY <3>3 DEF Made
        <5> QED BY <2>1, <5>1
      <4> QED BY <4>1
    <3>5. ASSUME NEW z \in Below(checksum, x)
          PROVE  /\ Below(checksum', z) = Below(checksum, z)
                 /\ Made(checksum', z) = Made(checksum, z)
                 /\ Whole(checksum', z)
      <4>1. z \in Items /\ Whole(checksum, z)
        BY <3>3, BelowClosed, WholeBelow
      <4>2. \A q \in Origins(checksum, z) : checksum[q] = checksum'[q]
        BY <3>4, BelowTrans DEF Origins
      <4> QED BY <4>1, <4>2, SameClosure
    <3> QED BY <3>2, <3>5
  <2>2. ASSUME NEW x \in Items PROVE EntryInv(x)'
    <3>1. EntryOf(x).archive = None => EntryOf(x).snapshot = None
      BY <1>8 DEF EntriesInv, EntryInv
    <3>2. ASSUME Current(x)'
          PROVE  /\ EntryOf(x).archive = EntryOf(x).snapshot
                 /\ EntryOf(x).snapshot = Made(checksum', x) /\ Whole(checksum', x)
                 /\ \A q \in Packages : <<q, "installation">> \in Below(checksum', x) =>
                      /\ installation[q].snapshot = Made(checksum', <<q, "installation">>)
                      /\ build[q].snapshot = Made(checksum', <<q, "source">>)
      <4>1. HasSnapshot(x) /\ \A y \in EntryOf(x).snapshot : checksum'[y[1]] = y[2]
        BY <1>3, <3>2 DEF Current
      <4>2. /\ Current(x) /\ \A z \in Below(checksum, x) :
                    /\ Below(checksum', z) = Below(checksum, z)
                    /\ Made(checksum', z) = Made(checksum, z)
                    /\ Whole(checksum', z)
        BY <2>1, <4>1
      <4>3. /\ EntryOf(x).archive = EntryOf(x).snapshot
            /\ EntryOf(x).snapshot = Made(checksum, x) /\ Whole(checksum, x)
            /\ \A q \in Packages : <<q, "installation">> \in Below(checksum, x) =>
                 /\ installation[q].snapshot = Made(checksum, <<q, "installation">>)
                 /\ build[q].snapshot = Made(checksum, <<q, "source">>)
        BY <1>8, <4>2 DEF EntriesInv, EntryInv
      <4>4. x \in Below(checksum, x)
        BY BelowClosed
      <4>5. ASSUME NEW q \in Packages, <<q, "installation">> \in Below(checksum, x)
            PROVE  <<q, "source">> \in Below(checksum, x)
        <5>1. checksum[<<q, "installation">>[1]] \in Checksums
          BY <4>3, <4>5 DEF Whole
        <5>2. <<q, "source">> \in Needed(checksum, <<q, "installation">>)
          BY <5>1 DEF Needed
        <5> QED BY <4>5, <5>2, BelowClosed DEF Closed
      <4> QED BY <4>2, <4>3, <4>4, <4>5
    <3> QED BY <1>1, <1>3, <3>1, <3>2 DEF EntryInv
  <2> QED BY <2>2 DEF EntriesInv
<1>9. stack = <<>> /\ done = <<>>
  BY <1>1 DEF UpdateInv, MetaInv
<1>10. MetaInv'
  <2>1. \A q \in visited : q \in Packages /\ q # p
    BY <1>1 DEF TypeOK, UpdateInv, MetaInv
  <2> QED BY <1>1, <1>2, <1>9, <2>1 DEF UpdateInv, MetaInv
<1>11. WalkInv' /\ DoneInv' /\ PackedInv' /\ AssertionsHold'
  BY <1>1, <1>9 DEF WalkInv, DoneInv, PackedInv, AssertionsHold
<1>12. UpdatedInv' /\ ArchivesInv' /\ PackedFresh'
  BY <1>1, <1>9 DEF UpdatedInv, ArchivesInv, PackedFresh
<1> QED BY <1>4, <1>5, <1>7, <1>8, <1>10, <1>11, <1>12 DEF UpdateInv, FreshInv

(* The index that comes is that of the checksum, or the update ends. *)
LEMMA UpdateIndexKeeps ==
  ASSUME GenInv, UpdateIndex
  PROVE  GenInv' /\ (FreshInv => FreshInv')
<1> USE DEF GenInv
<1> DEFINE p == current
<1>1. /\ phase = "index" /\ p \in todo /\ p \in Packages /\ checksum[p] \in Checksums
      /\ stack = <<>> /\ done = <<>>
      /\ UNCHANGED <<remote, checksum, source, build, installation, faults>>
  BY DEF UpdateIndex, UpdateInv, MetaInv, TypeOK, packageVars
<1>2. /\ index' \in [Packages -> Indices \cup {None, Torn}]
      /\ \A q \in Packages : q # p => index'[q] = index[q]
  <2>1. index \in [Packages -> Indices \cup {None, Torn}]
    BY DEF TypeOK
  <2>2. remote_index(p) \in Indices
    <3>1. /\ remote[p].index \in Nat \ {0} /\ remote[p].index <= Len(Releases[p])
          /\ Len(Releases[p]) \in Nat
      BY <1>1, ReleasesLength DEF RemoteInv, Published
    <3>2. remote[p].index \in 1..Len(Releases[p])
      BY <3>1
    <3> QED BY <1>1, <3>2, ReleasesLength DEF remote_index, Checksums
  <2> QED BY <1>1, <2>1, <2>2 DEF UpdateIndex
<1>3. /\ RemoteInv' /\ OlderInv' /\ EntryTypes' /\ ArchivesReleased'
      /\ EntriesInv => EntriesInv'
  BY <1>1, SameOlder, SameEntries DEF RemoteInv
<1>4. CASE Unlock
  <2>1. TypeOK'
    BY <1>1, <1>2, <1>4, UnlockTypes DEF TypeOK
  <2> QED BY <1>3, <1>4, <2>1, UnlockKeeps DEF FreshInv
<1>5. CASE /\ index'[p] = checksum[p].index
           /\ visited' = visited \cup {p}
           /\ todo' = (todo \cup imports(index'[p])) \ visited'
           /\ phase' = IF todo' = {} THEN "build" ELSE "meta"
           /\ stack' = IF todo' = {} THEN <<<<target, "installation">>>> ELSE <<>>
           /\ current' = None
           /\ UNCHANGED <<target, done>>
  <2>1. target \in visited \cup todo /\ target \in Packages
    BY <1>1 DEF UpdateInv, MetaInv, TypeOK
  <2>2. imports(index'[p]) \subseteq Packages
    <3>1. index'[p] \in Indices
      BY <1>1, <1>5 DEF Checksums
    <3> QED BY <3>1 DEF imports, Indices
  <2>3. visited' \subseteq Packages /\ todo' \subseteq Packages
    BY <1>1, <1>5, <2>2 DEF TypeOK
  <2>4. stack' \in Seq(Stages)
    BY <1>5, <2>1 DEF Stages
  <2>5. TypeOK'
    BY <1>1, <1>2, <1>5, <2>3, <2>4 DEF TypeOK
  <2>6. \A q \in visited' : checksum[q] \in Checksums /\ index'[q] = checksum[q].index
                            /\ imports(index'[q]) \subseteq visited' \cup todo'
    <3>1. ASSUME NEW q \in visited, q # p
          PROVE  checksum[q] \in Checksums /\ index'[q] = checksum[q].index
                 /\ imports(index'[q]) \subseteq visited' \cup todo'
      <4>1. q \in Packages
        BY DEF TypeOK
      <4> QED BY <1>2, <1>5, <3>1, <4>1 DEF UpdateInv, MetaInv
    <3>2. imports(index'[p]) \subseteq visited' \cup todo'
      BY <1>5
    <3> QED BY <1>1, <1>5, <3>1, <3>2
  <2>7. target \in visited' \cup todo' /\ todo' \cap visited' = {}
    BY <1>5, <2>1
  <2>8. MetaInv'
    BY <1>1, <1>5, <2>6, <2>7 DEF MetaInv
  <2>9. todo' = {} => Proper(<<target, "installation">>)'
    BY <1>5, <2>1, <2>7 DEF Proper, Stages
  <2>10. WalkInv'
    <3>1. CASE todo' = {}
      <4>1. /\ phase' = "build" /\ stack' = <<<<target, "installation">>>> /\ done' = <<>>
            /\ target' = target
        BY <1>1, <1>5, <3>1
      <4>2. Len(stack') = 1 /\ DOMAIN stack' = {1} /\ stack'[1] = <<target, "installation">>
        BY <4>1
      <4>3. \A n \in DOMAIN stack' : Proper(stack[n])'
        BY <2>9, <3>1, <4>1, <4>2 DEF Proper
      <4> QED BY <4>1, <4>2, <4>3 DEF WalkInv, Visited
    <3>2. CASE todo' # {}
      BY <1>1, <1>5, <3>2 DEF WalkInv
    <3> QED BY <3>1, <3>2
  <2>11. DoneInv' /\ PackedInv' /\ AssertionsHold'
    BY <1>1, <1>5 DEF DoneInv, PackedInv, AssertionsHold
  <2>12. UpdatedInv' /\ ArchivesInv' /\ PackedFresh'
    BY <1>1, <1>5 DEF UpdatedInv, ArchivesInv, PackedFresh
  <2> QED BY <1>3, <2>5, <2>8, <2>10, <2>11, <2>12 DEF UpdateInv, FreshInv
<1> QED BY <1>4, <1>5 DEF UpdateIndex


(* A stage leads to stages that the walk can come to. *)
LEMMA DependsProper ==
  ASSUME MetaInv, todo = {}, visited \subseteq Packages, NEW t, Proper(t),
         NEW s \in DependsOn(t)
  PROVE  Proper(s)
<1> DEFINE p == t[1]
           i == index[p]
<1>1. /\ p \in visited /\ t[2] \in {"installation", "build", "build_empty", "source"}
      /\ p \in Packages
  BY DEF Proper, Stages
<1>2. /\ i.source_package \subseteq visited /\ i.source_source \subseteq visited
      /\ i.package_package \subseteq visited /\ i.package_source \subseteq visited
  BY <1>1 DEF MetaInv, imports
<1>3. \A q \in visited : Proper(<<q, "installation">>) /\ Proper(<<q, "source">>)
  BY DEF Proper, Stages
<1>4. Proper(<<p, IF source_empty(i) THEN "build_empty" ELSE "build">>)
  BY <1>1 DEF Proper, Stages
<1>5. CASE t[2] = "installation"
  <2> DEFINE K == <<p, IF source_empty(i) THEN "build_empty" ELSE "build">>
  <2>1. DependsOn(t) = Stage(i.package_package, "installation")
                         \cup Stage(i.package_source, "source") \cup {K}
    BY <1>5, DependsOnIs
  <2> HIDE DEF K
  <2>2. s = K \/ \E q \in visited : s = <<q, "installation">> \/ s = <<q, "source">>
    BY <1>2, <2>1 DEF Stage
  <2> QED BY <1>3, <1>4, <2>2 DEF K
<1>6. CASE t[2] = "source"
  <2>1. \E q \in visited : s = <<q, "installation">> \/ s = <<q, "source">>
    BY <1>2, <1>6, DependsOnIs DEF Stage
  <2> QED BY <1>3, <2>1
<1>7. CASE t[2] \in {"build", "build_empty"}
  BY <1>1, <1>3, <1>7, DependsOnIs
<1> QED BY <1>1, <1>5, <1>6, <1>7

(* A stage is left for one that it needs, or the imports are circular. *)
LEMMA DescendKeeps ==
  ASSUME GenInv, NEW s \in Stages, Descend(s)
  PROVE  GenInv' /\ (FreshInv => FreshInv')
<1> USE DEF GenInv
<1>1. /\ phase = "build" /\ s \in DependsOn(Top) /\ ~Visited(s)
      /\ UNCHANGED <<remote, checksum, index, source, build, installation, faults>>
  BY DEF Descend, sourceVars, packageVars
<1>2. /\ RemoteInv' /\ OlderInv' /\ EntryTypes' /\ ArchivesReleased'
      /\ EntriesInv => EntriesInv'
  BY <1>1, SameOlder, SameEntries DEF RemoteInv
<1>3. CASE Unlock
  <2>1. TypeOK'
    BY <1>1, <1>3, UnlockTypes DEF TypeOK
  <2> QED BY <1>2, <1>3, <2>1, UnlockKeeps DEF FreshInv
<1>4. CASE /\ ~\E n \in DOMAIN stack : stack[n] = s
           /\ stack' = Append(stack, s)
           /\ UNCHANGED <<phase, target, current, todo, visited, done>>
  <2>1. stack \in Seq(Stages) /\ visited \subseteq Packages
    BY DEF TypeOK
  <2>2. /\ Len(stack') = Len(stack) + 1 /\ stack' \in Seq(Stages) /\ Len(stack) \in Nat
        /\ DOMAIN stack' = 1..Len(stack) + 1 /\ DOMAIN stack = 1..Len(stack)
        /\ \A n \in 1..Len(stack) : stack'[n] = stack[n]
        /\ stack'[Len(stack) + 1] = s
    BY <1>4, <2>1
  <2>3. TypeOK'
    BY <1>1, <1>4, <2>2 DEF TypeOK
  <2>4. MetaInv'
    BY <1>1, <1>4 DEF UpdateInv, MetaInv
  <2>5. Proper(s)
    <3>1. Proper(Top) /\ todo = {}
      BY <1>1, <2>1, TopIs DEF UpdateInv, MetaInv
    <3> QED BY <1>1, <2>1, <3>1, DependsProper DEF UpdateInv
  <2>6. WalkInv'
    <3>1. \A t : /\ Proper(t)' = Proper(t) /\ Visited(t)' = Visited(t)
                 /\ DependsOn(t)' = DependsOn(t)
      BY <1>1, <1>4, SameIndex DEF Proper, Visited
    <3>2. \A n \in DOMAIN stack' : Proper(stack'[n]) /\ ~Visited(stack'[n])
      <4>1. \A n \in DOMAIN stack' : n \in 1..Len(stack) \/ n = Len(stack) + 1
        BY <2>2
      <4> QED BY <1>1, <2>2, <2>5, <4>1 DEF UpdateInv, WalkInv
    <3>3. \A n \in DOMAIN stack' : (Proper(stack[n]) /\ ~Visited(stack[n]))'
      BY <1>1, <1>4, <3>2 DEF Proper, Visited
    <3>4. \A m, n \in DOMAIN stack' : stack'[m] = stack'[n] => m = n
      BY <1>4, <2>2 DEF UpdateInv, WalkInv
    <3>5. Len(stack') > 0 /\ stack'[1] = <<target, "installation">>
      <4>1. Len(stack) > 0 /\ stack[1] = <<target, "installation">>
        BY <1>1 DEF UpdateInv, WalkInv
      <4> QED BY <2>2, <4>1
    <3>6. \A t \in DOMAIN done' : Proper(t)' /\ DependsOn(t)' \subseteq DOMAIN done'
      BY <1>4, <3>1 DEF UpdateInv, WalkInv
    <3> QED BY <1>1, <1>4, <3>3, <3>4, <3>5, <3>6 DEF WalkInv
  <2>7. DoneInv'
    BY <1>1, <1>4 DEF UpdateInv, DoneInv, Good, Cached
  <2>8. UpdatedInv => UpdatedInv'
    BY <1>1, <1>4 DEF UpdatedInv, NotDone, Above, Current, HasSnapshot, EntryOf
  <2>9. PackedInv' /\ PackedFresh' /\ AssertionsHold'
    BY <1>1, <1>4 DEF PackedInv, PackedFresh, AssertionsHold
  <2>10. ArchivesInv => ArchivesInv'
    BY <1>1, <1>4 DEF ArchivesInv, Cached
  <2> QED BY <1>2, <2>3, <2>4, <2>6, <2>7, <2>8, <2>9, <2>10 DEF UpdateInv, FreshInv
<1> QED BY <1>3, <1>4 DEF Descend

(* A stage is left: it is off the stack and has been visited. *)
LEMMA LeaveKeeps ==
  ASSUME TopReady, TypeOK, NEW updated \in BOOLEAN,
         NEW snapshot \in SUBSET (Packages \X Checksums), Leave(updated, snapshot),
         UNCHANGED <<checksum, index>>
  PROVE  /\ DOMAIN done' = DOMAIN done \cup {Top} /\ Top \notin DOMAIN done
         /\ done'[Top] = [updated |-> updated, snapshot |-> snapshot]
         /\ \A s \in DOMAIN done : done'[s] = done[s]
         /\ phase' \in {"build", "updated"} /\ stack' \in Seq(Stages)
         /\ UNCHANGED <<target, current, todo, visited>>
         /\ \A s \in DOMAIN done' : /\ done'[s].updated \in BOOLEAN
                                    /\ done'[s].snapshot \subseteq Packages \X Checksums
         /\ DOMAIN done' \subseteq Stages
         /\ MetaInv' /\ WalkInv'
<1> USE DEF TopReady
<1>1. /\ done' = [s \in DOMAIN done \cup {Top} |->
                    IF s = Top THEN [updated |-> updated, snapshot |-> snapshot]
                               ELSE done[s]]
      /\ stack' = SubSeq(stack, 1, Len(stack) - 1)
      /\ phase' = IF Len(stack) = 1 THEN "updated" ELSE "build"
      /\ UNCHANGED <<target, current, todo, visited, checksum, index>>
  BY DEF Leave
<1>2. /\ Proper(Top) /\ Top \notin DOMAIN done /\ Len(stack) \in DOMAIN stack
      /\ Top \in Stages
  BY TopIs DEF Visited, Proper
<1>3. /\ DOMAIN done' = DOMAIN done \cup {Top}
      /\ done'[Top] = [updated |-> updated, snapshot |-> snapshot]
      /\ \A s \in DOMAIN done : done'[s] = done[s]
  BY <1>1, <1>2
<1>4. /\ Len(stack) \in Nat \ {0} /\ DOMAIN stack = 1..Len(stack)
      /\ stack' \in Seq(Stages) /\ Len(stack') = Len(stack) - 1
      /\ DOMAIN stack' = 1..Len(stack) - 1
      /\ \A n \in 1..Len(stack) - 1 : stack'[n] = stack[n]
  <2>1. Len(stack) \in Nat \ {0} /\ DOMAIN stack = 1..Len(stack)
    BY <1>2
  <2>2. stack \in Seq(Stages) /\ stack' = SubSeq(stack, 1, Len(stack) - 1)
    BY <1>1
  <2> QED BY <2>1, <2>2
<1>5. /\ DOMAIN done' \subseteq Stages
      /\ \A s \in DOMAIN done' : /\ done'[s].updated \in BOOLEAN
                                 /\ done'[s].snapshot \subseteq Packages \X Checksums
  BY <1>2, <1>3 DEF TypeOK
<1>6. MetaInv'
  BY <1>1 DEF MetaInv
<1>7. WalkInv'
  <2>1. ASSUME NEW n \in DOMAIN stack'
        PROVE  /\ n \in DOMAIN stack /\ stack'[n] = stack[n] /\ n # Len(stack)
    BY <1>4
  <2>2. ASSUME NEW n \in DOMAIN stack'
        PROVE  Proper(stack[n]) /\ stack[n] \notin DOMAIN done'
    BY <1>2, <1>3, <2>1 DEF WalkInv, Visited, Top
  <2>3. \A n \in DOMAIN stack' : (Proper(stack[n]) /\ ~Visited(stack[n]))'
    BY <1>1, <2>1, <2>2 DEF Proper, Visited
  <2>4. \A m, n \in DOMAIN stack' : stack'[m] = stack'[n] => m = n
    BY <2>1 DEF WalkInv
  <2>5. \A s \in DOMAIN done' : Proper(s)' /\ DependsOn(s)' \subseteq DOMAIN done'
    <3>1. \A s \in DOMAIN done' : Proper(s) /\ DependsOn(s) \subseteq DOMAIN done'
      BY <1>2, <1>3 DEF WalkInv
    <3>2. \A s : DependsOn(s)' = DependsOn(s)
      BY <1>1, SameIndex
    <3> QED BY <1>1, <3>1, <3>2 DEF Proper
  <2>6. CASE Len(stack) = 1
    <3>1. Top = <<target, "installation">> /\ phase' = "updated"
      BY <1>1, <2>6 DEF Top, WalkInv
    <3> QED BY <1>1, <1>3, <2>3, <2>4, <2>5, <3>1 DEF WalkInv
  <2>7. CASE Len(stack) # 1
    <3>1. Len(stack') > 0 /\ 1 \in DOMAIN stack' /\ phase' = "build"
      BY <1>1, <1>4, <2>7
    <3>2. stack'[1] = <<target, "installation">>
      BY <2>1, <3>1 DEF WalkInv
    <3> QED BY <1>1, <2>3, <2>4, <2>5, <3>1, <3>2 DEF WalkInv
  <2> QED BY <2>6, <2>7
<1> QED BY <1>1, <1>2, <1>3, <1>4, <1>5, <1>6, <1>7

(* A stage is packed or compared once all it needs is done. *)
LEMMA Ready ==
  ASSUME GenInv, DependsDone \/ phase = "packed"
  PROVE  /\ TopReady /\ Top[2] \in {"installation", "build", "build_empty", "source"}
         /\ phase = "packed" => Top[2] # "source"
         /\ Top \in Stages /\ Top[1] \in Packages /\ Top[1] \in visited
<1>1. TopReady /\ (phase = "packed" => Top[2] # "source")
  BY DEF GenInv, UpdateInv, PackedInv, DependsDone, Visited, TopReady, TypeOK
<1> QED BY <1>1, TopIs DEF TopReady, Proper

(* What is not done after a step was not done before. *)
LEMMA NotDoneSince ==
  ASSUME DOMAIN done \subseteq DOMAIN done', NEW x, NotDone(x)'
  PROVE  NotDone(x)
BY DEF NotDone

(* The sources that come are those of the checksum, or the update ends. *)
LEMMA UpdateSourcesKeeps ==
  ASSUME GenInv, UpdateSources
  PROVE  GenInv' /\ (FreshInv => FreshInv')
<1> USE DEF GenInv
<1> DEFINE p == Top[1]
           snapshot == DependsSnapshot \cup {<<p, checksum[p]>>}
<1>1. /\ TopReady /\ Top[2] = "source" /\ p \in Packages /\ p \in visited /\ Top \in Stages
      /\ UNCHANGED <<remote, checksum, index, build, installation, faults>>
  BY Ready DEF UpdateSources, packageVars
<1>2. /\ source' \in [Packages -> Sources \cup {None, Torn}]
      /\ \A q \in Packages : q # p => source'[q] = source[q]
  <2>1. source \in [Packages -> Sources \cup {None, Torn}]
    BY DEF TypeOK
  <2>2. remote_source(p) \in Sources
    <3>1. /\ remote[p].source \in Nat \ {0} /\ remote[p].source <= remote[p].index
          /\ remote[p].index \in Nat
          /\ remote[p].index <= Len(Releases[p]) /\ Len(Releases[p]) \in Nat
      BY <1>1, ReleasesLength DEF RemoteInv, Published
    <3>2. remote[p].source \in 1..Len(Releases[p])
      BY <3>1
    <3> QED BY <1>1, <3>2, ReleasesLength DEF remote_source, Checksums
  <2> QED BY <1>1, <2>1, <2>2 DEF UpdateSources
<1>3. /\ RemoteInv' /\ OlderInv' /\ EntryTypes' /\ ArchivesReleased'
      /\ EntriesInv => EntriesInv'
  BY <1>1, SameOlder, SameEntries DEF RemoteInv
<1>4. CASE Unlock
  <2>1. TypeOK'
    BY <1>1, <1>2, <1>4, UnlockTypes DEF TypeOK
  <2> QED BY <1>3, <1>4, <2>1, UnlockKeeps DEF FreshInv
<1>5. CASE source'[p] = checksum[p].source /\ Leave(DependsUpdated, snapshot)
  <2> HIDE DEF snapshot
  <2>1. /\ Root(Top) = Top /\ Top \in Items /\ Whole(checksum, Top)
        /\ Needed(checksum, Top) \subseteq DOMAIN done
    <3>1. Root(Top) = Top
      BY <1>1 DEF Root, Stages
    <3> QED BY <1>1, <3>1, RootIs
  <2>2. snapshot = Made(checksum, Top)
    BY <1>1, DependsSnapshotIs DEF snapshot
  <2>3. snapshot \in SUBSET (Packages \X Checksums)
    BY <2>1, <2>2, MadeTyped
  <2>4. DependsUpdated \in BOOLEAN
    BY DEF DependsUpdated
  <2>5. /\ DOMAIN done' = DOMAIN done \cup {Top} /\ Top \notin DOMAIN done
        /\ done'[Top] = [updated |-> DependsUpdated, snapshot |-> snapshot]
        /\ \A s \in DOMAIN done : done'[s] = done[s]
        /\ phase' \in {"build", "updated"} /\ stack' \in Seq(Stages)
        /\ UNCHANGED <<target, current, todo, visited>>
        /\ \A s \in DOMAIN done' : /\ done'[s].updated \in BOOLEAN
                                   /\ done'[s].snapshot \subseteq Packages \X Checksums
        /\ DOMAIN done' \subseteq Stages
        /\ MetaInv' /\ WalkInv'
    BY <1>1, <1>5, <2>3, <2>4, LeaveKeeps
  <2>6. TypeOK'
    BY <1>1, <1>2, <2>5 DEF TypeOK
  <2>7. DoneInv'
    <3>1. ASSUME NEW s \in DOMAIN done PROVE Good(s)'
      <4>1. Good(s) /\ s[1] \in Packages
        BY DEF UpdateInv, DoneInv, WalkInv, Proper, Stages
      <4> QED BY <1>1, <1>2, <1>5, <2>5, <4>1 DEF Good, Cached
    <3>2. ASSUME NEW s, s = Top PROVE Good(s)'
      <4>1. done'[s].snapshot = Made(checksum', Root(s))
        BY <1>1, <2>1, <2>2, <2>5, <3>2
      <4>2. s[2] = "source" /\ source'[s[1]] = checksum'[s[1]].source
        BY <1>1, <1>5, <3>2
      <4> QED BY <4>1, <4>2 DEF Good
    <3> QED BY <2>5, <3>1, <3>2 DEF DoneInv
  <2>8. ASSUME UpdatedInv PROVE UpdatedInv'
    <3>1. \A x : Current(x)' = Current(x)
      BY <1>1 DEF Current, HasSnapshot, EntryOf
    <3>2. \A x, s : Above(x, s)' = Above(x, s)
      BY <1>1 DEF Above
    <3>3. ASSUME NEW s \in DOMAIN done', done'[s].updated, NEW x \in Items,
                 NotDone(x)', Above(x, s)
          PROVE  ~Current(x)
      <4>1. NotDone(x)
        BY <2>5, <3>3, NotDoneSince
      <4>2. CASE s # Top
        BY <2>5, <2>8, <3>3, <4>1, <4>2 DEF UpdatedInv
      <4>3. CASE s = Top
        <5>1. PICK t \in DependsOn(Top) : done[t].updated
          BY <2>5, <3>3, <4>3 DEF DependsUpdated
        <5>2. t \in Needed(checksum, Top) /\ t \in DOMAIN done
          <6>1. Top = <<p, "source">>
            BY <1>1 DEF Stages
          <6>2. Needed(checksum, Top) = DependsOn(Top)
            BY <1>1, <6>1, DependsOnIs, VisitedIndex DEF UpdateInv
          <6> QED BY <1>1, <5>1, <6>2 DEF TopReady
        <5>3. Top \in Below(checksum, x)
          BY <1>1, <3>3, <4>3 DEF Above
        <5>4. t \in Below(checksum, x) /\ t \in Items
          BY <2>1, <5>2, <5>3, BelowClosed, NeededAreItems DEF Closed
        <5>5. Above(x, t)
          BY <5>4 DEF Above, Items
        <5> QED BY <2>8, <4>1, <5>1, <5>2, <5>5 DEF UpdatedInv
      <4> QED BY <4>2, <4>3
    <3> QED BY <3>1, <3>2, <3>3 DEF UpdatedInv
  <2>9. PackedInv' /\ PackedFresh' /\ AssertionsHold'
    BY <2>5 DEF PackedInv, PackedFresh, AssertionsHold
  <2>10. ArchivesInv => ArchivesInv'
    BY <1>1, <2>5 DEF ArchivesInv, Cached
  <2> QED BY <1>3, <2>5, <2>6, <2>7, <2>8, <2>9, <2>10 DEF UpdateInv, FreshInv
<1> QED BY <1>4, <1>5 DEF UpdateSources

(* A stage whose snapshot is current is taken as it is. *)
LEMMA UpToDateKeeps ==
  ASSUME GenInv, UpToDate
  PROVE  GenInv' /\ (FreshInv => FreshInv')
<1> USE DEF GenInv
<1>1. /\ TopReady /\ Top[2] # "source" /\ Top \in Stages /\ ~Outdated(Top)
      /\ Top[2] \in {"installation", "build", "build_empty", "source"}
      /\ Leave(FALSE, DependsSnapshot)
      /\ UNCHANGED <<remote, checksum, index, source, build, installation, faults>>
  BY Ready DEF UpToDate, sourceVars, packageVars
<1>2. /\ RemoteInv' /\ OlderInv' /\ EntryTypes' /\ ArchivesReleased'
      /\ EntriesInv => EntriesInv'
  BY <1>1, SameOlder, SameEntries DEF RemoteInv
<1>3. DependsSnapshot = Made(checksum, Root(Top))
  BY <1>1, DependsSnapshotIs
<1>4. DependsSnapshot \in SUBSET (Packages \X Checksums)
  BY <1>1, <1>3, RootIs, MadeTyped
<1>5. /\ DOMAIN done' = DOMAIN done \cup {Top} /\ Top \notin DOMAIN done
      /\ done'[Top] = [updated |-> FALSE, snapshot |-> DependsSnapshot]
      /\ \A s \in DOMAIN done : done'[s] = done[s]
      /\ phase' \in {"build", "updated"} /\ stack' \in Seq(Stages)
      /\ UNCHANGED <<target, current, todo, visited>>
      /\ \A s \in DOMAIN done' : /\ done'[s].updated \in BOOLEAN
                                 /\ done'[s].snapshot \subseteq Packages \X Checksums
      /\ DOMAIN done' \subseteq Stages
      /\ MetaInv' /\ WalkInv'
  BY <1>1, <1>4, LeaveKeeps
<1>6. TypeOK'
  BY <1>1, <1>5 DEF TypeOK
<1>7. DoneInv'
  <2>1. \A s \in DOMAIN done : Good(s)'
    BY <1>1, <1>5 DEF UpdateInv, DoneInv, Good, Cached
  <2>2. ASSUME NEW s, s = Top PROVE Good(s)'
    <3>1. /\ Cached(Top).archive # None
          /\ Cached(Top).snapshot = Made(checksum, Root(Top))
      BY <1>1, UpToDateIsMade
    <3>2. Cached(s)' = Cached(Top)
      BY <1>1, <2>2 DEF Cached
    <3>3. done'[s].snapshot = Made(checksum, Root(Top))
      BY <1>3, <1>5, <2>2
    <3> QED BY <1>1, <2>2, <3>1, <3>2, <3>3 DEF Good
  <2> QED BY <1>5, <2>1, <2>2 DEF DoneInv
<1>8. ASSUME UpdatedInv PROVE UpdatedInv'
  <2>1. \A x : Current(x)' = Current(x)
    BY <1>1 DEF Current, HasSnapshot, EntryOf
  <2>2. \A x, s : Above(x, s)' = Above(x, s)
    BY <1>1 DEF Above
  <2>3. ASSUME NEW s \in DOMAIN done', done'[s].updated, NEW x \in Items,
               NotDone(x)', Above(x, s)
        PROVE  ~Current(x)
    <3>1. NotDone(x) /\ s # Top
      BY <1>5, <2>3, NotDoneSince
    <3> QED BY <1>5, <1>8, <2>3, <3>1 DEF UpdatedInv
  <2> QED BY <2>1, <2>2, <2>3 DEF UpdatedInv
<1>9. PackedInv' /\ PackedFresh' /\ AssertionsHold'
  BY <1>5 DEF PackedInv, PackedFresh, AssertionsHold
<1>10. ASSUME EntriesInv, ArchivesInv PROVE ArchivesInv'
  <2>1. Cached(Top).archive = Made(checksum, Root(Top))
    BY <1>1, <1>10, UpToDateIsMade
  <2>2. ASSUME NEW s \in DOMAIN done', s[2] # "source"
        PROVE  Cached(s).archive = Made(checksum, Root(s))
    BY <1>5, <1>10, <2>1, <2>2 DEF ArchivesInv
  <2>3. \A s : Cached(s)' = Cached(s)
    BY <1>1 DEF Cached
  <2> QED BY <1>1, <2>2, <2>3 DEF ArchivesInv
<1> QED BY <1>2, <1>5, <1>6, <1>7, <1>8, <1>9, <1>10 DEF UpdateInv, FreshInv

-----------------------------------------------------------------------------
(* The steps that write an archive or a snapshot *)

LEMMA SetCachedIs ==
  ASSUME TopReady, EntryTypes, Top[2] # "source", NEW e \in Entries, SetCached(Top, e)
  PROVE  /\ EntryTypes'
         /\ \A x \in Items : EntryOf(x)' = IF x = Root(Top) THEN e ELSE EntryOf(x)
<1> USE DEF TopReady
<1> DEFINE p == Top[1]
<1>1. /\ p \in Packages /\ Top = <<p, Top[2]>>
      /\ Top[2] \in {"installation", "build", "build_empty"}
  BY TopIs
<1>2. CASE Top[2] = "installation"
  <2>1. Root(Top) = <<p, "installation">>
    BY <1>1, <1>2 DEF Root
  <2>2. installation' = [installation EXCEPT ![p] = e] /\ build' = build
    BY <1>2 DEF SetCached
  <2> QED BY <1>1, <2>1, <2>2 DEF EntryOf, EntryTypes, Items
<1>3. CASE Top[2] # "installation"
  <2>1. Root(Top) = <<p, "source">>
    BY <1>1, <1>3 DEF Root
  <2>2. build' = [build EXCEPT ![p] = e] /\ installation' = installation
    BY <1>3 DEF SetCached
  <2> QED BY <1>1, <2>1, <2>2 DEF EntryOf, EntryTypes, Items
<1> QED BY <1>2, <1>3

(* Nothing that is current takes in the entry that is written, so the other  *)
(* entries are as they must be.                                              *)
LEMMA OtherEntries ==
  ASSUME TopReady, EntriesInv, checksum' = checksum, NEW e, NEW r \in Items,
         r = Root(Top), Top[2] # "source",
         \A x \in Items : EntryOf(x)' = IF x = r THEN e ELSE EntryOf(x),
         \A x \in Items : Above(x, Top) => ~Current(x)
  PROVE  \A x \in Items : x # r => EntryInv(x)'
<1> DEFINE p == Top[1]
<1>1. /\ p \in Packages /\ Top = <<p, Top[2]>> /\ r[1] = p
      /\ Top[2] \in {"installation", "build", "build_empty"}
  BY TopIs, RootIs DEF TopReady
<1>2. ASSUME NEW x \in Items, x # r, Current(x), NEW q \in Packages,
             <<q, "installation">> \in Below(checksum, x)
      PROVE  installation'[q] = installation[q] /\ build'[q] = build[q]
  <2>1. q # p
    <3>1. SUFFICES ASSUME q = p PROVE FALSE
      OBVIOUS
    <3>2. Above(x, Top)
      BY <1>1, <1>2, <3>1 DEF Above
    <3> QED BY <1>2, <3>2
  <2> DEFINE y == <<q, "installation">>
             w == <<q, "source">>
  <2>2. y \in Items /\ w \in Items /\ y # r /\ w # r
    BY <1>1, <2>1 DEF Items
  <2>3. EntryOf(y)' = EntryOf(y) /\ EntryOf(w)' = EntryOf(w)
    BY <2>2
  <2> QED BY <2>3 DEF EntryOf
<1>3. ASSUME NEW x \in Items, x # r PROVE EntryInv(x)'
  <2>1. EntryOf(x)' = EntryOf(x) /\ EntryInv(x)
    BY <1>3 DEF EntriesInv
  <2>2. Current(x)' = Current(x)
    BY <2>1 DEF Current, HasSnapshot
  <2> QED BY <1>2, <1>3, <2>1, <2>2 DEF EntryInv
<1> QED BY <1>3

(* A stage that is written is of the releases it lists, so older entries *)
(* stay right.                                                           *)
LEMMA WrittenOlder ==
  ASSUME OlderInv, UNCHANGED <<remote, checksum>>, NEW e, NEW r \in Items,
         Whole(checksum, r),
         \A x \in Items : EntryOf(x)' = IF x = r THEN e ELSE EntryOf(x),
         e.snapshot \in {None, Torn, EntryOf(r).snapshot, Made(checksum, r)}
  PROVE  OlderInv'
<1>1. \A p \in Packages :
        checksum'[p] # None => ReleasedBy(p, checksum'[p], remote'[p].checksum)
  BY DEF OlderInv
<1>2. ASSUME NEW x \in Items, HasSnapshot(x)', NEW y \in EntryOf(x)'.snapshot
      PROVE  \E n \in 1..remote[y[1]].checksum :
               checksum[y[1]] = Releases[y[1]][n] /\ ReleasedBy(y[1], y[2], n)
  <2>1. CASE x # r \/ e.snapshot = EntryOf(r).snapshot
    <3>1. HasSnapshot(x) /\ y \in EntryOf(x).snapshot
      BY <1>2, <2>1 DEF HasSnapshot
    <3> QED BY <3>1 DEF OlderInv
  <2>2. CASE x = r /\ e.snapshot = Made(checksum, r)
    <3>1. y \in Made(checksum, r)
      BY <1>2, <2>2
    <3>2. PICK q \in Origins(checksum, r) : y = <<q, checksum[q]>>
      BY <3>1 DEF Made
    <3>3. q \in Packages /\ <<q, "source">> \in Below(checksum, r)
      BY DEF Origins
    <3>4. checksum[q] # None
      BY <3>3, AbsentAssumption DEF Whole
    <3>5. PICK k \in 1..remote[q].checksum : checksum[q] = Releases[q][k]
      BY <3>3, <3>4 DEF OlderInv, ReleasedBy
    <3>6. ReleasedBy(q, checksum[q], k)
      <4>1. \A m : k \in 1..m => k \in 1..k
        OBVIOUS
      <4> QED BY <3>5, <4>1 DEF ReleasedBy
    <3> QED BY <3>2, <3>5, <3>6
  <2>3. CASE x = r /\ e.snapshot \in {None, Torn}
    BY <1>2, <2>3 DEF HasSnapshot
  <2> QED BY <2>1, <2>2, <2>3
<1> QED BY <1>1, <1>2 DEF OlderInv, ReleasedBy

(* What is known of the entry that a stage writes. *)
LEMMA Written ==
  ASSUME GenInv, Builds \/ phase = "packed"
  PROVE  /\ TopReady /\ Top[2] # "source" /\ Root(Top) \in Items
         /\ Cached(Top) = EntryOf(Root(Top)) /\ Cached(Top) \in Entries
         /\ Whole(checksum, Root(Top)) /\ Made(checksum, Root(Top)) \in Snapshots
         /\ Made(checksum, Root(Top)) \in SUBSET Released
         /\ Made(checksum, Root(Top)) \notin {None, Torn}
<1> USE DEF GenInv
<1>1. TopReady /\ Top[2] # "source"
  BY Ready DEF Builds
<1>2. /\ Root(Top) \in Items /\ Cached(Top) = EntryOf(Root(Top))
      /\ Whole(checksum, Root(Top))
  BY <1>1, RootIs
<1>3. EntryOf(Root(Top)) \in Entries
  BY <1>2 DEF EntryTypes, EntryOf, Items
<1> QED BY <1>1, <1>2, <1>3, MadeTyped, MadeIsNoFile DEF Snapshots

(* Nothing that is current takes it in. *)
LEMMA WrittenFresh ==
  ASSUME GenInv, FreshInv, Builds \/ phase = "packed"
  PROVE  /\ ~Current(Root(Top))
         /\ \A x \in Items : Above(x, Top) => ~Current(x)
<1>1. TopReady /\ Top[2] # "source" /\ Root(Top) \in Items
  BY Written
<1>2. CASE Builds
  BY <1>1, <1>2, OutdatedIsNotCurrent DEF Builds, GenInv, FreshInv
<1>3. CASE phase = "packed"
  BY <1>3 DEF FreshInv, PackedFresh
<1> QED BY <1>2, <1>3

(* A stage is packed, and its snapshot is not written yet. *)
LEMMA PackKeeps ==
  ASSUME GenInv, Pack
  PROVE  GenInv' /\ (FreshInv => FreshInv')
<1> USE DEF GenInv
<1> DEFINE r == Root(Top)
           content == Content(Top)
           e == [Cached(Top) EXCEPT !.archive = content]
<1>1. /\ Builds /\ Torn \notin Unpacked(Top)
      /\ DependsDone /\ phase = "build" /\ SetCached(Top, e)
      /\ phase' = "packed"
      /\ UNCHANGED <<remote, checksum, index, source, target, current, todo,
                     visited, stack, done, faults>>
  BY DEF Pack, Builds, DependsDone, sourceVars
<1>2. /\ TopReady /\ Top[2] # "source" /\ r \in Items /\ Top[1] \in Packages
      /\ Cached(Top) = EntryOf(r) /\ Cached(Top) \in Entries /\ Whole(checksum, r)
  BY <1>1, Written, Ready
<1>3. content \in SUBSET Released
  BY <1>1, <1>2, ContentReleased
<1> HIDE DEF content
<1>4. /\ e \in Entries /\ e.archive = content /\ e.snapshot = EntryOf(r).snapshot
      /\ content \notin {None, Torn}
  BY <1>2, <1>3, ReleasedTyped DEF Entries, Snapshots
<1> HIDE DEF e, r
<1>5. /\ EntryTypes'
      /\ \A x \in Items : EntryOf(x)' = IF x = r THEN e ELSE EntryOf(x)
  BY <1>1, <1>2, <1>4, SetCachedIs DEF r
<1>6. \A x \in Items : EntryOf(x)'.snapshot = EntryOf(x).snapshot
  BY <1>4, <1>5
<1>7. \A x \in Items : Current(x)' = Current(x)
  BY <1>1, <1>6 DEF Current, HasSnapshot
<1>8. TypeOK'
  BY <1>1, <1>5 DEF TypeOK, EntryTypes, Entries, Snapshots
<1>9. RemoteInv' /\ OlderInv'
  BY <1>1, <1>2, <1>4, <1>5, WrittenOlder DEF RemoteInv
<1>10. ArchivesReleased'
  BY <1>3, <1>4, <1>5 DEF ArchivesReleased
<1>11. MetaInv'
  BY <1>1 DEF UpdateInv, MetaInv
<1>12. WalkInv'
  <2>1. \A s : /\ Proper(s)' = Proper(s) /\ Visited(s)' = Visited(s)
               /\ DependsOn(s)' = DependsOn(s)
    BY <1>1, SameIndex DEF Proper, Visited
  <2> QED BY <1>1, <2>1 DEF UpdateInv, WalkInv, Proper, Visited
<1>13. \A s \in Stages : s[2] # "source" =>
         Root(s) \in Items /\ Cached(s) = EntryOf(Root(s)) /\ Cached(s)' = EntryOf(Root(s))'
  BY DEF Stages, Root, Items, Cached, EntryOf
<1>14. DoneInv'
  <2>1. ASSUME NEW s \in DOMAIN done PROVE Good(s)'
    <3>1. Good(s) /\ s \in Stages
      BY DEF UpdateInv, DoneInv, WalkInv, Proper
    <3>2. CASE s[2] = "source"
      BY <1>1, <3>1, <3>2 DEF Good
    <3>3. CASE s[2] # "source"
      <4>1. /\ Root(s) \in Items /\ Cached(s) = EntryOf(Root(s))
            /\ Cached(s)' = EntryOf(Root(s))'
        BY <1>13, <3>1, <3>3
      <4>2. /\ EntryOf(Root(s))'.archive # None
            /\ EntryOf(Root(s))'.snapshot = Made(checksum, Root(s))
        BY <1>4, <1>5, <3>1, <3>3, <4>1 DEF Good
      <4> QED BY <1>1, <3>1, <3>3, <4>1, <4>2 DEF Good
    <3> QED BY <3>2, <3>3
  <2> QED BY <1>1, <2>1 DEF DoneInv
<1>15. Top' = Top /\ DependsOn(Top)' = DependsOn(Top) /\ Cached(Top)' = e
  <2>1. Top' = Top
    BY <1>1 DEF Top
  <2>2. DependsOn(Top)' = DependsOn(Top)
    BY <1>1, <2>1, SameIndex
  <2>3. ASSUME NEW s, s = Top PROVE Cached(s)' = e
    <3>1. s \in Stages
      BY <1>1, <2>3, Ready
    <3> QED BY <1>2, <1>5, <1>13, <2>3, <3>1 DEF r
  <2> QED BY <2>1, <2>2, <2>3 DEF Cached
<1>16. PackedInv' /\ AssertionsHold'
  BY <1>1, <1>2, <1>4, <1>15 DEF PackedInv, TopReady, AssertionsHold
<1>17. ASSUME FreshInv PROVE FreshInv'
  <2>1. /\ EntriesInv /\ UpdatedInv /\ ArchivesInv /\ ~Current(r)
        /\ \A x \in Items : Above(x, Top) => ~Current(x)
        /\ content = Made(checksum, r)
    BY <1>1, <1>2, <1>17, WrittenFresh, ContentIs DEF FreshInv, r, content
  <2>2. EntriesInv'
    <3>1. \A x \in Items : x # r => EntryInv(x)'
      BY <1>1, <1>2, <1>5, <2>1, OtherEntries DEF r
    <3>2. ASSUME NEW x \in Items, x = r PROVE EntryInv(x)'
      BY <1>2, <1>4, <1>5, <1>7, <2>1, <3>2 DEF EntryInv
    <3> QED BY <3>1, <3>2 DEF EntriesInv
  <2>3. UpdatedInv'
    BY <1>1, <1>7, <2>1 DEF UpdatedInv, NotDone, Above
  <2>4. ArchivesInv'
    <3>1. ASSUME NEW s \in DOMAIN done, s[2] # "source"
          PROVE  Cached(s)'.archive = Made(checksum, Root(s))
      <4>1. s \in Stages /\ Cached(s).archive = Made(checksum, Root(s))
        BY <2>1, <3>1 DEF UpdateInv, WalkInv, Proper, ArchivesInv
      <4> QED BY <1>4, <1>5, <1>13, <2>1, <3>1, <4>1
    <3> QED BY <1>1, <3>1 DEF ArchivesInv
  <2>5. PackedFresh'
    <3>1. ~Current(Root(Top))'
      <4>1. ASSUME NEW x, x = r PROVE ~Current(x)'
        BY <1>2, <1>7, <2>1, <4>1
      <4> QED BY <1>15, <4>1 DEF r, Current, HasSnapshot, EntryOf, Root
    <3>2. \A x \in Items : Above(x, Top)' = Above(x, Top)
      BY <1>1, <1>15 DEF Above
    <3>3. Cached(Top)'.archive = Made(checksum, Root(Top))'
      BY <1>1, <1>4, <1>15, <2>1 DEF r, Root
    <3> QED BY <1>7, <2>1, <3>1, <3>2, <3>3 DEF PackedFresh
  <2> QED BY <2>2, <2>3, <2>4, <2>5 DEF FreshInv
<1> QED BY <1>5, <1>8, <1>9, <1>10, <1>11, <1>12, <1>14, <1>16, <1>17 DEF UpdateInv

(* The snapshot that is written is the one that was expected. *)
LEMMA WriteSnapshotKeeps ==
  ASSUME GenInv, WriteSnapshot
  PROVE  GenInv' /\ (FreshInv => FreshInv')
<1> USE DEF GenInv
<1> DEFINE r == Root(Top)
           made == Made(checksum, r)
           e == [Cached(Top) EXCEPT !.snapshot = SnapshotOf(Top)]
<1>1. /\ phase = "packed" /\ SetCached(Top, e)
      /\ UNCHANGED <<remote, checksum, index, source, faults>>
  BY DEF WriteSnapshot, sourceVars
<1>2. /\ TopReady /\ Top[2] # "source" /\ r \in Items /\ Top[1] \in Packages
      /\ Cached(Top) = EntryOf(r) /\ Cached(Top) \in Entries
      /\ Top \in Stages /\ Top[2] \in {"installation", "build", "build_empty"}
      /\ Whole(checksum, r) /\ made \in Snapshots /\ made \notin {None, Torn}
  BY <1>1, Written, Ready
<1>3. SnapshotOf(Top) = made /\ DependsSnapshot = made
  BY <1>2, ContentIs, DependsSnapshotIs
<1>4. Leave(TRUE, DependsSnapshot)
  BY <1>3 DEF WriteSnapshot
<1>5. /\ e \in Entries /\ e.archive = EntryOf(r).archive /\ e.snapshot = made
      /\ e.archive # None
  <2>1. Cached(Top).archive # None
    BY <1>1 DEF UpdateInv, PackedInv
  <2> QED BY <1>2, <1>3, <2>1 DEF Entries
<1> HIDE DEF e, r, made
<1>6. /\ EntryTypes'
      /\ \A x \in Items : EntryOf(x)' = IF x = r THEN e ELSE EntryOf(x)
  BY <1>1, <1>2, <1>5, SetCachedIs DEF r
<1>7. DependsSnapshot \in SUBSET (Packages \X Checksums)
  BY <1>2, <1>3 DEF Snapshots
<1>8. /\ DOMAIN done' = DOMAIN done \cup {Top} /\ Top \notin DOMAIN done
      /\ done'[Top] = [updated |-> TRUE, snapshot |-> made]
      /\ \A s \in DOMAIN done : done'[s] = done[s]
      /\ phase' \in {"build", "updated"} /\ stack' \in Seq(Stages)
      /\ UNCHANGED <<target, current, todo, visited>>
      /\ \A s \in DOMAIN done' : /\ done'[s].updated \in BOOLEAN
                                 /\ done'[s].snapshot \subseteq Packages \X Checksums
      /\ DOMAIN done' \subseteq Stages
      /\ MetaInv' /\ WalkInv'
  BY <1>1, <1>2, <1>3, <1>4, <1>7, LeaveKeeps
<1>9. TypeOK'
  BY <1>1, <1>6, <1>8 DEF TypeOK, EntryTypes, Entries, Snapshots
<1>10. RemoteInv' /\ OlderInv'
  BY <1>1, <1>2, <1>5, <1>6, WrittenOlder DEF RemoteInv, made
<1>11. \A s \in Stages : s[2] # "source" =>
         Root(s) \in Items /\ Cached(s) = EntryOf(Root(s)) /\ Cached(s)' = EntryOf(Root(s))'
  BY DEF Stages, Root, Items, Cached, EntryOf
<1>12. DoneInv'
  <2>1. ASSUME NEW s \in DOMAIN done' PROVE Good(s)'
    <3>1. /\ s \in Stages /\ done'[s].snapshot = Made(checksum, Root(s))
          /\ s # Top => Good(s)
      BY <1>8 DEF UpdateInv, DoneInv, Good, made, r
    <3>2. CASE s[2] = "source"
      BY <1>1, <1>2, <3>1, <3>2 DEF Good
    <3>3. CASE s[2] # "source"
      <4>1. /\ Root(s) \in Items /\ Cached(s) = EntryOf(Root(s))
            /\ Cached(s)' = EntryOf(Root(s))'
        BY <1>11, <3>1, <3>3
      <4>2. CASE Root(s) = r
        BY <1>1, <1>5, <1>6, <3>1, <3>3, <4>1, <4>2 DEF Good, made
      <4>3. CASE Root(s) # r
        <5>1. s # Top
          BY <4>3 DEF r
        <5> QED BY <1>1, <1>6, <3>1, <3>3, <4>1, <4>3, <5>1 DEF Good
      <4> QED BY <4>2, <4>3
    <3> QED BY <3>2, <3>3
  <2> QED BY <2>1 DEF DoneInv
<1>13. ArchivesReleased'
  BY <1>5, <1>6 DEF ArchivesReleased
<1>14. PackedInv' /\ AssertionsHold'
  BY <1>8 DEF PackedInv, AssertionsHold
<1>15. ASSUME FreshInv PROVE FreshInv'
  <2>1. /\ EntriesInv /\ UpdatedInv /\ ArchivesInv /\ PackedFresh /\ ~Current(r)
        /\ \A x \in Items : Above(x, Top) => ~Current(x)
        /\ e.archive = made
    BY <1>1, <1>2, <1>5, <1>15, WrittenFresh DEF FreshInv, PackedFresh, r, made
  <2>2. \A x \in Items : x # r => Current(x)' = Current(x)
    BY <1>1, <1>6 DEF Current, HasSnapshot
  <2>3. UpdatedInv'
    <3>1. \A x, s : Above(x, s)' = Above(x, s)
      BY <1>1 DEF Above
    <3>2. ASSUME NEW s \in DOMAIN done', done'[s].updated, NEW x \in Items,
                 NotDone(x)', Above(x, s)
          PROVE  ~Current(x)'
      <4>1. NotDone(x)
        BY <1>8, <3>2, NotDoneSince
      <4>2. x # r
        <5>1. Top \in DOMAIN done'
          BY <1>8
        <5>2. Top = <<Top[1], Top[2]>>
          BY <1>2 DEF Stages
        <5>3. CASE Top[2] = "installation"
          BY <3>2, <5>1, <5>3 DEF r, Root, NotDone
        <5>4. CASE Top[2] # "installation"
          <6>1. ~(x[2] = "source" /\ x[1] = Top[1])
            BY <1>2, <3>2, <5>1, <5>4 DEF NotDone
          <6> QED BY <5>4, <6>1 DEF r, Root
        <5> QED BY <5>3, <5>4
      <4>3. CASE s = Top
        BY <2>1, <2>2, <3>2, <4>2, <4>3
      <4>4. CASE s # Top
        BY <1>8, <2>1, <2>2, <3>2, <4>1, <4>2, <4>4 DEF UpdatedInv
      <4> QED BY <4>3, <4>4
    <3> QED BY <3>1, <3>2 DEF UpdatedInv
  <2>4. EntriesInv'
    <3>1. \A x \in Items : x # r => EntryInv(x)'
      BY <1>1, <1>2, <1>6, <2>1, OtherEntries DEF r
    <3>2. ASSUME NEW q \in Packages, <<q, "installation">> \in Below(checksum, r)
          PROVE  /\ installation'[q].snapshot = Made(checksum, <<q, "installation">>)
                 /\ build'[q].snapshot = Made(checksum, <<q, "source">>)
      <4> DEFINE y == <<q, "installation">>
                 w == <<q, "source">>
      <4>0. /\ y \in Items /\ w \in Items
            /\ EntryOf(y) = installation[q] /\ EntryOf(w) = build[q]
            /\ EntryOf(y)' = installation'[q] /\ EntryOf(w)' = build'[q]
        BY DEF Items, EntryOf
      <4>1. CASE y \in DOMAIN done
        <5>1. y[1] = q /\ y[2] = "installation"
          OBVIOUS
        <5>2. installation[q].snapshot = Made(checksum, y)
          BY <4>0, <4>1, <5>1, DoneMade DEF UpdateInv
        <5>3. build[q].snapshot = Made(checksum, w)
          BY <4>1, DoneBuild DEF UpdateInv
        <5> HIDE DEF y, w
        <5>4. EntryOf(y)'.snapshot = Made(checksum, y)
          BY <1>5, <1>6, <4>0, <5>2 DEF made
        <5>5. EntryOf(w)'.snapshot = Made(checksum, w)
          BY <1>5, <1>6, <4>0, <5>3 DEF made
        <5> QED BY <4>0, <5>4, <5>5 DEF y, w
      <4>2. CASE y = r
        <5>1. Top = y
          <6>1. Top = <<Top[1], Top[2]>>
            BY <1>2 DEF Stages
          <6> QED BY <4>2, <6>1 DEF r, Root
        <5>2. \E k \in {"build", "build_empty"} : <<q, k>> \in DOMAIN done
          <6>1. Top[1] = q /\ Top[2] = "installation"
            BY <5>1
          <6>2. <<q, IF source_empty(index[q]) THEN "build_empty" ELSE "build">>
                  \in DependsOn(Top)
            BY <6>1, DependsOnIs
          <6> QED BY <1>2, <6>2 DEF TopReady
        <5>3. PICK k \in {"build", "build_empty"} : <<q, k>> \in DOMAIN done
          BY <5>2
        <5>4. build[q].snapshot = Made(checksum, w)
          BY <5>3 DEF UpdateInv, DoneInv, Good, Cached, Root
        <5> HIDE DEF y, w
        <5>5. EntryOf(w)'.snapshot = Made(checksum, w)
          BY <1>5, <1>6, <4>0, <5>4 DEF made
        <5>6. EntryOf(y)'.snapshot = Made(checksum, y)
          BY <1>5, <1>6, <4>0, <4>2 DEF made
        <5> QED BY <4>0, <5>5, <5>6 DEF y, w
      <4>3. y = r \/ \E z \in Needed(checksum, r) : y \in Below(checksum, z)
        BY <1>2, <3>2, BelowUnfold
      <4>4. ASSUME NEW z \in Needed(checksum, r), y \in Below(checksum, z)
            PROVE  y \in DOMAIN done
        <5>1. z \in Items \cap DOMAIN done
          BY <1>2, NeededAreItems, RootIs DEF r
        <5> QED BY <4>4, <5>1, DoneBelow DEF UpdateInv
      <4> QED BY <4>1, <4>2, <4>3, <4>4
    <3>3. ASSUME NEW x \in Items, x = r PROVE EntryInv(x)'
      <4>1. EntryOf(x)' = e /\ e.archive = made /\ e.snapshot = made
        BY <1>5, <1>6, <2>1, <3>3
      <4>2. made = Made(checksum', x) /\ Whole(checksum', x) /\ made # None
        BY <1>1, <1>2, <3>3 DEF made
      <4> QED BY <1>1, <3>2, <3>3, <4>1, <4>2 DEF EntryInv
    <3> QED BY <3>1, <3>3 DEF EntriesInv
  <2>5. ArchivesInv'
    <3>1. ASSUME NEW s \in DOMAIN done', s[2] # "source"
          PROVE  Cached(s)'.archive = Made(checksum, Root(s))
      <4>1. s \in Stages /\ (s # Top => Cached(s).archive = Made(checksum, Root(s)))
        BY <1>8, <2>1, <3>1 DEF ArchivesInv
      <4>2. CASE Root(s) = r
        BY <1>6, <1>11, <2>1, <3>1, <4>1, <4>2 DEF made
      <4>3. CASE Root(s) # r
        <5>1. s # Top
          BY <4>3 DEF r
        <5> QED BY <1>6, <1>11, <3>1, <4>1, <4>3, <5>1
      <4> QED BY <4>2, <4>3
    <3> QED BY <1>1, <3>1 DEF ArchivesInv
  <2>6. PackedFresh'
    BY <1>8 DEF PackedFresh
  <2> QED BY <2>3, <2>4, <2>5, <2>6 DEF FreshInv
<1> QED BY <1>6, <1>8, <1>9, <1>10, <1>12, <1>13, <1>14, <1>15 DEF UpdateInv

(* An update that ends, by its failure or by its extraction. *)
LEMMA EndKeeps ==
  ASSUME GenInv, SnapshotUnreadable \/ ArchiveUnreadable \/ Extract
  PROVE  GenInv' /\ (FreshInv => FreshInv')
<1> USE DEF GenInv
<1>1. Unlock /\ UNCHANGED <<remote, checksum, index, source, build, installation, faults>>
  BY DEF SnapshotUnreadable, ArchiveUnreadable, Extract, sourceVars, packageVars
<1>2. TypeOK'
  BY <1>1, UnlockTypes DEF TypeOK
<1> QED BY <1>1, <1>2, UnlockKeeps, SameOlder, SameEntries DEF RemoteInv, FreshInv

(* A torn archive is of a stage that is outdated, a torn snapshot of one that *)
(* has been; nothing that is current takes either in.                        *)
LEMMA InterruptKeeps ==
  ASSUME GenInv, Interrupt
  PROVE  GenInv' /\ (FreshInv => FreshInv')
<1> USE DEF GenInv
<1>1. /\ Unlock /\ remote' = remote /\ faults' \in 0..MaxFaults
      /\ Tear \/ UNCHANGED <<sourceVars, packageVars>>
  BY BoundsAssumption DEF Interrupt, Fault, TypeOK
<1>2. RemoteInv' /\ UpdateInv' /\ UpdatedInv' /\ ArchivesInv' /\ PackedFresh'
  BY <1>1, UnlockKeeps DEF RemoteInv
<1>3. CASE UNCHANGED <<checksum, build, installation>>
           /\ index' \in [Packages -> Indices \cup {None, Torn}]
           /\ source' \in [Packages -> Sources \cup {None, Torn}]
  <2>1. TypeOK'
    BY <1>1, <1>3, UnlockTypes DEF TypeOK
  <2> QED BY <1>1, <1>2, <1>3, <2>1, SameOlder, SameEntries DEF FreshInv
<1>4. ASSUME NEW e \in Entries, SetCached(Top, e), UNCHANGED sourceVars,
             \/ Builds /\ e.archive = Torn /\ e.snapshot = Cached(Top).snapshot
             \/ /\ phase = "packed" /\ e.archive # None /\ e.snapshot = Torn
                /\ e.archive = Cached(Top).archive
      PROVE  GenInv' /\ (FreshInv => FreshInv')
  <2> DEFINE r == Root(Top)
  <2>1. /\ TopReady /\ Top[2] # "source" /\ r \in Items
        /\ Cached(Top) = EntryOf(r) /\ Whole(checksum, r)
    BY <1>4, Written
  <2>2. UNCHANGED <<checksum, index, source>>
    BY <1>4 DEF sourceVars
  <2> HIDE DEF r
  <2>3. /\ EntryTypes'
        /\ \A x \in Items : EntryOf(x)' = IF x = r THEN e ELSE EntryOf(x)
    BY <1>4, <2>1, SetCachedIs DEF r
  <2>4. TypeOK'
    BY <1>1, <2>2, <2>3, UnlockTypes DEF TypeOK, EntryTypes, Entries, Snapshots
  <2>5. OlderInv'
    BY <1>1, <1>4, <2>1, <2>2, <2>3, WrittenOlder
  <2>6. ArchivesReleased'
    BY <1>4, <2>1, <2>3 DEF ArchivesReleased
  <2>7. ASSUME FreshInv PROVE EntriesInv'
    <3>0. /\ EntriesInv /\ ~Current(r)
          /\ \A x \in Items : Above(x, Top) => ~Current(x)
      BY <1>4, <2>7, WrittenFresh DEF FreshInv, r
    <3>1. \A x \in Items : x # r => EntryInv(x)'
      BY <2>1, <2>2, <2>3, <3>0, OtherEntries DEF r
    <3>2. ASSUME NEW x \in Items, x = r PROVE EntryInv(x)'
      <4>1. EntryOf(x)' = e /\ e.archive # None
        BY <1>4, <2>3, <3>2, AbsentAssumption
      <4>2. ~Current(x)'
        <5>1. CASE e.snapshot = Torn
          BY <4>1, <5>1 DEF Current, HasSnapshot
        <5>2. CASE e.snapshot = EntryOf(r).snapshot
          BY <2>1, <2>2, <3>0, <3>2, <4>1, <5>2 DEF Current, HasSnapshot
        <5> QED BY <1>4, <2>1, <5>1, <5>2
      <4> QED BY <4>1, <4>2 DEF EntryInv
    <3> QED BY <3>1, <3>2 DEF EntriesInv
  <2> QED BY <1>2, <2>3, <2>4, <2>5, <2>6, <2>7 DEF FreshInv
<1>5. CASE UNCHANGED <<sourceVars, packageVars>>
  BY <1>3, <1>5 DEF sourceVars, packageVars, TypeOK
<1>6. CASE /\ index' = [index EXCEPT ![current] = Torn]
           /\ UNCHANGED <<checksum, source, packageVars>>
  BY <1>3, <1>6 DEF packageVars, TypeOK
<1>7. CASE /\ source' = [source EXCEPT ![Top[1]] = Torn]
           /\ UNCHANGED <<checksum, index, packageVars>>
  BY <1>3, <1>7 DEF packageVars, TypeOK
<1>8. CASE /\ Builds
           /\ SetCached(Top, [Cached(Top) EXCEPT !.archive = Torn])
           /\ UNCHANGED sourceVars
  <2> DEFINE e == [Cached(Top) EXCEPT !.archive = Torn]
  <2>1. Cached(Top) \in Entries
    BY <1>8, Written
  <2>2. e \in Entries /\ e.archive = Torn /\ e.snapshot = Cached(Top).snapshot
    BY <2>1 DEF Entries
  <2> HIDE DEF e
  <2>3. SetCached(Top, e)
    BY <1>8 DEF e
  <2> QED BY <1>4, <1>8, <2>2, <2>3
<1>9. CASE /\ phase = "packed"
           /\ SetCached(Top, [Cached(Top) EXCEPT !.snapshot = Torn])
           /\ UNCHANGED sourceVars
  <2> DEFINE e == [Cached(Top) EXCEPT !.snapshot = Torn]
  <2>1. Cached(Top) \in Entries /\ Cached(Top).archive # None
    BY <1>9, Written DEF UpdateInv, PackedInv
  <2>2. /\ e \in Entries /\ e.archive # None /\ e.snapshot = Torn
        /\ e.archive = Cached(Top).archive
    BY <2>1 DEF Entries
  <2> HIDE DEF e
  <2>3. SetCached(Top, e)
    BY <1>9 DEF e
  <2> QED BY <1>4, <1>9, <2>2, <2>3
<1>10. Tear => \/ /\ index' = [index EXCEPT ![current] = Torn]
                  /\ UNCHANGED <<checksum, source, packageVars>>
               \/ /\ source' = [source EXCEPT ![Top[1]] = Torn]
                  /\ UNCHANGED <<checksum, index, packageVars>>
               \/ /\ Builds
                  /\ SetCached(Top, [Cached(Top) EXCEPT !.archive = Torn])
                  /\ UNCHANGED sourceVars
               \/ /\ phase = "packed"
                  /\ SetCached(Top, [Cached(Top) EXCEPT !.snapshot = Torn])
                  /\ UNCHANGED sourceVars
  BY DEF Tear
<1> QED BY <1>1, <1>5, <1>6, <1>7, <1>8, <1>9, <1>10

-----------------------------------------------------------------------------
(* The theorems *)

LEMMA InitHolds == Init => GenInv /\ FreshInv
<1> SUFFICES ASSUME Init PROVE GenInv /\ FreshInv
  OBVIOUS
<1> USE DEF Init
<1>1. TypeOK
  BY BoundsAssumption DEF TypeOK, Published, NoEntry
<1>2. EntryTypes
  BY DEF EntryTypes, Entries, NoEntry
<1>3. RemoteInv
  <2>1. ASSUME NEW p \in Packages PROVE remote[p] = [checksum |-> 1, index |-> 1, source |-> 1]
    OBVIOUS
  <2>2. \A p \in Packages : Len(Releases[p]) \in Nat /\ 1 <= Len(Releases[p])
    BY ReleasesLength
  <2> QED BY <2>1, <2>2 DEF RemoteInv, Published
<1>4. \A x \in Items : EntryOf(x) = NoEntry
  BY DEF EntryOf, Items
<1>5. OlderInv /\ EntriesInv /\ ArchivesReleased
  BY <1>4 DEF OlderInv, HasSnapshot, EntriesInv, EntryInv, Current, NoEntry,
              ArchivesReleased
<1>6. UpdateInv
  BY DEF UpdateInv, MetaInv, WalkInv, DoneInv, PackedInv, AssertionsHold
<1>7. UpdatedInv /\ ArchivesInv /\ PackedFresh
  BY DEF UpdatedInv, ArchivesInv, PackedFresh
<1> QED BY <1>1, <1>2, <1>3, <1>5, <1>6, <1>7 DEF GenInv, FreshInv

(* Nothing changes. *)
LEMMA StutterKeeps ==
  ASSUME GenInv, UNCHANGED repositoryVars
  PROVE  GenInv' /\ (FreshInv => FreshInv')
<1> USE DEF GenInv
<1>1. UNCHANGED <<remote, checksum, index, source, build, installation, phase, target,
                  current, todo, visited, stack, done, faults>>
  BY DEF repositoryVars, sourceVars, packageVars, updateVars
<1>2. TypeOK'
  BY <1>1 DEF TypeOK
<1> QED BY <1>1, <1>2, SameOlder, SameEntries, SameUpdate
        DEF RemoteInv, sourceVars, packageVars, updateVars, FreshInv

(* Every step keeps what holds whatever is published, and the rest while no  *)
(* release has been published again.                                         *)
LEMMA StepKeeps ==
  ASSUME GenInv, [Next]_repositoryVars
  PROVE  GenInv' /\ (FreshInv /\ ~Republished => FreshInv')
<1> DEFINE Kept == GenInv' /\ (FreshInv /\ ~Republished => FreshInv')
<1> SUFFICES Kept
  OBVIOUS
<1>1. CASE UNCHANGED repositoryVars
  BY <1>1, StutterKeeps
<1>2. ASSUME NEW p \in Packages, Publish(p) PROVE Kept
  BY <1>2, PublishKeeps
<1>3. ASSUME NEW p \in Packages, Update(p) PROVE Kept
  BY <1>3, UpdateKeeps
<1>4. CASE CleanCache
  BY <1>4, CleanCacheKeeps
<1>5. CASE UpdateStep
  <2>1. ASSUME NEW p \in Packages, UpdateChecksum(p) PROVE Kept
    BY <2>1, UpdateChecksumKeeps
  <2>2. CASE UpdateIndex
    BY <2>2, UpdateIndexKeeps
  <2>3. ASSUME NEW s \in Stages, Descend(s) PROVE Kept
    BY <2>3, DescendKeeps
  <2>4. CASE UpdateSources
    BY <2>4, UpdateSourcesKeeps
  <2>5. CASE UpToDate
    BY <2>5, UpToDateKeeps
  <2>6. CASE SnapshotUnreadable
    BY <2>6, EndKeeps
  <2>7. CASE Pack
    BY <2>7, PackKeeps
  <2>8. CASE WriteSnapshot
    BY <2>8, WriteSnapshotKeeps
  <2>9. CASE ArchiveUnreadable
    BY <2>9, EndKeeps
  <2> HIDE DEF Kept
  <2> QED BY <1>5, <2>1, <2>2, <2>3, <2>4, <2>5, <2>6, <2>7, <2>8, <2>9 DEF UpdateStep
<1>6. CASE Extract
  BY <1>6, EndKeeps
<1>7. CASE Interrupt
  BY <1>7, InterruptKeeps
<1> HIDE DEF Kept
<1> QED BY <1>1, <1>2, <1>3, <1>4, <1>5, <1>6, <1>7 DEF Next

(* A release that has been published again stays so. *)
LEMMA RepublishedStays ==
  ASSUME RemoteInv, TypeOK, [Next]_repositoryVars, Republished
  PROVE  Republished'
<1>1. PICK p \in Packages : \E m, n \in 1..remote[p].checksum :
        m < n /\ Releases[p][m] = Releases[p][n]
  BY DEF Republished, Updates!Republished
<1>2. /\ remote[p].checksum \in Nat /\ remote'[p].checksum \in Nat
      /\ remote[p].checksum <= remote'[p].checksum
  <2>1. remote[p].checksum \in Nat /\ remote \in [Packages -> Published]
    BY DEF TypeOK, Published
  <2>2. CASE remote' = remote
    BY <2>1, <2>2
  <2>3. ASSUME NEW q \in Packages, Publish(q)
        PROVE  /\ remote'[p].checksum \in Nat
               /\ remote[p].checksum <= remote'[p].checksum
    <3>1. remote[p] \in Published /\ remote[q] \in Published
      BY <2>1
    <3>2. CASE remote' = [remote EXCEPT ![q].index = @ + 1]
      BY <2>1, <3>1, <3>2 DEF Published
    <3>3. CASE remote' = [remote EXCEPT ![q].source = @ + 1]
      BY <2>1, <3>1, <3>3 DEF Published
    <3>4. CASE remote' = [remote EXCEPT ![q].checksum = @ + 1]
      BY <2>1, <3>1, <3>4 DEF Published
    <3> QED BY <2>3, <3>2, <3>3, <3>4 DEF Publish
  <2>4. (\E q \in Packages : Publish(q)) \/ remote' = remote
    <3>1. CASE \/ \E q \in Packages : Update(q) \/ UpdateChecksum(q)
               \/ CleanCache \/ UpdateIndex \/ Extract \/ Interrupt
      BY <3>1 DEF Update, UpdateChecksum, CleanCache, UpdateIndex, Extract, Interrupt
    <3>2. CASE \/ \E s \in Stages : Descend(s)
               \/ UpdateSources \/ UpToDate \/ SnapshotUnreadable \/ ArchiveUnreadable
               \/ Pack \/ WriteSnapshot
      BY <3>2 DEF Descend, UpdateSources, UpToDate, SnapshotUnreadable,
                  ArchiveUnreadable, Pack, WriteSnapshot
    <3>3. CASE UNCHANGED repositoryVars
      BY <3>3 DEF repositoryVars
    <3> QED BY <3>1, <3>2, <3>3 DEF Next, UpdateStep
  <2> QED BY <2>1, <2>2, <2>3, <2>4
<1>3. PICK m, n \in 1..remote[p].checksum : m < n /\ Releases[p][m] = Releases[p][n]
  BY <1>1
<1>4. m \in 1..remote'[p].checksum /\ n \in 1..remote'[p].checksum
  BY <1>2
<1> QED BY <1>3, <1>4 DEF Republished, Updates!Republished

(* The invariant is kept by every step. *)
LEMMA NextKeeps == CacheInv /\ [Next]_repositoryVars => CacheInv'
<1> SUFFICES ASSUME CacheInv, [Next]_repositoryVars PROVE CacheInv'
  OBVIOUS
<1>1. GenInv' /\ (FreshInv /\ ~Republished => FreshInv')
  BY StepKeeps DEF CacheInv
<1>2. ~Republished' => ~Republished
  BY RepublishedStays DEF CacheInv, GenInv
<1> QED BY <1>1, <1>2 DEF CacheInv

(* What is known of the cache and of the update under way at every moment,    *)
(* crashes included: the snapshots of what has been visited name the releases *)
(* fetched; and until a release is published again, every entry that could be *)
(* taken for up to date is made of the releases it lists.                     *)
(* (repository.cpp:239-308)                                                   *)
THEOREM CacheInvariant == Spec => []CacheInv
<1>1. Init => CacheInv
  BY InitHolds DEF CacheInv
<1> QED BY <1>1, NextKeeps, PTL DEF Spec

(* The variables keep their types: what the builder packs and what snapshots  *)
(* list are packages with checksums. (repository.cpp:239-308)                 *)
THEOREM RepositoryTypes == Spec => []TypeOK
<1>1. CacheInv => TypeOK
  BY DEF CacheInv, GenInv
<1> QED BY <1>1, CacheInvariant, PTL

(* No assertion after a build fails: the closures that the builder and the   *)
(* dependency walk compute are the same. (repository.cpp:267, :283, :298)    *)
THEOREM BuildsAsExpected == Spec => []AssertionsHold
<1>1. CacheInv => AssertionsHold
  BY DEF CacheInv, GenInv, UpdateInv
<1> QED BY <1>1, CacheInvariant, PTL

(* The snapshot that update() returns with is of the current releases,       *)
(* whatever was reused, published and interrupted, and the archive is made   *)
(* of them unless a release has been published again.                        *)
(* (repository.cpp:263, :280, :295)                                          *)
LEMMA FreshWhenUpdated == CacheInv => UpdatedIsFresh
<1> SUFFICES ASSUME CacheInv, phase = "updated"
             PROVE  /\ installation[target].snapshot = Expected(target)
                    /\ Republished \/ installation[target].archive = Expected(target)
  BY DEF UpdatedIsFresh
<1> USE DEF CacheInv, GenInv, UpdateInv
<1> DEFINE y == <<target, "installation">>
<1>1. y \in DOMAIN done /\ todo = {} /\ visited \subseteq Packages
  BY DEF WalkInv, MetaInv, TypeOK
<1>2. Proper(y) /\ y[1] = target /\ y[2] = "installation"
  BY <1>1 DEF WalkInv
<1>3. target \in visited /\ target \in Packages
  BY <1>1, <1>2 DEF Proper
<1>4. y \in Items
  BY <1>3 DEF Items
<1>5. /\ installation[target].snapshot = Made(checksum, y)
      /\ Republished \/ installation[target].archive = Made(checksum, y)
  BY <1>1, <1>2, <1>4, DoneMade DEF FreshInv
<1>6. Expected(target) = Made(checksum, y)
  BY <1>1, <1>3, MadeOfIs DEF Expected, Made
<1> QED BY <1>5, <1>6

(* An update that returns has a snapshot that names the current release of   *)
(* every package the installation needs, and has installed these, unless a   *)
(* release has been published again. (repository.cpp:212)                    *)
THEOREM UpdatesAreFresh == Spec => []UpdatedIsFresh
BY FreshWhenUpdated, CacheInvariant, PTL

(* A snapshot that tells of other things than its archive is made of lists a *)
(* checksum that the server has replaced, until a release is published       *)
(* again: no update takes it for up to date.                                 *)
LEMMA HonestSnapshots == CacheInv => SnapshotHonest
<1> SUFFICES ASSUME CacheInv, ~Republished, NEW x \in Items, HasSnapshot(x),
                    \A y \in EntryOf(x).snapshot : y[2] = remote_checksum(y[1])
             PROVE  EntryOf(x).archive = EntryOf(x).snapshot
  <2>1. \A p \in Packages : /\ <<p, "installation">> \in Items
                            /\ <<p, "source">> \in Items
                            /\ EntryOf(<<p, "installation">>) = installation[p]
                            /\ EntryOf(<<p, "source">>) = build[p]
    BY DEF Items, EntryOf
  <2> QED BY <2>1 DEF SnapshotHonest, HasSnapshot
<1>1. \A y \in EntryOf(x).snapshot : checksum[y[1]] = y[2]
  BY ServedIsCached DEF CacheInv, GenInv
<1>2. Current(x)
  BY <1>1 DEF Current
<1> QED BY <1>2 DEF CacheInv, FreshInv, EntriesInv, EntryInv

(* While no release is published again, a snapshot that could be taken for *)
(* current vouches for its own archive, whenever an update was interrupted. *)
(* (builder.cpp:76)                                                        *)
THEOREM SnapshotsAreHonest == Spec => []SnapshotHonest
BY HonestSnapshots, CacheInvariant, PTL

----------------------------------------------------------------------------
(* The repository implements the abstract updates *)

(* The releases an update has picked, as the mapping has them. *)
Picks == [p \in Packages |-> IF p \in Picked THEN checksum[p] ELSE None]

(* What is below an installation that has been visited was picked. *)
LEMMA PicksWhole ==
  ASSUME CacheInv, phase = "updated"
  PROVE  LET y == <<target, "installation">> IN
         /\ target \in Packages /\ y \in Items /\ Whole(checksum, y)
         /\ installation[target].snapshot = Made(checksum, y)
         /\ Republished \/ installation[target].archive = Made(checksum, y)
         /\ \A x \in Below(checksum, y) : x \in Items /\ Picks[x[1]] = checksum[x[1]]
<1> USE DEF CacheInv, GenInv, UpdateInv
<1> DEFINE y == <<target, "installation">>
<1>1. y \in DOMAIN done /\ visited \subseteq Packages
  BY DEF WalkInv, TypeOK
<1>2. target \in Packages /\ y[1] = target /\ y[2] = "installation"
  BY <1>1 DEF WalkInv, Proper
<1>3. y \in Items
  BY <1>2 DEF Items
<1>4. /\ installation[target].snapshot = Made(checksum, y)
      /\ Republished \/ installation[target].archive = Made(checksum, y)
  BY <1>1, <1>2, <1>3, DoneMade DEF FreshInv
<1>5. Below(checksum, y) \subseteq DOMAIN done /\ Whole(checksum, y)
  BY <1>1, <1>3, DoneBelow
<1>6. ASSUME NEW x \in Below(checksum, y)
      PROVE  x \in Items /\ Picks[x[1]] = checksum[x[1]]
  <2>1. x \in Items /\ x[1] \in Packages
    BY <1>3, BelowClosed DEF Items
  <2>2. x[1] \in visited
    BY <1>5 DEF WalkInv, Proper
  <2> QED BY <2>1, <2>2 DEF Picks, Picked
<1> QED BY <1>2, <1>3, <1>4, <1>5, <1>6

(* The parts of what has been installed are those of the closure of imports, *)
(* and a release of each has been picked.                                    *)
LEMMA PartsAreOrigins ==
  ASSUME CacheInv, phase = "updated"
  PROVE  /\ Updates!Parts(target) = Origins(checksum, <<target, "installation">>)
         /\ \A q \in Updates!Parts(target) : Picks[q] = checksum[q] /\ Picks[q] # None
<1> DEFINE y == <<target, "installation">>
           B == Below(checksum, y)
<1>1. /\ target \in Packages /\ y \in Items /\ Whole(checksum, y)
      /\ \A x \in B : x \in Items /\ Picks[x[1]] = checksum[x[1]]
  BY PicksWhole
<1>2. ASSUME NEW x \in Items, Picks[x[1]] \in Checksums, Picks[x[1]] = checksum[x[1]]
      PROVE  Updates!Needs(x) = Needed(checksum, x)
  <2>1. Picks[x[1]] # None
    BY <1>2, AbsentAssumption
  <2> QED BY <1>2, <2>1 DEF Updates!Needs, Updates!Only, Needed, Stage, Picks
<1>3. ASSUME NEW x \in Items, Updates!Needs(x) \subseteq Items
      PROVE  Needed(checksum, x) \subseteq Updates!Needs(x)
             \/ Picks[x[1]] # checksum[x[1]]
  <2>1. CASE checksum[x[1]] \in Checksums
    BY <1>2, <2>1
  <2>2. CASE checksum[x[1]] \notin Checksums
    BY <2>2 DEF Needed
  <2> QED BY <2>1, <2>2
<1>4. ASSUME NEW x \in B PROVE Updates!Needs(x) = Needed(checksum, x)
  BY <1>1, <1>2, <1>4 DEF Whole
<1>5. Updates!Items = Items
  BY DEF Updates!Items, Items
<1>6. B \in SUBSET Items /\ y \in B /\ \A x \in B : Updates!Needs(x) \subseteq B
  BY <1>1, <1>4, BelowClosed DEF Closed
<1>7. ASSUME NEW q \in Updates!Parts(target) PROVE q \in Origins(checksum, y)
  <2>1. q \in Packages /\ <<q, "source">> \in B
    BY <1>5, <1>6 DEF Updates!Parts
  <2> QED BY <2>1 DEF Origins
<1>8. ASSUME NEW q \in Origins(checksum, y) PROVE q \in Updates!Parts(target)
  <2>1. q \in Packages /\ <<q, "source">> \in B
    BY DEF Origins
  <2>2. ASSUME NEW xs \in SUBSET Items, y \in xs,
               \A x \in xs : Updates!Needs(x) \subseteq xs
        PROVE  <<q, "source">> \in xs
    <3>1. Closed(checksum, xs \cap B)
      <4>1. ASSUME NEW x \in xs \cap B PROVE Needed(checksum, x) \subseteq xs \cap B
        BY <1>4, <1>6, <2>2
      <4> QED BY <4>1 DEF Closed
    <3>2. B \subseteq xs \cap B
      BY <1>6, <2>2, <3>1, BelowLeast
    <3> QED BY <2>1, <3>2
  <2> QED BY <1>5, <2>1, <2>2 DEF Updates!Parts
<1>9. Updates!Parts(target) = Origins(checksum, y)
  <2>1. Updates!Parts(target) \subseteq Packages /\ Origins(checksum, y) \subseteq Packages
    BY DEF Updates!Parts, Origins
  <2> QED BY <1>7, <1>8
<1>10. ASSUME NEW q \in Origins(checksum, y)
       PROVE  Picks[q] = checksum[q] /\ Picks[q] # None
  <2>1. <<q, "source">> \in B /\ <<q, "source">>[1] = q
    BY DEF Origins
  <2>2. checksum[q] \in Checksums /\ Picks[q] = checksum[q]
    BY <1>1, <2>1 DEF Whole
  <2> QED BY <2>2, AbsentAssumption
<1> QED BY <1>9, <1>10

(* What an update returns with is what its picks call for; the archive may   *)
(* not be, once a release has been published again.                          *)
InstalledAsPicked ==
  phase = "updated" =>
    /\ \A q \in Updates!Parts(target) : Picks[q] # None
    /\ installation[target].snapshot = Updates!Whole(target)
    /\ Republished \/ installation[target].archive = Updates!Whole(target)

(* Every update that returns has installed what its picks call for. *)
LEMMA UpdatedAsPicked == CacheInv => InstalledAsPicked
<1> SUFFICES ASSUME CacheInv, phase = "updated"
             PROVE  /\ \A q \in Updates!Parts(target) : Picks[q] # None
                    /\ installation[target].snapshot = Updates!Whole(target)
                    /\ Republished \/ installation[target].archive = Updates!Whole(target)
  BY DEF InstalledAsPicked
<1>1. Updates!Whole(target) = Made(checksum, <<target, "installation">>)
  <2>1. Updates!Whole(target) = {<<q, Picks[q]>> : q \in Updates!Parts(target)}
    BY DEF Updates!Whole, Picks
  <2> QED BY <2>1, PartsAreOrigins DEF Made
<1> QED BY <1>1, PicksWhole, PartsAreOrigins

(* The update under way has a target. *)
LEMMA Targeted == CacheInv /\ phase # "idle" => target # None
BY AbsentAssumption DEF CacheInv, GenInv, UpdateInv, MetaInv, TypeOK

(* The walk leaves the server and the checksums it has fetched alone, and    *)
(* goes on or ends the update.                                               *)
LEMMA WalkSteps ==
  ASSUME \/ \E s \in Stages : Descend(s)
         \/ UpdateSources \/ UpToDate \/ SnapshotUnreadable
         \/ ArchiveUnreadable \/ Pack \/ WriteSnapshot
  PROVE  /\ phase \in {"build", "packed"}
         /\ UNCHANGED <<remote, checksum>>
         /\ \/ Unlock
            \/ UNCHANGED <<target, visited>> /\ phase' \notin {"idle", "index"}
<1>1. CASE \E s \in Stages : Descend(s)
  BY <1>1 DEF Descend, sourceVars
<1>2. CASE UpdateSources
  BY <1>2 DEF UpdateSources, DependsDone, Leave
<1>3. CASE UpToDate
  BY <1>3 DEF UpToDate, DependsDone, Leave, sourceVars
<1>4. CASE SnapshotUnreadable
  BY <1>4 DEF SnapshotUnreadable, DependsDone, sourceVars
<1>5. CASE Pack
  BY <1>5 DEF Pack, Builds, DependsDone, sourceVars
<1>6. CASE WriteSnapshot
  BY <1>6 DEF WriteSnapshot, Leave, sourceVars
<1>7. CASE ArchiveUnreadable
  BY <1>7 DEF ArchiveUnreadable, Builds, DependsDone, sourceVars
<1> QED BY <1>1, <1>2, <1>3, <1>4, <1>5, <1>6, <1>7

(* The idle repository has no target. *)
TargetInv == phase = "idle" => target = None

(* An update gets its target with the lock, and loses it with the lock. *)
LEMMA TargetKept == TargetInv /\ [Next]_repositoryVars => TargetInv'
<1> SUFFICES ASSUME TargetInv, [Next]_repositoryVars PROVE TargetInv'
  OBVIOUS
<1> USE DEF TargetInv
<1>1. CASE UNCHANGED repositoryVars
  BY <1>1 DEF repositoryVars, updateVars
<1>2. CASE (\E p \in Packages : Publish(p)) \/ CleanCache
  BY <1>2 DEF Publish, CleanCache, updateVars
<1>3. CASE \E p \in Packages : Update(p) \/ UpdateChecksum(p)
  BY <1>3 DEF Update, UpdateChecksum
<1>4. CASE UpdateIndex
  BY <1>4 DEF UpdateIndex, Unlock
<1>5. CASE \/ \E s \in Stages : Descend(s)
           \/ UpdateSources \/ UpToDate \/ SnapshotUnreadable
           \/ ArchiveUnreadable \/ Pack \/ WriteSnapshot
  BY <1>5, WalkSteps DEF Unlock
<1>6. CASE Extract \/ Interrupt
  BY <1>6 DEF Extract, Interrupt, Unlock
<1> QED BY <1>1, <1>2, <1>3, <1>4, <1>5, <1>6 DEF Next, UpdateStep

(* Hence no target outlives its update. (repository.cpp:117-132) *)
LEMMA TargetInvariant == Spec => []TargetInv
<1>1. Init => TargetInv
  BY DEF Init, TargetInv
<1> QED BY <1>1, TargetKept, PTL DEF Spec

Numbers == [p \in Packages |-> remote[p].checksum]
Installed == IF phase = "updated" THEN {installation[target]} ELSE {}

(* Nothing of what the abstract update sees changes. *)
LEMMA UpdatesStutter ==
  ASSUME UNCHANGED <<Numbers, target, Picks, Installed>>
  PROVE  UNCHANGED Updates!updatesVars
BY DEF Updates!updatesVars, Numbers, Picks, Installed

(* Letting go of the lock ends the abstract update. *)
LEMMA UnlockEnds ==
  ASSUME CacheInv, phase # "idle", Unlock, remote' = remote
  PROVE  Updates!End
<1>1. target # None
  BY Targeted
<1>2. Numbers' = Numbers
  BY DEF Numbers
<1>3. visited' = {} /\ phase' = "idle" /\ target' = None
  BY DEF Unlock
<1>4. Picks' = Updates!NothingPicked
  BY <1>3 DEF Picks, Picked, Updates!NothingPicked
<1> QED BY <1>1, <1>2, <1>3, <1>4 DEF Updates!End, Numbers, Picks

(* The checksum of a package is replaced last, which is when a release is    *)
(* the current one.                                                          *)
LEMMA PublishPublishes ==
  ASSUME CacheInv, NEW p \in Packages, Publish(p)
  PROVE  Updates!Publish(p) \/ UNCHANGED Updates!updatesVars
<1> USE DEF CacheInv, GenInv
<1>1. UNCHANGED <<Picks, target, Installed>>
  BY DEF Publish, sourceVars, packageVars, updateVars, Picks, Picked, Installed
<1>2. remote[p] \in Published /\ remote \in [Packages -> Published]
  BY DEF TypeOK
<1>3. CASE Numbers' = Numbers
  BY <1>1, <1>3, UpdatesStutter
<1>4. CASE Numbers' # Numbers
  <2>1. /\ remote[p].checksum < remote[p].source
        /\ remote' = [remote EXCEPT ![p].checksum = @ + 1]
    <3>1. CASE remote' = [remote EXCEPT ![p].index = @ + 1]
      BY <1>2, <1>4, <3>1 DEF Numbers, Published
    <3>2. CASE remote' = [remote EXCEPT ![p].source = @ + 1]
      BY <1>2, <1>4, <3>2 DEF Numbers, Published
    <3> QED BY <3>1, <3>2 DEF Publish
  <2>2. Numbers' = [Numbers EXCEPT ![p] = @ + 1]
    BY <1>2, <2>1 DEF Numbers, Published
  <2>3. Numbers[p] < Len(Releases[p])
    BY <1>2, <2>1, ReleasesLength DEF Numbers, RemoteInv, Published
  <2> QED BY <1>1, <2>2, <2>3 DEF Updates!Publish, Numbers, Picks, Installed
<1> QED BY <1>3, <1>4

(* Fetching a checksum picks the release it is of. *)
LEMMA ChecksumPicks ==
  ASSUME CacheInv, NEW p \in Packages, UpdateChecksum(p)
  PROVE  Updates!Pick(p)
<1> USE DEF CacheInv, GenInv
<1>1. /\ phase = "meta" /\ phase' = "index" /\ p \in todo /\ current' = p
      /\ checksum' = [checksum EXCEPT ![p] = remote_checksum(p)]
      /\ UNCHANGED <<remote, target, visited, installation>>
  BY DEF UpdateChecksum, packageVars
<1>2. p \notin visited
  BY <1>1 DEF UpdateInv, MetaInv
<1>3. Picks[p] = None
  BY <1>1, <1>2 DEF Picks, Picked
<1>4. Picks' = [Picks EXCEPT ![p] = Releases[p][Numbers[p]]]
  <2>1. Picked' = Picked \cup {p}
    BY <1>1 DEF Picked
  <2>2. ASSUME NEW q \in Packages
        PROVE  Picks'[q] = IF q = p THEN Releases[p][Numbers[p]] ELSE Picks[q]
    BY <1>1, <2>1 DEF Picks, Numbers, remote_checksum, TypeOK
  <2> QED BY <2>2 DEF Picks
<1>5. Numbers' = Numbers /\ target # None
  BY <1>1, Targeted DEF Numbers
<1> QED BY <1>1, <1>3, <1>4, <1>5 DEF Updates!Pick, Picks, Numbers

(* The walk ends with the installation that its picks call for. *)
LEMMA WalkInstalls ==
  ASSUME CacheInv, InstalledAsPicked',
         phase \in {"build", "packed"}, phase' \notin {"idle", "index"},
         UNCHANGED <<remote, checksum, target, visited>>
  PROVE  Updates!Install \/ UNCHANGED Updates!updatesVars
<1>1. Picks' = Picks /\ Numbers' = Numbers /\ Picked' = Picked
  BY DEF Picks, Picked, Numbers
<1>2. CASE phase' # "updated"
  BY <1>1, <1>2, UpdatesStutter DEF Installed
<1>3. CASE phase' = "updated"
  <2>1. /\ Updates!Parts(target)' = Updates!Parts(target)
        /\ Updates!Whole(target)' = Updates!Whole(target)
    BY <1>1 DEF Updates!Parts, Updates!Whole, Updates!Needs, Picks
  <2>2. Republished' = Republished
    BY DEF Republished, Updates!Republished
  <2>3. /\ \A q \in Updates!Parts(target) : Picks[q] # None
        /\ installation'[target].snapshot = Updates!Whole(target)
        /\ Republished \/ installation'[target].archive = Updates!Whole(target)
    BY <1>1, <1>3, <2>1, <2>2 DEF InstalledAsPicked
  <2>4. target # None
    BY Targeted
  <2>5. Installed = {} /\ Installed' = {installation'[target]}
    BY <1>3 DEF Installed
  <2>6. \E entry \in Installed' :
          /\ Installed' = {entry}
          /\ entry.snapshot = Updates!Whole(target)
          /\ Republished \/ entry.archive = Updates!Whole(target)
    BY <2>3, <2>5
  <2> QED BY <1>1, <2>3, <2>4, <2>5, <2>6
          DEF Updates!Install, Republished, Picks, Numbers, Installed
<1> QED BY <1>2, <1>3

(* Every step is one of the abstract updates or none. *)
LEMMA UpdatesStep ==
  ASSUME CacheInv, TargetInv, InstalledAsPicked', [Next]_repositoryVars
  PROVE  [Updates!Next]_(Updates!updatesVars)
<1>1. CASE UNCHANGED repositoryVars
  BY <1>1, UpdatesStutter DEF repositoryVars, sourceVars, packageVars, updateVars,
     Numbers, Picks, Picked, Installed
<1>2. ASSUME NEW p \in Packages, Publish(p) PROVE [Updates!Next]_(Updates!updatesVars)
  BY <1>2, PublishPublishes DEF Updates!Next
<1>3. ASSUME NEW p \in Packages, Update(p) PROVE [Updates!Next]_(Updates!updatesVars)
  <2>1. /\ phase = "idle" /\ phase' = "meta" /\ target' = p
        /\ UNCHANGED <<remote, checksum, visited>>
    BY <1>3 DEF Update, sourceVars
  <2>2. target = None
    BY <2>1 DEF TargetInv
  <2>3. UNCHANGED <<Numbers, Picks, Installed>>
    BY <2>1 DEF Numbers, Picks, Picked, Installed
  <2>4. Updates!Begin(p)
    BY <2>1, <2>2, <2>3 DEF Updates!Begin, Numbers, Picks, Installed
  <2> QED BY <2>4 DEF Updates!Next
<1>4. CASE CleanCache
  <2>1. phase = "idle" /\ UNCHANGED <<remote, phase, target, visited>> /\ visited = {}
    BY <1>4 DEF CleanCache, updateVars, CacheInv, GenInv, UpdateInv, MetaInv
  <2> QED BY <2>1, UpdatesStutter DEF Numbers, Picks, Picked, Installed
<1>5. ASSUME NEW p \in Packages, UpdateChecksum(p)
      PROVE  [Updates!Next]_(Updates!updatesVars)
  BY <1>5, ChecksumPicks DEF Updates!Next
<1>6. CASE UpdateIndex
  <2>1. phase = "index" /\ UNCHANGED <<remote, checksum>>
    BY <1>6 DEF UpdateIndex
  <2>2. CASE Unlock
    BY <2>1, <2>2, UnlockEnds DEF Updates!Next
  <2>3. CASE ~Unlock
    <3>1. visited' = visited \cup {current} /\ phase' \in {"build", "meta"}
          /\ target' = target
      BY <1>6, <2>3 DEF UpdateIndex
    <3>2. Picked' = Picked
      BY <2>1, <3>1 DEF Picked
    <3> QED BY <2>1, <3>1, <3>2, UpdatesStutter DEF Numbers, Picks, Installed
  <2> QED BY <2>2, <2>3
<1>7. CASE \/ \E s \in Stages : Descend(s)
           \/ UpdateSources \/ UpToDate \/ SnapshotUnreadable
           \/ ArchiveUnreadable \/ Pack \/ WriteSnapshot
  <2>1. /\ phase \in {"build", "packed"} /\ UNCHANGED <<remote, checksum>>
        /\ \/ Unlock
           \/ UNCHANGED <<target, visited>> /\ phase' \notin {"idle", "index"}
    BY <1>7, WalkSteps
  <2> QED BY <2>1, UnlockEnds, WalkInstalls DEF Updates!Next
<1>8. CASE Extract \/ Interrupt
  <2>1. phase # "idle" /\ Unlock /\ remote' = remote
    BY <1>8 DEF Extract, Interrupt
  <2> QED BY <2>1, UnlockEnds DEF Updates!Next
<1> QED BY <1>1, <1>2, <1>3, <1>4, <1>5, <1>6, <1>7, <1>8 DEF Next, UpdateStep

(* At first the first releases are out and no update is under way. *)
LEMMA UpdatesInit == Init => Updates!Init
BY DEF Init, Picked, Updates!Init, Updates!NothingPicked

(* Every update picks one release of each package it comes to, current at    *)
(* that moment, and one that returns has a snapshot that names exactly what  *)
(* these need, and has installed it unless a release has been published      *)
(* again; however publishing, interruptions and clean_cache() come between.  *)
(* (repository.cpp:62, :192, :206, distributor.cpp:130)                      *)
THEOREM UpdatesInstallTheirPicks == Spec => ImplementsUpdates
<1>1. CacheInv /\ CacheInv' /\ TargetInv /\ [Next]_repositoryVars
        => [Updates!Next]_(Updates!updatesVars)
  <2>1. CacheInv' => InstalledAsPicked'
    BY UpdatedAsPicked, PTL
  <2> QED BY <2>1, UpdatesStep
<1> QED BY <1>1, UpdatesInit, CacheInvariant, TargetInvariant, PTL DEF Spec, ImplementsUpdates, Updates!Spec

----------------------------------------------------------------------------
(* The cache of installed packages and its users *)

(* Users that have the exclusive lock, users that have a shared one, and     *)
(* users that are getting a package or have got it.                          *)
Exclusive == {"update", "reset", "extract", "install", "unlock", "cleaning"}
Sharing == {"entry", "send"}
Getting == {"meta", "time", "exclusive", "update", "reset", "extract", "install",
            "unlock", "shared", "entry", "send"}

DataReleased(p) == data[p] \in ReleasesOf

CacheTyped ==
  /\ released \in [Installable -> ReleasesOf]
  /\ now \in Nat
  /\ DOMAIN data = Installable
  /\ DOMAIN meta = Installable
  /\ whole \subseteq Installable
  /\ DOMAIN pc = Users
  /\ package \in [Users -> Installable \cup {Nothing}]
  /\ DOMAIN found = Users
  /\ DOMAIN asked = Users
  /\ DOMAIN pieces = Users
  /\ sharers \subseteq Users

(* A meta vouches for files that are not all there only if it is too old to  *)
(* be believed and of a release that is not current, or if they count as     *)
(* damaged; and whoever installs a package knows how far the installation    *)
(* is.                                                                       *)
Kept(p) == p \in whole \cup damaged
Expired(p) == now > Lifetime + meta[p].time
Stamped == [snapshot : ReleasesOf \cup {Unreadable}, time : Nat]

FilesInv ==
  \A p \in Installable :
    /\ p \in whole => DataReleased(p)
    /\ meta[p] # Nothing =>
         /\ meta[p] \in Stamped /\ meta[p].time <= now
         /\ Kept(p) \/ (Expired(p) /\ meta[p].snapshot # released[p])

UpdatersInv ==
  \A u \in Users :
    /\ pc[u] \in Getting => package[u] \in Installable
    /\ pc[u] \in {"reset", "extract", "install"} => found[u] \in ReleasesOf
    /\ pc[u] \in {"update", "reset"} =>
         meta[package[u]] = Nothing \/ Expired(package[u])
    /\ pc[u] \in {"extract", "install"} => meta[package[u]] = Nothing
    /\ pc[u] = "install" => package[u] \in whole
    /\ pc[u] = "unlock" => Kept(package[u])

DiskInv == FilesInv /\ UpdatersInv

(* The locks are what the places of the users say. *)
LocksInv ==
  /\ \A u \in Users : pc[u] \in Exclusive => owner = u
  /\ \A u \in Users : pc[u] \in Sharing <=> u \in sharers
  /\ owner # Nothing => sharers = {}

(* A decision that an installation is good holds, or is overtaken.           *)
HeldInv ==
  \A u \in Users :
    pc[u] \in {"shared", "entry", "send"} => Kept(package[u]) \/ u \in overtaken

(* What was compared with the request stays until all of it is sent.         *)
Sent(u) == pieces[u] \in Seq({asked[u].revision})
SendInv ==
  \A u \in Users :
    IF pc[u] = "send" THEN data[package[u]] = asked[u].revision /\ Sent(u)
                      ELSE pieces[u] = <<>>

StatementsInv == CacheTyped /\ DiskInv /\ LocksInv /\ HeldInv /\ SendInv

(* Nothing is no release. *)
LEMMA NoRelease == Nothing \notin ReleasesOf /\ Nothing \notin Users
                   /\ Nothing \notin Installable
  BY NothingAssumption, CacheBoundsAssumption DEF ReleasesOf

(* The invariant holds at first. *)
LEMMA StatementsInvInit == ProviderInit => StatementsInv
<1> SUFFICES ASSUME ProviderInit PROVE StatementsInv OBVIOUS
<1> USE DEF ProviderInit, CacheInit
<1>1. 1 \in ReleasesOf BY CacheBoundsAssumption DEF ReleasesOf
<1>2. CacheTyped BY <1>1 DEF CacheTyped
<1>3. DiskInv BY DEF DiskInv, FilesInv, UpdatersInv, Getting
<1>4. LocksInv BY DEF LocksInv, Exclusive, Sharing
<1>5. HeldInv /\ SendInv BY DEF HeldInv, SendInv
<1> QED BY <1>2, <1>3, <1>4, <1>5 DEF StatementsInv

(* A meta that is old is expired: the clock does not run backwards. *)
LEMMA OldIsExpired ==
  ASSUME CacheTyped, FilesInv, NEW p \in Installable, meta[p] # Nothing
  PROVE  out_of_range(p) <=> Expired(p)
  BY CacheBoundsAssumption DEF CacheTyped, FilesInv, Stamped, out_of_range, Expired

(* What is neither missing nor old is kept. *)
LEMMA GoodIsKept ==
  ASSUME CacheTyped, FilesInv, NEW p \in Installable, ~OldMeta(p)
  PROVE  Kept(p)
  BY OldIsExpired DEF OldMeta, FilesInv

(* A meta has a time. *)
LEMMA StampedTime == \A x \in Stamped : x.time \in Nat
  BY DEF Stamped

(* Nobody has an entry while somebody has the exclusive lock. *)
LEMMA AloneInside ==
  ASSUME LocksInv, NEW u \in Users, pc[u] \in Exclusive
  PROVE  /\ owner = u /\ sharers = {}
         /\ \A w \in Users : pc[w] \notin Sharing
         /\ \A w \in Users \ {u} : pc[w] \notin Exclusive
  BY NoRelease DEF LocksInv

(* Steps that move one user without touching the disk or the locks. *)
LEMMA UnlockedSteps ==
  ASSUME StatementsInv, NEW u \in Users, UNCHANGED providerVars,
         FindMeta(u) \/ ReadTime(u) \/ MetaVanished(u) \/ WriterWaits(u)
           \/ Clean(u)
  PROVE  StatementsInv'
<1> USE NoRelease DEF StatementsInv, FindMeta, ReadTime, MetaVanished, WriterWaits,
      Clean, Goes, releaseVars, diskVars, mlockVars, providerVars
<1>1. CacheTyped' BY DEF CacheTyped
<1>2. DiskInv'
  <2>1. FilesInv' BY DEF DiskInv, FilesInv, Kept, Expired, DataReleased
  <2>2. UpdatersInv'
    BY DEF CacheTyped, DiskInv, UpdatersInv, Getting, Kept, Expired
  <2> QED BY <2>1, <2>2 DEF DiskInv
<1>3. LocksInv' BY DEF CacheTyped, LocksInv, Exclusive, Sharing
<1>4. HeldInv'
  <2>1. pc'[u] = "shared" => Kept(package[u])
    <3>1. package[u] \in Installable \/ pc'[u] # "shared"
      BY DEF CacheTyped, DiskInv, UpdatersInv, Getting
    <3> QED BY <3>1, GoodIsKept DEF CacheTyped, DiskInv, OldMeta
  <2> QED BY <2>1 DEF CacheTyped, HeldInv, Kept
<1>5. SendInv' BY DEF CacheTyped, LocksInv, Exclusive, Sharing, SendInv, Sent
<1> QED BY <1>1, <1>2, <1>3, <1>4, <1>5

(* Taking and giving back the locks. *)
LEMMA LockSteps ==
  ASSUME StatementsInv, NEW u \in Users, UNCHANGED providerVars,
         LockToUpdate(u) \/ UnlockUpdated(u) \/ LockShared(u) \/ UnlockCleaned(u)
  PROVE  StatementsInv'
<1> USE NoRelease DEF StatementsInv, LockToUpdate, UnlockUpdated, LockShared,
      UnlockCleaned, LockExclusive, UnlockExclusive, Forget, Goes, releaseVars,
      diskVars, mlockVars, providerVars
<1>1. CacheTyped' BY DEF CacheTyped
<1>2. DiskInv'
  <2>1. FilesInv' BY DEF DiskInv, FilesInv, Kept, Expired, DataReleased
  <2>2. LockToUpdate(u) =>
          /\ package[u] \in Installable
          /\ pc'[u] = "update" => meta[package[u]] = Nothing \/ Expired(package[u])
          /\ pc'[u] = "unlock" => Kept(package[u])
    <3> SUFFICES ASSUME LockToUpdate(u) PROVE
          /\ package[u] \in Installable
          /\ pc'[u] = "update" => meta[package[u]] = Nothing \/ Expired(package[u])
          /\ pc'[u] = "unlock" => Kept(package[u])
      OBVIOUS
    <3>1. package[u] \in Installable BY DEF DiskInv, UpdatersInv, Getting
    <3> QED BY <3>1, OldIsExpired, GoodIsKept DEF CacheTyped, DiskInv, OldMeta
  <2>3. UpdatersInv'
    BY <2>2 DEF CacheTyped, DiskInv, UpdatersInv, Getting, Kept, Expired
  <2> QED BY <2>1, <2>3 DEF DiskInv
<1>3. LocksInv' BY DEF CacheTyped, LocksInv, Exclusive, Sharing
<1>4. HeldInv'
  <2>1. UnlockUpdated(u) => Kept(package[u]) BY DEF DiskInv, UpdatersInv
  <2> QED BY <2>1 DEF CacheTyped, HeldInv, Kept
<1>5. SendInv' BY DEF CacheTyped, LocksInv, Exclusive, Sharing, SendInv, Sent
<1> QED BY <1>1, <1>2, <1>3, <1>4, <1>5

(* The steps of an update, in the exclusive section of get(). *)
LEMMA UpdateSteps ==
  ASSUME StatementsInv, NEW u \in Users, UNCHANGED providerVars,
         UpdatePackage(u) \/ InstallReset(u) \/ InstallData(u) \/ InstallMeta(u)
  PROVE  StatementsInv'
<1> USE NoRelease DEF StatementsInv, Goes, releaseVars, diskVars, mlockVars, providerVars
<1> DEFINE q == package[u]
<1>0. q \in Installable
  BY DEF DiskInv, UpdatersInv, Getting, UpdatePackage, InstallReset, InstallData, InstallMeta
<1>l. /\ owner = u /\ sharers = {} /\ \A w \in Users : pc[w] \notin Sharing
      /\ \A w \in Users \ {u} : pc[w] \notin Exclusive
  <2>1. pc[u] \in Exclusive
    BY DEF Exclusive, UpdatePackage, InstallReset, InstallData, InstallMeta
  <2> QED BY <2>1, AloneInside
<1>1. CASE UpdatePackage(u)
  <2> USE <1>1 DEF UpdatePackage
  <2> DEFINE same == meta[q] # Nothing /\ meta[q].snapshot = released[q]
  <2>1. CacheTyped' BY <1>0 DEF CacheTyped
  <2>s. same => Kept(q) BY <1>0 DEF DiskInv, FilesInv
  <2>m. \A p \in Installable :
          \/ meta'[p] = meta[p]
          \/ /\ p = q /\ same
             /\ meta'[p].time = now /\ meta'[p] \in Stamped
    <3>1. CASE ~same BY <3>1
    <3>2. CASE same
      <4>1. meta'[q] = [meta[q] EXCEPT !.time = now]
            /\ \A p \in Installable \ {q} : meta'[p] = meta[p]
        BY <1>0, <3>2 DEF CacheTyped
      <4>2. meta[q] \in Stamped BY <1>0, <3>2 DEF DiskInv, FilesInv
      <4>3. [meta[q] EXCEPT !.time = now].time = now
            /\ [meta[q] EXCEPT !.time = now] \in Stamped
        BY <4>2 DEF Stamped, CacheTyped
      <4> QED BY <3>2, <4>1, <4>3
    <3> QED BY <3>1, <3>2
  <2>2. FilesInv' BY <2>s, <2>m DEF CacheTyped, DiskInv, FilesInv, Kept, Expired, DataReleased
  <2>3. UpdatersInv'
    BY <2>s, <1>0, <1>l DEF CacheTyped, DiskInv, UpdatersInv, Exclusive, Getting, Kept, Expired
  <2>4. LocksInv' BY DEF CacheTyped, LocksInv, Exclusive, Sharing
  <2>5. HeldInv' BY DEF CacheTyped, HeldInv, Kept
  <2>6. SendInv' BY <1>l DEF CacheTyped, SendInv, Sharing, Sent
  <2> QED BY <2>1, <2>2, <2>3, <2>4, <2>5, <2>6 DEF DiskInv
<1>2. CASE InstallReset(u)
  <2> USE <1>2 DEF InstallReset, Overtake
  <2>1. CacheTyped' BY DEF CacheTyped
  <2>2. FilesInv' BY <1>0 DEF CacheTyped, DiskInv, FilesInv, Kept, Expired, DataReleased
  <2>3. UpdatersInv'
    BY <1>0, <1>l DEF CacheTyped, DiskInv, UpdatersInv, Exclusive, Getting, Kept, Expired
  <2>4. LocksInv' BY DEF CacheTyped, LocksInv, Exclusive, Sharing
  <2>5. HeldInv' BY <1>0, <1>l DEF CacheTyped, HeldInv, Sharing, Kept
  <2>6. SendInv' BY <1>l DEF CacheTyped, SendInv, Sharing, Sent
  <2> QED BY <2>1, <2>2, <2>3, <2>4, <2>5, <2>6 DEF DiskInv
<1>3. CASE InstallData(u)
  <2> USE <1>3 DEF InstallData
  <2>1. CacheTyped' BY <1>0 DEF CacheTyped
  <2>f. found[u] \in ReleasesOf BY DEF DiskInv, UpdatersInv
  <2>2. FilesInv' BY <1>0, <2>f DEF CacheTyped, DiskInv, FilesInv, Kept, Expired, DataReleased
  <2>3. UpdatersInv'
    BY <1>0, <1>l DEF CacheTyped, DiskInv, UpdatersInv, Exclusive, Getting, Kept, Expired
  <2>4. LocksInv' BY DEF CacheTyped, LocksInv, Exclusive, Sharing
  <2>5. HeldInv' BY DEF CacheTyped, HeldInv, Kept
  <2>6. SendInv' BY <1>l DEF CacheTyped, SendInv, Sharing, Sent
  <2> QED BY <2>1, <2>2, <2>3, <2>4, <2>5, <2>6 DEF DiskInv
<1>4. CASE InstallMeta(u)
  <2> USE <1>4 DEF InstallMeta, StampOf
  <2>1. CacheTyped' BY DEF CacheTyped
  <2>2. FilesInv'
    <3>1. q \in whole /\ found[u] \in ReleasesOf BY DEF DiskInv, UpdatersInv
    <3>2. meta'[q].time = now /\ meta'[q] \in Stamped
      BY <1>0, <3>1 DEF CacheTyped, Stamped
    <3> QED BY <1>0, <3>1, <3>2 DEF CacheTyped, DiskInv, FilesInv, Kept, Expired, DataReleased
  <2>3. UpdatersInv'
    BY <1>0, <1>l DEF CacheTyped, DiskInv, UpdatersInv, Exclusive, Getting, Kept, Expired
  <2>4. LocksInv' BY DEF CacheTyped, LocksInv, Exclusive, Sharing
  <2>5. HeldInv' BY DEF CacheTyped, HeldInv, Kept
  <2>6. SendInv' BY <1>l DEF CacheTyped, SendInv, Sharing, Sent
  <2> QED BY <2>1, <2>2, <2>3, <2>4, <2>5, <2>6 DEF DiskInv
<1> QED BY <1>1, <1>2, <1>3, <1>4

(* What reset_dir leaves when it fails: whatever is not kept any more is not *)
(* vouched for, or had an old meta before.                                   *)
LEMMA RemovedPartly ==
  ASSUME CacheTyped, FilesInv, NEW ps \in SUBSET Installable, RemovePartly(ps)
  PROVE  /\ DOMAIN data' = Installable /\ DOMAIN meta' = Installable
         /\ whole' \subseteq whole
         /\ overtaken' = overtaken \cup
              {w \in Users : pc[w] = "shared" /\ package[w] \in ps}
         /\ \A p \in Installable :
              /\ meta'[p] # Nothing => meta'[p] = meta[p]
              /\ p \notin ps => (p \in whole' <=> p \in whole)
              /\ p \in whole' => DataReleased(p)'
<1> PICK noManifest \in SUBSET ps, noMeta \in SUBSET ps, broken \in SUBSET ps :
      /\ noManifest \subseteq broken
      /\ data' = [p \in Installable |-> IF p \in noManifest THEN Nothing ELSE data[p]]
      /\ meta' = [p \in Installable |-> IF p \in noMeta THEN Nothing ELSE meta[p]]
      /\ whole' = whole \ broken
      /\ Overtake(ps)
  BY DEF RemovePartly
<1>1. \A p \in Installable : p \in whole' => data'[p] = data[p] OBVIOUS
<1> QED BY <1>1 DEF CacheTyped, FilesInv, DataReleased, Overtake

(* An update that fails, wherever it does. *)
LEMMA FailSteps ==
  ASSUME StatementsInv, NEW u \in Users, UNCHANGED providerVars, UpdateFails(u)
  PROVE  StatementsInv'
<1> USE NoRelease DEF StatementsInv, UpdateFails, UnlockExclusive, Forget, Goes,
      releaseVars, providerVars
<1> DEFINE q == package[u]
<1>p. pc[u] \in {"update", "reset", "extract", "install"}
  BY DEF FailsBefore, FailsToReset, FailsToExtract, FailsToStamp
<1>0. q \in Installable BY <1>p DEF DiskInv, UpdatersInv, Getting
<1>l. /\ owner = u /\ sharers = {} /\ \A w \in Users : pc[w] \notin Sharing
      /\ \A w \in Users \ {u} : pc[w] \notin Exclusive
  BY <1>p, AloneInside DEF Exclusive
<1>t. found[u] \in ReleasesOf \/ pc[u] \notin {"extract", "install"}
  BY DEF DiskInv, UpdatersInv
<1>h. pc' = [pc EXCEPT ![u] = "threw"] /\ UNCHANGED <<sharers, package, released, now>>
  OBVIOUS
(* What every way to fail leaves, but for the files. *)
<1>a. ASSUME DOMAIN data' = Installable, DOMAIN meta' = Installable,
             whole' \subseteq Installable
      PROVE  CacheTyped' /\ LocksInv' /\ SendInv'
  <2>1. CacheTyped' BY <1>a DEF CacheTyped
  <2>2. LocksInv' BY <1>l, <1>p DEF CacheTyped, LocksInv, Exclusive, Sharing
  <2>3. SendInv' BY <1>l DEF CacheTyped, SendInv, Sharing, Sent
  <2> QED BY <2>1, <2>2, <2>3
<1>u. UpdatersInv' BY <1>l, <1>h DEF CacheTyped, DiskInv, UpdatersInv, Exclusive, Getting
<1>1. CASE FailsBefore(u)
  <2> USE <1>1 DEF FailsBefore, diskVars
  <2>1. FilesInv' BY DEF DiskInv, FilesInv, Kept, Expired, DataReleased
  <2>2. HeldInv' BY DEF CacheTyped, HeldInv, Kept
  <2>3. DOMAIN data' = Installable /\ DOMAIN meta' = Installable /\ whole' \subseteq Installable
    BY DEF CacheTyped
  <2> QED BY <2>1, <2>2, <2>3, <1>a, <1>u DEF DiskInv
<1>2. CASE FailsToReset(u)
  <2>1. RemovePartly({q}) /\ damaged' = damaged \cup Unnoticed' /\ pc[u] = "reset"
    BY <1>2 DEF FailsToReset
  <2>2. /\ DOMAIN data' = Installable /\ DOMAIN meta' = Installable
        /\ whole' \subseteq whole
        /\ overtaken' = overtaken \cup
             {w \in Users : pc[w] = "shared" /\ package[w] \in {q}}
        /\ \A p \in Installable :
             /\ meta'[p] # Nothing => meta'[p] = meta[p]
             /\ p \notin {q} => (p \in whole' <=> p \in whole)
             /\ p \in whole' => DataReleased(p)'
    BY <2>1, <1>0, RemovedPartly DEF DiskInv
  <2>3. meta[q] = Nothing \/ Expired(q) BY <2>1 DEF DiskInv, UpdatersInv
  <2>4. FilesInv'
    <3> SUFFICES ASSUME NEW p \in Installable, meta'[p] # Nothing
                 PROVE  /\ meta'[p] \in Stamped /\ meta'[p].time <= now'
                        /\ Kept(p)' \/ (Expired(p)' /\ meta'[p].snapshot # released'[p])
      BY <2>2 DEF FilesInv
    <3>1. meta'[p] = meta[p] /\ meta[p] \in Stamped /\ meta[p].time <= now
      BY <2>2 DEF DiskInv, FilesInv
    <3>2. Expired(p)' <=> Expired(p) BY <3>1, <1>h DEF Expired
    <3>3. CASE p # q
      BY <2>1, <2>2, <3>1, <3>2, <3>3, <1>h DEF DiskInv, FilesInv, Kept
    <3>4. CASE p = q
      <4>1. Expired(p)' BY <2>3, <3>1, <3>2, <3>4
      <4>2. p \in whole' \/ p \in Unnoticed' \/ meta'[p].snapshot # released'[p]
        BY DEF Unnoticed
      <4> QED BY <2>1, <3>1, <4>1, <4>2, <1>h DEF Kept
    <3> QED BY <3>3, <3>4
  <2>5. HeldInv' BY <2>1, <2>2, <1>l, <1>h DEF CacheTyped, HeldInv, Kept, Sharing, DiskInv, UpdatersInv, Getting
  <2>6. whole' \subseteq Installable BY <2>2 DEF CacheTyped
  <2> QED BY <2>2, <2>4, <2>5, <2>6, <1>a, <1>u DEF DiskInv
<1>3. CASE FailsToExtract(u)
  <2> USE <1>3 DEF FailsToExtract
  <2>1. DOMAIN data' = Installable /\ DOMAIN meta' = Installable /\ whole' \subseteq Installable
    BY DEF CacheTyped
  <2>2. FilesInv'
    <3>1. \A p \in Installable : p \in whole => data'[p] \in ReleasesOf
      BY <1>0, <1>t DEF CacheTyped, DiskInv, FilesInv, DataReleased
    <3> QED BY <3>1 DEF DiskInv, FilesInv, Kept, Expired, DataReleased
  <2>3. HeldInv' BY DEF CacheTyped, HeldInv, Kept
  <2> QED BY <2>1, <2>2, <2>3, <1>a, <1>u DEF DiskInv
<1>4. CASE FailsToStamp(u)
  <2> USE <1>4 DEF FailsToStamp, StampOf
  <2>1. DOMAIN data' = Installable /\ DOMAIN meta' = Installable /\ whole' \subseteq Installable
    BY DEF CacheTyped
  <2>2. FilesInv'
    <3>1. q \in whole /\ found[u] \in ReleasesOf BY DEF DiskInv, UpdatersInv
    <3>2. \A p \in Installable :
            \/ meta'[p] = meta[p]
            \/ (p = q /\ meta'[p].time = now /\ meta'[p] \in Stamped)
      BY <1>0, <3>1 DEF CacheTyped, Stamped
    <3> QED BY <1>h, <3>1, <3>2 DEF CacheTyped, DiskInv, FilesInv, Kept, Expired, DataReleased
  <2>3. HeldInv' BY DEF CacheTyped, HeldInv, Kept
  <2> QED BY <2>1, <2>2, <2>3, <1>a, <1>u DEF DiskInv
<1> QED BY <1>1, <1>2, <1>3, <1>4

(* clean() removes everything while nobody has an entry, or fails. *)
LEMMA CleanStep ==
  ASSUME StatementsInv, NEW u \in Users, UNCHANGED providerVars,
         LockToClean(u) \/ CleanFails(u)
  PROVE  StatementsInv'
<1> USE NoRelease DEF StatementsInv, LockExclusive, Goes, releaseVars, providerVars
<1>l. \A w \in Users : pc[w] \notin Sharing /\ pc[w] \notin Exclusive
  BY DEF LocksInv, LockToClean, CleanFails
<1>h. /\ pc' = [pc EXCEPT ![u] = "cleaning"] /\ owner' = u
      /\ UNCHANGED <<sharers, package, found, released, now>> /\ sharers = {}
  BY DEF LockToClean, CleanFails
<1>f. /\ DOMAIN data' = Installable /\ DOMAIN meta' = Installable /\ whole' \subseteq Installable
      /\ \A w \in Users : pc[w] = "shared" /\ package[w] \in Installable => w \in overtaken'
      /\ FilesInv'
  <2>1. CASE LockToClean(u)
    BY <2>1 DEF LockToClean, Overtake, FilesInv
  <2>2. CASE CleanFails(u)
    <3>1. RemovePartly(Installable) /\ damaged' = damaged \cup (whole \ whole')
      BY <2>2 DEF CleanFails
    <3>2. /\ DOMAIN data' = Installable /\ DOMAIN meta' = Installable
          /\ whole' \subseteq whole
          /\ overtaken' = overtaken \cup
               {w \in Users : pc[w] = "shared" /\ package[w] \in Installable}
          /\ \A p \in Installable :
               /\ meta'[p] # Nothing => meta'[p] = meta[p]
               /\ p \in whole' => DataReleased(p)'
      BY <3>1, RemovedPartly DEF DiskInv
    <3>3. \A p \in Installable : Kept(p) => Kept(p)' BY <3>1 DEF Kept
    <3>4. FilesInv' BY <1>h, <3>2, <3>3 DEF DiskInv, FilesInv, Expired
    <3> QED BY <3>2, <3>4 DEF CacheTyped
  <2> QED BY <2>1, <2>2
<1>1. CacheTyped' BY <1>h, <1>f DEF CacheTyped
<1>2. UpdatersInv'
  BY <1>l, <1>h DEF CacheTyped, DiskInv, UpdatersInv, Getting, Exclusive
<1>3. LocksInv' BY <1>l, <1>h DEF CacheTyped, LocksInv, Exclusive, Sharing
<1>4. HeldInv'
  BY <1>l, <1>h, <1>f DEF CacheTyped, DiskInv, UpdatersInv, HeldInv, Getting, Sharing
<1>5. SendInv' BY <1>l, <1>h DEF CacheTyped, Sharing, SendInv, Sent
<1> QED BY <1>1, <1>2, <1>3, <1>4, <1>5, <1>f DEF DiskInv

(* The publisher and the clock touch none of the files: what is not current, *)
(* or expired, stays so, or counts as damaged.                               *)
LEMMA OutsideSteps ==
  ASSUME StatementsInv, UNCHANGED providerVars,
         (\E p \in Installable : Release(p)) \/ Tick
  PROVE  StatementsInv'
<1> USE DEF StatementsInv, mlockVars, providerVars
<1>h. UNCHANGED <<data, meta, whole, mlockVars, pc, package, found, overtaken>>
  BY DEF Release, Tick, diskVars
<1>d. /\ now' \in Nat /\ now <= now' /\ damaged \subseteq damaged'
      /\ released' = released \/ damaged' = damaged \cup Unnoticed'
  BY DEF Release, Tick, diskVars, releaseVars, CacheTyped
<1>1. CacheTyped'
  <2>1. released' \in [Installable -> ReleasesOf]
    BY DEF CacheTyped, Release, Tick, releaseVars
  <2> QED BY <2>1, <1>h, <1>d DEF CacheTyped
<1>k. \A p \in Installable :
        /\ Kept(p) => Kept(p)'
        /\ meta[p] # Nothing /\ meta[p].time \in Nat /\ Expired(p) => Expired(p)'
  BY <1>h, <1>d, CacheBoundsAssumption DEF CacheTyped, Kept, Expired
<1>2. FilesInv'
  <2> SUFFICES ASSUME NEW p \in Installable, meta'[p] # Nothing
               PROVE  /\ meta'[p] \in Stamped /\ meta'[p].time <= now'
                      /\ Kept(p)' \/ (Expired(p)' /\ meta'[p].snapshot # released'[p])
    BY <1>h DEF DiskInv, FilesInv, DataReleased
  <2>1. /\ meta[p] = meta'[p] /\ meta[p] \in Stamped /\ meta[p].time <= now
        /\ Kept(p) \/ (Expired(p) /\ meta[p].snapshot # released[p])
    BY <1>h DEF DiskInv, FilesInv
  <2>2. meta'[p].time <= now' BY <2>1, <1>d, StampedTime DEF CacheTyped
  <2>3. CASE Kept(p) BY <1>k, <2>1, <2>2, <2>3
  <2>4. CASE Expired(p) /\ meta[p].snapshot # released[p]
    <3>1. Expired(p)' BY <1>k, <2>1, <2>4, StampedTime
    <3>2. \/ meta'[p].snapshot # released'[p]
          \/ p \in whole'
          \/ (p \in Unnoticed' /\ damaged' = damaged \cup Unnoticed')
      BY <1>d, <2>1, <2>4 DEF Unnoticed
    <3> QED BY <2>1, <2>2, <3>1, <3>2 DEF Kept
  <2> QED BY <2>1, <2>3, <2>4
<1>3. UpdatersInv'
  <2>1. \A p \in Installable : meta[p] # Nothing => meta[p].time \in Nat
    BY StampedTime DEF DiskInv, FilesInv
  <2> QED BY <2>1, <1>h, <1>k DEF DiskInv, UpdatersInv, Getting
<1>4. LocksInv' BY <1>h DEF LocksInv
<1>5. HeldInv'
  <2>1. \A w \in Users : Kept(package[w]) => Kept(package[w])'
    BY <1>h, <1>d DEF Kept
  <2> QED BY <2>1, <1>h DEF HeldInv
<1>6. SendInv' BY <1>h DEF SendInv, Sent
<1> QED BY <1>1, <1>2, <1>3, <1>4, <1>5, <1>6 DEF DiskInv

(* A request arrives at a thread that has no entry. *)
LEMMA ReceiveStep ==
  ASSUME StatementsInv, NEW u \in Users, NEW r \in StatementRequests, Receive(u, r)
  PROVE  StatementsInv'
<1> USE NoRelease DEF StatementsInv, Receive, Get, Goes, releaseVars, diskVars,
      mlockVars, cacheVars
<1>0. r.package \in Installable BY DEF StatementRequests
<1>1. CacheTyped' BY <1>0 DEF CacheTyped
<1>2. DiskInv'
  <2>1. FilesInv' BY DEF DiskInv, FilesInv, Kept, Expired, DataReleased
  <2>2. UpdatersInv'
    BY <1>0 DEF CacheTyped, DiskInv, UpdatersInv, Getting, Kept, Expired
  <2> QED BY <2>1, <2>2 DEF DiskInv
<1>3. LocksInv' BY DEF CacheTyped, LocksInv, Exclusive, Sharing
<1>4. HeldInv' BY DEF CacheTyped, HeldInv, Kept
<1>5. SendInv'
  <2>1. pc'[u] # "send" /\ pieces[u] = <<>> BY DEF CacheTyped, SendInv
  <2>2. \A w \in Users \ {u} :
          /\ pc'[w] = pc[w] /\ asked'[w] = asked[w] /\ package'[w] = package[w]
          /\ Sent(w)' <=> Sent(w)
    BY DEF CacheTyped, Sent
  <2>3. data' = data /\ pieces' = pieces OBVIOUS
  <2> QED BY <2>1, <2>2, <2>3 DEF SendInv
<1> QED BY <1>1, <1>2, <1>3, <1>4, <1>5

(* A request ends: whatever was sent goes with it. *)
LEMMA RespondStep ==
  ASSUME StatementsInv, NEW u \in Users, NEW status, Respond(u, status), KeepsDisk,
         pc[u] \in {"threw", "entry", "send"}
  PROVE  StatementsInv'
<1> USE NoRelease DEF StatementsInv, Respond, UnlockShared, KeepsDisk, releaseVars,
      diskVars
<1>1. CacheTyped' BY DEF CacheTyped
<1>2. DiskInv'
  <2>1. FilesInv' BY DEF DiskInv, FilesInv, Kept, Expired, DataReleased
  <2>2. UpdatersInv' BY DEF CacheTyped, DiskInv, UpdatersInv, Getting, Kept, Expired
  <2> QED BY <2>1, <2>2 DEF DiskInv
<1>3. LocksInv' BY DEF CacheTyped, LocksInv, Exclusive, Sharing
<1>4. HeldInv' BY DEF CacheTyped, HeldInv, Kept
<1>5. SendInv' BY DEF CacheTyped, LocksInv, Exclusive, Sharing, SendInv, Sent
<1> QED BY <1>1, <1>2, <1>3, <1>4, <1>5

(* The revision has been found in the entry: the file is sent next. *)
LEMMA SendStarts ==
  ASSUME StatementsInv, NEW u \in Users, KeepsDisk, pc[u] = "entry",
         asked[u].revision = data[package[u]],
         pc' = [pc EXCEPT ![u] = "send"],
         UNCHANGED <<mlockVars, overtaken, response, asked, package, pieces>>
  PROVE  StatementsInv'
<1> USE NoRelease DEF StatementsInv, KeepsDisk, releaseVars, mlockVars, diskVars
<1>1. CacheTyped' BY DEF CacheTyped
<1>2. DiskInv'
  <2>1. FilesInv' BY DEF DiskInv, FilesInv, Kept, Expired, DataReleased
  <2>2. UpdatersInv' BY DEF CacheTyped, DiskInv, UpdatersInv, Getting, Kept, Expired
  <2> QED BY <2>1, <2>2 DEF DiskInv
<1>3. LocksInv' BY DEF CacheTyped, LocksInv, Exclusive, Sharing
<1>4. HeldInv' BY DEF CacheTyped, HeldInv, Kept
<1>5. SendInv'
  <2>1. <<>> \in Seq({asked[u].revision}) OBVIOUS
  <2>2. Sent(u)' BY <2>1 DEF SendInv, Sent
  <2>3. \A w \in Users : Sent(w)' <=> Sent(w) BY DEF Sent
  <2> QED BY <2>2, <2>3 DEF CacheTyped, SendInv
<1> QED BY <1>1, <1>2, <1>3, <1>4, <1>5

(* One more piece of the revision that was asked for. *)
LEMMA SendStep ==
  ASSUME StatementsInv, NEW u \in Users, Send(u)
  PROVE  StatementsInv'
<1> USE DEF StatementsInv, Send, cacheVars, releaseVars, mlockVars, diskVars
<1>1. CacheTyped' BY DEF CacheTyped
<1>2. DiskInv' BY DEF DiskInv, FilesInv, UpdatersInv, Kept, Expired, DataReleased
<1>3. LocksInv' BY DEF LocksInv
<1>4. HeldInv' BY DEF HeldInv, Kept
<1>5. SendInv'
  <2> DEFINE rev == asked[u].revision
  <2>1. data[package[u]] = rev /\ pieces[u] \in Seq({rev}) BY DEF SendInv, Sent
  <2>2. Append(pieces[u], rev) \in Seq({rev}) BY <2>1
  <2>3. pieces'[u] \in Seq({rev}) BY <2>1, <2>2 DEF CacheTyped
  <2>4. \A w \in Users \ {u} : pieces'[w] = pieces[w] BY DEF CacheTyped
  <2> QED BY <2>1, <2>3, <2>4 DEF SendInv, Sent
<1> QED BY <1>1, <1>2, <1>3, <1>4, <1>5

(* A user tests the revision of the entry that it holds. *)
LEMMA CheckStep ==
  ASSUME StatementsInv, NEW u \in Users, CheckRevision(u)
  PROVE  StatementsInv'
<1> USE DEF CheckRevision
<1>1. CASE \E status \in {"error", "bad_request", "gone", "redirect", "not_found"} :
             Respond(u, status)
  BY <1>1, RespondStep
<1>2. CASE /\ asked[u].revision = data[package[u]]
           /\ pc' = [pc EXCEPT ![u] = "send"]
           /\ UNCHANGED <<mlockVars, overtaken, response, asked, package, pieces>>
  BY <1>2, SendStarts
<1> QED BY <1>1, <1>2 DEF GoOn

(* The invariant is kept by every step. *)
LEMMA StatementsInvNext ==
  StatementsInv /\ [ProviderNext]_<<cacheVars, providerVars>> => StatementsInv'
<1> SUFFICES ASSUME StatementsInv, [ProviderNext]_<<cacheVars, providerVars>>
             PROVE  StatementsInv'
  OBVIOUS
<1>1. ASSUME NEW u \in Users, NEW r \in StatementRequests, Receive(u, r)
      PROVE  StatementsInv'
  BY <1>1, ReceiveStep
<1>2. ASSUME NEW u \in Users, ServerStep(u) PROVE StatementsInv'
  <2>1. CASE GetThrew(u) BY <2>1, RespondStep DEF GetThrew
  <2>2. CASE CheckRevision(u) BY <2>2, CheckStep
  <2>3. CASE Send(u) BY <2>3, SendStep
  <2>4. CASE SendEnds(u) BY <2>4, RespondStep DEF SendEnds
  <2> QED BY <1>2, <2>1, <2>2, <2>3, <2>4 DEF ServerStep
<1>3. ASSUME NEW u \in Users, CacheStep(u) /\ UNCHANGED providerVars
      PROVE  StatementsInv'
  BY <1>3, UnlockedSteps, LockSteps, UpdateSteps, CleanStep DEF CacheStep
<1>4. ASSUME Environment, UNCHANGED providerVars PROVE StatementsInv'
  BY <1>4, UnlockedSteps, FailSteps, CleanStep, OutsideSteps DEF Environment
<1>5. CASE UNCHANGED <<cacheVars, providerVars>>
  BY <1>5 DEF StatementsInv, CacheTyped, DiskInv, FilesInv, UpdatersInv, LocksInv, HeldInv,
     SendInv, Sent, Kept, Expired, DataReleased, cacheVars, releaseVars, diskVars, mlockVars,
     providerVars
<1> QED BY <1>1, <1>2, <1>3, <1>4, <1>5, RequestsAssumption DEF ProviderNext, UserStep

(* What is held is complete or excused and what was sent is of the revision  *)
(* that was asked for, if the invariant holds.                               *)
LEMMA StatementsInvWhole == StatementsInv => StatementsWhole
<1> SUFFICES ASSUME StatementsInv PROVE StatementsWhole OBVIOUS
<1>1. ASSUME NEW u \in Users, pc[u] \in {"entry", "send"}
      PROVE  Complete(u) \/ Excused(u)
  <2>1. Kept(package[u]) \/ u \in overtaken BY <1>1 DEF StatementsInv, HeldInv
  <2>2. package[u] \in Installable
    BY <1>1 DEF StatementsInv, DiskInv, UpdatersInv, Getting
  <2>3. package[u] \in whole => data[package[u]] \in ReleasesOf
    BY <2>2 DEF StatementsInv, DiskInv, FilesInv, DataReleased
  <2> QED BY <2>1, <2>3 DEF Kept, Complete, Excused
<1>2. InstalledWhenHeld BY <1>1 DEF InstalledWhenHeld
<1>3. ServedAsked
  <2>1. ASSUME NEW u \in Users, NEW n \in 1..Len(pieces[u])
        PROVE  pieces[u][n] = asked[u].revision
    <3>1. CASE pc[u] = "send"
      <4> DEFINE rev == asked[u].revision
      <4>1. pieces[u] \in Seq({rev})
        BY <3>1 DEF StatementsInv, SendInv, Sent
      <4> HIDE DEF rev
      <4>2. pieces[u][n] \in {rev} BY <4>1
      <4> QED BY <4>2 DEF rev
    <3>2. CASE pc[u] # "send"
      BY <3>2 DEF StatementsInv, SendInv
    <3> QED BY <3>1, <3>2
  <2>2. ASSUME NEW u \in Users, pc[u] = "send"
        PROVE  data[package[u]] = asked[u].revision
    BY <2>2 DEF StatementsInv, SendInv
  <2> QED BY <1>1, <2>1, <2>2 DEF ServedAsked
<1> QED BY <1>2, <1>3 DEF StatementsWhole

(* The locks, the disk and the places of the users agree: in particular      *)
(* nobody has an entry while somebody updates or cleans. (cache.cpp:32-73)   *)
THEOREM ProviderInvariant == ProviderSpec => []StatementsInv
BY StatementsInvInit, StatementsInvNext, PTL DEF ProviderSpec

(* An entry is a complete installation, unless it was removed before its     *)
(* lock was taken or is damaged, and what is sent, complete or not, is of    *)
(* the revision asked for, for any number of threads, packages and releases. *)
(* (cache.cpp:32, server.cpp:104)                                            *)
THEOREM StatementsServedWhole == ProviderSpec => []StatementsWhole
BY ProviderInvariant, StatementsInvWhole, PTL

----------------------------------------------------------------------------
(* The types of the cache and its users *)

Places == {"idle", "meta", "time", "exclusive", "update", "reset", "extract", "install",
           "unlock", "shared", "entry", "threw", "clean", "cleaning", "send"}
Statuses == {Nothing, "ok", "error", "forbidden", "bad_request", "gone", "redirect",
             "not_found"}

ClockTyped ==
  /\ now \in 0..MaxTime /\ failures \in 0..MaxFailures
  /\ published \in 0..MaxPublished /\ received \in 0..MaxServed
FilesTyped ==
  /\ data \in [Installable -> ReleasesOf \cup {Nothing}]
  /\ damaged \subseteq Installable
  /\ meta \in [Installable -> Stamps \cup {Nothing}]
  /\ found \in [Users -> ReleasesOf \cup {Nothing}]
HoldersTyped == owner \in Users \cup {Nothing} /\ blocked \in BOOLEAN /\ overtaken \subseteq Users
UsersTyped ==
  /\ pc \in [Users -> Places]
  /\ asked \in [Users -> StatementRequests \cup {Nothing}]
  /\ \A u \in Users : pieces[u] \in Seq(ReleasesOf \cup {Nothing})
  /\ response \in [Users -> Statuses]

ProviderTyped == ClockTyped /\ FilesTyped /\ HoldersTyped /\ UsersTyped

(* The typed invariant is the one that is checked. *)
LEMMA ProviderTypedIsTypeOK == StatementsInv /\ ProviderTyped => ProviderTypeOK
  BY DEF StatementsInv, CacheTyped, ProviderTyped, ClockTyped, FilesTyped, HoldersTyped,
     UsersTyped, Places, Statuses, ProviderTypeOK, CacheTypeOK

(* It holds at first. *)
LEMMA ProviderTypedInit == ProviderInit => ProviderTyped
<1> SUFFICES ASSUME ProviderInit PROVE ProviderTyped OBVIOUS
<1> USE DEF ProviderInit, CacheInit
<1>1. ClockTyped BY CacheBoundsAssumption, ServerBoundsAssumption DEF ClockTyped
<1>2. FilesTyped BY DEF FilesTyped
<1>3. HoldersTyped BY DEF HoldersTyped
<1>4. UsersTyped BY DEF UsersTyped, Places, Statuses
<1> QED BY <1>1, <1>2, <1>3, <1>4 DEF ProviderTyped

(* Every step of a user in the cache, and every failure. *)
CacheSteps(u) == CacheStep(u) \/ Clean(u) \/ CleanFails(u) \/ UpdateFails(u)

(* Steps of a user in the cache. *)
LEMMA CacheStepTyped ==
  ASSUME StatementsInv, ProviderTyped, NEW u \in Users,
         CacheSteps(u), UNCHANGED providerVars
  PROVE  ProviderTyped'
<1> USE DEF ProviderTyped, providerVars
<1>1. ClockTyped'
  <2>1. /\ now' = now /\ (failures' = failures \/ Failure) /\ published' = published
    BY DEF CacheSteps, CacheStep, FindMeta, ReadTime, MetaVanished, WriterWaits, LockToUpdate,
       UpdatePackage, InstallReset, InstallData, InstallMeta, UnlockUpdated, LockShared,
       LockToClean, UnlockCleaned, Clean, CleanFails, UpdateFails, releaseVars
  <2>2. Failure => failures' \in 0..MaxFailures
    BY CacheBoundsAssumption DEF ClockTyped, Failure
  <2> QED BY <2>1, <2>2 DEF ClockTyped
<1>r. ASSUME NEW ps \in SUBSET Installable, RemovePartly(ps)
      PROVE  /\ data' \in [Installable -> ReleasesOf \cup {Nothing}]
             /\ meta' \in [Installable -> Stamps \cup {Nothing}]
  <2> PICK noManifest \in SUBSET ps, noMeta \in SUBSET ps :
        /\ data' = [p \in Installable |-> IF p \in noManifest THEN Nothing ELSE data[p]]
        /\ meta' = [p \in Installable |-> IF p \in noMeta THEN Nothing ELSE meta[p]]
    BY <1>r DEF RemovePartly
  <2> QED BY DEF FilesTyped
<1>2. FilesTyped'
  <2>1. CASE UNCHANGED <<data, meta, damaged>> /\ (found' = found \/ Forget(u))
    BY <2>1 DEF FilesTyped, Forget
  <2>2. CASE UpdatePackage(u) \/ InstallReset(u) \/ InstallData(u) \/ InstallMeta(u)
               \/ UpdateFails(u)
    <3>1. package[u] \in Installable
          /\ (pc[u] \in {"extract", "install"} => found[u] \in ReleasesOf)
      BY <2>2 DEF StatementsInv, DiskInv, UpdatersInv, Getting, UpdatePackage, InstallReset,
         InstallData, InstallMeta, UpdateFails, FailsBefore, FailsToReset, FailsToExtract,
         FailsToStamp
    <3>2. released[package[u]] \in ReleasesOf BY <3>1 DEF StatementsInv, CacheTyped
    <3>s. \A x \in ReleasesOf \cup {Unreadable} : StampOf(x) \in Stamps
      BY DEF StampOf, Stamps, ClockTyped
    <3>3. CASE UpdatePackage(u)
      <4>1. data' = data /\ found' = [found EXCEPT ![u] = released[package[u]]]
            /\ damaged' = damaged
        BY <3>3 DEF UpdatePackage
      <4>2. meta' = meta \/ (meta[package[u]] # Nothing
                               /\ meta' = [meta EXCEPT ![package[u]].time = now])
        BY <3>3 DEF UpdatePackage
      <4>3. meta[package[u]] # Nothing
              => [meta[package[u]] EXCEPT !.time = now] \in Stamps
        BY <3>1 DEF FilesTyped, ClockTyped, Stamps
      <4>4. meta' \in [Installable -> Stamps \cup {Nothing}]
        BY <3>1, <4>2, <4>3 DEF FilesTyped
      <4> QED BY <3>2, <4>1, <4>4 DEF FilesTyped
    <3>4. CASE InstallReset(u) BY <3>4 DEF InstallReset, FilesTyped
    <3>5. CASE InstallData(u)
      BY <3>1, <3>5 DEF InstallData, FilesTyped
    <3>6. CASE InstallMeta(u)
      BY <3>1, <3>6, <3>s DEF InstallMeta, FilesTyped
    <3>7. CASE UpdateFails(u)
      <4>1. found' \in [Users -> ReleasesOf \cup {Nothing}]
        BY <3>7 DEF UpdateFails, Forget, FilesTyped
      <4>2. CASE FailsBefore(u) BY <4>1, <4>2 DEF FailsBefore, diskVars, FilesTyped
      <4>3. CASE FailsToReset(u)
        <5>1. RemovePartly({package[u]}) /\ damaged' = damaged \cup Unnoticed'
          BY <4>3 DEF FailsToReset
        <5>2. damaged' \subseteq Installable BY <5>1 DEF Unnoticed, FilesTyped
        <5> QED BY <3>1, <1>r, <4>1, <5>1, <5>2 DEF FilesTyped
      <4>4. CASE FailsToExtract(u)
        BY <3>1, <4>1, <4>4 DEF FailsToExtract, FilesTyped
      <4>5. CASE FailsToStamp(u)
        <5>1. /\ meta' \in {meta} \cup {[meta EXCEPT ![package[u]] = StampOf(x)] :
                                            x \in {found[u], Unreadable}}
              /\ UNCHANGED <<data, damaged>> /\ found[u] \in ReleasesOf
          BY <3>1, <4>5 DEF FailsToStamp
        <5>2. meta' \in [Installable -> Stamps \cup {Nothing}]
          BY <3>s, <5>1 DEF FilesTyped
        <5> QED BY <4>1, <5>1, <5>2 DEF FilesTyped
      <4> QED BY <3>7, <4>2, <4>3, <4>4, <4>5 DEF UpdateFails
    <3> QED BY <2>2, <3>3, <3>4, <3>5, <3>6, <3>7
  <2>3. CASE LockToClean(u) BY <2>3 DEF LockToClean, FilesTyped
  <2>4. CASE CleanFails(u)
    <3>1. RemovePartly(Installable) /\ damaged' = damaged \cup (whole \ whole')
          /\ found' = found
      BY <2>4 DEF CleanFails
    <3> QED BY <1>r, <3>1 DEF FilesTyped, StatementsInv, CacheTyped
  <2> QED BY <2>1, <2>2, <2>3, <2>4
        DEF CacheSteps, CacheStep, FindMeta, ReadTime, MetaVanished, WriterWaits,
            LockToUpdate, UnlockUpdated, LockShared, UnlockCleaned, Clean, diskVars
<1>3. HoldersTyped'
  <2>1. owner' \in {owner, u, Nothing} /\ (blocked' = blocked \/ blocked' \in BOOLEAN)
    BY DEF CacheSteps, CacheStep, FindMeta, ReadTime, MetaVanished, WriterWaits, LockToUpdate,
       UpdatePackage, InstallReset, InstallData, InstallMeta, UnlockUpdated, LockShared,
       LockToClean, UnlockCleaned, Clean, CleanFails, UpdateFails, LockExclusive,
       UnlockExclusive, mlockVars
  <2>2. overtaken' = overtaken \/ \E ps : Overtake(ps)
    BY DEF CacheSteps, CacheStep, FindMeta, ReadTime, MetaVanished, WriterWaits, LockToUpdate,
       UpdatePackage, InstallReset, InstallData, InstallMeta, UnlockUpdated, LockShared,
       LockToClean, UnlockCleaned, Clean, CleanFails, UpdateFails, FailsBefore, FailsToReset,
       FailsToExtract, FailsToStamp, RemovePartly
  <2>3. overtaken' \subseteq Users BY <2>2 DEF Overtake, HoldersTyped
  <2> QED BY <2>1, <2>3 DEF HoldersTyped
<1>4. UsersTyped'
  <2>1. \E p \in Places : pc' = [pc EXCEPT ![u] = p] \/ UNCHANGED pc
    BY DEF CacheSteps, CacheStep, FindMeta, ReadTime, MetaVanished, WriterWaits, LockToUpdate,
       UpdatePackage, InstallReset, InstallData, InstallMeta, UnlockUpdated, LockShared,
       LockToClean, UnlockCleaned, Clean, CleanFails, UpdateFails, Goes, Places
  <2> QED BY <2>1 DEF UsersTyped
<1> QED BY <1>1, <1>2, <1>3, <1>4

(* A request arrives, or is answered. *)
LEMMA ServerStepTyped ==
  ASSUME StatementsInv, ProviderTyped, NEW u \in Users,
         (\E r \in StatementRequests : Receive(u, r)) \/ ServerStep(u)
  PROVE  ProviderTyped'
<1> USE DEF ProviderTyped
<1>1. ASSUME NEW r \in StatementRequests, Receive(u, r) PROVE ProviderTyped'
  <2>1. /\ UNCHANGED <<now, failures, published, data, meta, damaged, found, owner,
                       blocked, pieces>>
        /\ overtaken' \subseteq overtaken /\ received < MaxServed /\ received' = received + 1
        /\ pc' = [pc EXCEPT ![u] = "meta"] \/ UNCHANGED pc
    BY <1>1 DEF Receive, Get, Goes, cacheVars, releaseVars, diskVars, mlockVars
  <2>2. ClockTyped' BY <2>1, ServerBoundsAssumption DEF ClockTyped
  <2>3. FilesTyped' /\ HoldersTyped' BY <2>1 DEF FilesTyped, HoldersTyped
  <2>4. verify_and_parse(r) \in {"forbidden", "bad_request", "signed"}
    <3>1. r.verdict \in Verdicts BY DEF StatementRequests
    <3>2. r.verdict = "signed" \/ r.verdict = "forbidden"
          \/ r.verdict \in {"malformed", "bad_message", "bad_name"}
      BY <3>1 DEF Verdicts
    <3> QED BY <3>2, Zenon DEF verify_and_parse
  <2>5. asked' \in [Users -> StatementRequests \cup {Nothing}]
    BY <1>1 DEF Receive, UsersTyped
  <2>6. response' \in [Users -> Statuses]
    <3>1. response' = [response EXCEPT ![u] = Nothing]
          \/ (verify_and_parse(r) # "signed"
                /\ response' = [response EXCEPT ![u] = verify_and_parse(r)])
      BY <1>1 DEF Receive
    <3> QED BY <2>4, <3>1 DEF UsersTyped, Statuses
  <2>7. UsersTyped' BY <2>1, <2>5, <2>6 DEF UsersTyped, Places
  <2> QED BY <2>2, <2>3, <2>7
<1>2. ASSUME NEW status \in Statuses, Respond(u, status), KeepsDisk, UNCHANGED received
      PROVE  ProviderTyped'
  <2>1. ClockTyped' /\ FilesTyped'
    BY <1>2 DEF KeepsDisk, releaseVars, diskVars, ClockTyped, FilesTyped
  <2>2. HoldersTyped' BY <1>2 DEF KeepsDisk, Respond, UnlockShared, HoldersTyped
  <2>3. /\ pc' = [pc EXCEPT ![u] = "idle"] /\ response' = [response EXCEPT ![u] = status]
        /\ asked' = [asked EXCEPT ![u] = Nothing] /\ pieces' = [pieces EXCEPT ![u] = <<>>]
    BY <1>2 DEF Respond
  <2>4. \A w \in Users : pieces'[w] = pieces[w] \/ pieces'[w] = <<>>
    BY <2>3 DEF StatementsInv, CacheTyped
  <2>5. \A w \in Users : pieces'[w] \in Seq(ReleasesOf \cup {Nothing})
    <3>1. <<>> \in Seq(ReleasesOf \cup {Nothing}) OBVIOUS
    <3> QED BY <2>4, <3>1 DEF UsersTyped
  <2>6. UsersTyped' BY <2>3, <2>5 DEF UsersTyped, Places
  <2> QED BY <2>1, <2>2, <2>6
<1>3. ASSUME CheckRevision(u) PROVE ProviderTyped'
  <2>1. CASE \E status \in Statuses : Respond(u, status)
    BY <1>2, <1>3, <2>1 DEF CheckRevision
  <2>2. CASE /\ pc' = [pc EXCEPT ![u] = "send"]
             /\ UNCHANGED <<mlockVars, overtaken, response, asked, package, pieces>>
    <3>1. KeepsDisk /\ UNCHANGED received BY <1>3 DEF CheckRevision
    <3> QED BY <2>2, <3>1 DEF KeepsDisk, releaseVars, diskVars, mlockVars, ClockTyped, FilesTyped,
                              HoldersTyped, UsersTyped, Places
  <2> QED BY <1>3, <2>1, <2>2 DEF CheckRevision, GoOn, Statuses
<1>4. ASSUME Send(u) PROVE ProviderTyped'
  <2>1. /\ UNCHANGED <<cacheVars, asked, response, received>> /\ pc[u] = "send"
        /\ pieces' = [pieces EXCEPT ![u] = Append(pieces[u], data[package[u]])]
    BY <1>4 DEF Send
  <2>2. package[u] \in Installable BY <2>1 DEF StatementsInv, DiskInv, UpdatersInv, Getting
  <2> DEFINE S == ReleasesOf \cup {Nothing}
             d == data[package[u]]
             s == pieces[u]
  <2>3. d \in S /\ s \in Seq(S) BY <2>2 DEF FilesTyped, UsersTyped
  <2>4. Append(s, d) \in Seq(S)
    <3> HIDE DEF S, d, s
    <3> QED BY <2>3
  <2>5. \A w \in Users : pieces'[w] = pieces[w] \/ pieces'[w] = Append(s, d)
    BY <2>1 DEF StatementsInv, CacheTyped
  <2>6. \A w \in Users : pieces'[w] \in Seq(S) BY <2>4, <2>5 DEF UsersTyped
  <2> QED BY <2>1, <2>6 DEF cacheVars, releaseVars, diskVars, mlockVars, ClockTyped, FilesTyped,
                            HoldersTyped, UsersTyped
<1> QED BY <1>1, <1>2, <1>3, <1>4 DEF ServerStep, GetThrew, SendEnds, Statuses

(* It is kept by every step. *)
LEMMA ProviderTypedNext ==
  StatementsInv /\ ProviderTyped /\ [ProviderNext]_<<cacheVars, providerVars>>
    => ProviderTyped'
<1> SUFFICES ASSUME StatementsInv, ProviderTyped, [ProviderNext]_<<cacheVars, providerVars>>
             PROVE  ProviderTyped'
  OBVIOUS
<1>1. ASSUME (\E p \in Installable : Release(p)) \/ Tick, UNCHANGED providerVars
      PROVE  ProviderTyped'
  <2>1. /\ UNCHANGED <<data, meta, found, owner, blocked, overtaken, failures, pc>>
        /\ now' = now \/ (now < MaxTime /\ now' = now + 1)
        /\ published' = published \/ (published < MaxPublished /\ published' = published + 1)
        /\ damaged' = damaged \/ damaged' = damaged \cup Unnoticed'
    BY <1>1 DEF Release, Tick, releaseVars, diskVars, mlockVars
  <2>2. ClockTyped'
    BY <1>1, <2>1, CacheBoundsAssumption DEF ProviderTyped, ClockTyped, providerVars
  <2>3. damaged' \subseteq Installable
    BY <2>1 DEF Unnoticed, ProviderTyped, FilesTyped
  <2> QED BY <1>1, <2>1, <2>2, <2>3 DEF ProviderTyped, FilesTyped, HoldersTyped, UsersTyped,
                                        providerVars
<1>2. CASE UNCHANGED <<cacheVars, providerVars>>
  BY <1>2 DEF ProviderTyped, ClockTyped, FilesTyped, HoldersTyped, UsersTyped, cacheVars,
     releaseVars, diskVars, mlockVars, providerVars
<1> QED BY <1>1, <1>2, CacheStepTyped, ServerStepTyped, RequestsAssumption
      DEF ProviderNext, UserStep, Environment, CacheSteps

(* The variables of the cache and of the threads that use it keep their      *)
(* types. (cache.cpp:32, server.cpp:63)                                      *)
THEOREM ProviderTypes == ProviderSpec => []ProviderTypeOK
BY StatementsInvInit, StatementsInvNext, ProviderTypedInit, ProviderTypedNext,
   ProviderTypedIsTypeOK, PTL DEF ProviderSpec

(* Every variable of the repository, of the cache and of its users keeps its *)
(* type, as the run checks it: beside each other, each steps alone.          *)
(* (repository.cpp:62, cache.cpp:32, server.cpp:104)                         *)
THEOREM PmTypes == PmSpec => []PmTypeOK
<1>1. PmInit => Init /\ ProviderInit BY DEF PmInit
<1>2. [PmNext]_allVars => [Next]_repositoryVars /\ [ProviderNext]_<<cacheVars, providerVars>>
  BY DEF PmNext, Repository_, Cache_, allVars, statementVars
<1>3. PmSpec => Spec /\ ProviderSpec
  BY <1>1, <1>2, PTL DEF PmSpec, Spec, ProviderSpec
<1> QED BY <1>3, RepositoryTypes, ProviderTypes, PTL DEF PmTypeOK

=============================================================================
