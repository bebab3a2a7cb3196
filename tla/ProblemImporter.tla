-------------------------- MODULE ProblemImporter ---------------------------
(***************************************************************************)
(* bacs::problem: a problem directory is read by the driver of its format  *)
(* into an overview (tests, test groups, statement versions, utilities),   *)
(* from which the generator writes a tree of packages into the repository  *)
(* the package manager publishes from.                                     *)
(*                                                                         *)
(* Reading changes nothing, so it is a matter of operators; generating is  *)
(* one action per package, and each may be the one that throws.  Package   *)
(* names are sequences relative to the problem's root package; what is     *)
(* imported from outside the problem is left to the package manager.       *)
(***************************************************************************)
EXTENDS Naturals, FiniteSets, Sequences, SequencesExt, Ranked

CONSTANTS
  ProblemDirs,     \* the problem directories an archive may hold
  GroupOrder,      \* the test group names, in the order std::map keeps
  NumericIds,      \* the test ids made of digits only
  MaxConversions,  \* bound on conversions
  NoOverview, NoGroup

(* The versions and the testsets of a problem are listed in some order, and  *)
(* each group name has its place among the keys of a map.                    *)
ASSUME ProblemDirsAssumption ==
  /\ MaxConversions \in Nat
  /\ GroupOrder \in Seq(ToSet(GroupOrder))
  /\ \A d \in ProblemDirs :
       /\ d.versions \in Seq(ToSet(d.versions))
       /\ d.testsets \in Seq(ToSet(d.testsets))
       /\ DOMAIN d.groups \cup d.scored \subseteq ToSet(GroupOrder)

VARIABLES
  dir,          \* the directory being converted
  overview,     \* what the driver has made of it
  stepConv,     \* what the generator does next
  versionsLeft, \* the statement versions still to be packed
  disk,         \* the packages below the destination that have an index
  conversions

converterVars == <<dir, overview, stepConv, versionsLeft, disk, conversions>>

----------------------------------------------------------------------------
(* importer: which implementation converts the directory *)

(* The trimmed contents of "format", split at each '#'. *)
problem_type(d) == IF d.format = <<>> THEN "" ELSE d.format[1]

(* problem::importer knows one type, single::driver two formats of it. *)
Supported(d) ==
  /\ problem_type(d) = "bacs/problem/single"
  /\ Len(d.format) = 2
  /\ d.format[2] \in {"simple0", "polygon.codeforces.com"}
IsSimple0(d) == d.format[2] = "simple0"

----------------------------------------------------------------------------
(* test::list_storage *)

DataOf(tests, id) == {data \in {"in", "out", "other"} : <<id, data>> \in tests}
TestIds(tests) == {t[1] : t \in tests}
DataSet(tests) == {t[2] : t \in tests}

(* add_test(): all tests have the same kinds of data; data_set() throws if   *)
(* there is none.                                                            *)
Consistent(tests) ==
  tests # {} /\ \A id \in TestIds(tests) : DataOf(tests, id) = DataSet(tests)

----------------------------------------------------------------------------
(* The simple0 driver *)

(* The tests are the files "<id>.<data>"; a file called otherwise, unknown   *)
(* data, and a data type for data there is none of are errors.               *)
Simple0TestsOK(d) ==
  /\ ~d.misnamed
  /\ Consistent(d.tests)
  /\ DataSet(d.tests) \in {{"in"}, {"in", "out"}}
  /\ DOMAIN d.types \subseteq DataSet(d.tests)

test_order(ids) == IF ids \subseteq NumericIds THEN "NUMERIC" ELSE "LEXICOGRAPHICAL"

(* group_<id> makes a group; score_<id> and continue_condition_<id> also do, *)
(* by looking it up in the map, but such a group has no id and no tests.     *)
GroupSettings(d, g) ==
  IF g \in DOMAIN d.groups
  THEN [id |-> g, query |-> d.groups[g], order |-> test_order(d.groups[g])]
  ELSE [id |-> "", query |-> {}, order |-> "IDENTITY"]
GroupPlaces(d) ==
  {k \in DOMAIN GroupOrder : GroupOrder[k] \in DOMAIN d.groups \cup d.scored}
GroupNames(d) ==
  [i \in 1..Cardinality(GroupPlaces(d)) |-> GroupOrder[Nth(GroupPlaces(d), i)]]

(* The tests that are in no group are left to a last group without an id. *)
default_group(d) ==
  LET unused == TestIds(d.tests) \ UNION {d.groups[g] : g \in DOMAIN d.groups}
  IN  [id |-> "", query |-> unused, order |-> test_order(unused)]

(* Each group depends on the one before it, by its name in the map. *)
Depending(g, previous) ==
  [id |-> g.id, query |-> g.query, order |-> g.order, dependency |-> previous]
Simple0Groups(d) ==
  LET names == GroupNames(d)
      Previous(i) == IF i = 1 THEN NoGroup ELSE names[i - 1]
  IN  [i \in 1..Len(names) + 1 |->
         Depending(IF i <= Len(names) THEN GroupSettings(d, names[i])
                                      ELSE default_group(d), Previous(i))]

----------------------------------------------------------------------------
(* The polygon.codeforces.com driver: a group for each testset; the tests of *)
(* each are numbered from one, so two testsets must agree on their files.    *)

PolygonTests(d) ==
  UNION {{<<id, data>> : id \in s.ids, data \in {"in", "out"}} : s \in ToSet(d.testsets)}
PolygonTestsOK(d) ==
  /\ PolygonTests(d) # {}
  /\ \A s, t \in ToSet(d.testsets) :
       s.ids \cap t.ids # {} => s.pattern = t.pattern
PolygonGroups(d) ==
  [i \in 1..Len(d.testsets) |->
     [id |-> d.testsets[i].name, query |-> d.testsets[i].ids,
      order |-> "NUMERIC", dependency |-> NoGroup]]

----------------------------------------------------------------------------
(* statement and utility: parts both drivers make from a configuration *)

(* A version's language and format are part of its package's name; the       *)
(* format of a copy is its source's suffix, if it has one.                   *)
VersionOK(v) == "" \notin {v.language, v.format}
StatementOK(d) ==
  \A v \in ToSet(d.versions) :
    /\ VersionOK(v)
    /\ v.builder \in IF IsSimple0(d) THEN {"copy", "pdflatex"} ELSE {"polygon"}

Absent == [builder |-> "", call |-> FALSE]
UtilityOK(u) ==
  u = Absent \/ u.builder \in {"none", "alias", "single", "dot_net_solution"}

(* A problem of polygon without a checker has a standard one, and never an   *)
(* interactor.                                                               *)
Standard == [builder |-> "none", call |-> TRUE]
Checker(d) == IF ~IsSimple0(d) /\ d.checker = Absent THEN Standard ELSE d.checker
Interactor(d) == IF IsSimple0(d) THEN d.interactor ELSE Absent

(* generate_utility() reads "call", which the configuration need not have;   *)
(* an alias has its own.                                                     *)
Callable(u) == u = Absent \/ u.builder = "alias" \/ u.call

ReadOK(d) ==
  /\ Supported(d)
  /\ IF IsSimple0(d) THEN Simple0TestsOK(d) ELSE PolygonTestsOK(d)
  /\ StatementOK(d) /\ UtilityOK(Checker(d)) /\ UtilityOK(Interactor(d))

Overview(d) ==
  [test_set |-> IF IsSimple0(d) THEN TestIds(d.tests) ELSE TestIds(PolygonTests(d)),
   text |-> IF IsSimple0(d)
            THEN {t \in DataSet(d.tests) : t \in DOMAIN d.types => d.types[t] = "text"}
            ELSE {"in", "out"},
   groups |-> IF IsSimple0(d) THEN Simple0Groups(d) ELSE PolygonGroups(d)]

(* Having read a directory is not the same as having read none.              *)
ASSUME OverviewAssumption ==
  \A d \in ProblemDirs : ReadOK(d) => Overview(d) # NoOverview

----------------------------------------------------------------------------
(* generator internal0 *)

Root == <<>>
Resources == <<"statement", "resources">>
subpackage(v) == <<"statement", "versions", v.language, v.format>>
EmptyDisk == <<>>

ConverterInit ==
  /\ dir \in ProblemDirs
  /\ overview = NoOverview
  /\ stepConv = "idle"
  /\ versionsLeft = <<>>
  /\ disk = EmptyDisk
  /\ conversions = 0

(* importer::convert(): a directory that cannot be read fails here, before   *)
(* anything is written.                                                      *)
Convert(d) ==
  /\ stepConv \in {"idle", "ok", "failed", "torn"}
  /\ conversions < MaxConversions
  /\ conversions' = conversions + 1
  /\ dir' = d
  /\ IF ReadOK(d)
       THEN stepConv' = "reset" /\ overview' = Overview(d)
       ELSE stepConv' = "failed" /\ overview' = NoOverview
  /\ versionsLeft' = <<>>
  /\ UNCHANGED disk

Step(from, to) == stepConv = from /\ stepConv' = to

(* Mutant of ResetDir: what an earlier conversion has left stays. *)
ResetDirNot ==
  /\ Step("reset", "system_verifier")
  /\ UNCHANGED <<dir, overview, versionsLeft, disk, conversions>>

ResetDir ==
  /\ Step("reset", "system_verifier")
  /\ disk' = EmptyDisk
  /\ UNCHANGED <<dir, overview, versionsLeft, conversions>>

(* A package with its index: the packages of the problem it imports, whether *)
(* its files are complete, and the statement version it holds, if any.       *)
Package(imports, whole, v) == [imports |-> imports, whole |-> whole, version |-> v]
Save(name, package) ==
  disk' = [p \in DOMAIN disk \cup {name} |-> IF p = name THEN package ELSE disk[p]]

MakeVerifier ==
  /\ Step("system_verifier", "tests")
  /\ Checker(dir) # Absent \/ Interactor(dir) # Absent
  /\ Save(<<"system_verifier">>, Package({}, TRUE, <<>>))
  /\ UNCHANGED <<dir, overview, versionsLeft, conversions>>

MakeTests ==
  /\ Step("tests", "checker")
  /\ Save(<<"tests">>, Package({}, TRUE, <<>>))
  /\ UNCHANGED <<dir, overview, versionsLeft, conversions>>

(* generate_utility() for the checker and the interactor: without one the    *)
(* root package will import a fallback instead.  How it is called is read    *)
(* when its package is there.                                                *)
MakeUtility(name, u, to) ==
  /\ Step(name, IF Callable(u) THEN to ELSE "failed")
  /\ IF u = Absent THEN UNCHANGED disk ELSE Save(<<name>>, Package({}, TRUE, <<>>))
  /\ UNCHANGED <<dir, overview, versionsLeft, conversions>>

(* statement::make_package(): first the resources, then version by version. *)
MakeResources ==
  /\ Step("statement", "versions")
  /\ Save(Resources, Package({}, TRUE, <<>>))
  /\ versionsLeft' = dir.versions
  /\ UNCHANGED <<dir, overview, conversions>>

(* A copy imports the resources; pdflatex adds its file after the index. *)
MakeVersion(whole) ==
  /\ Step("versions", IF whole THEN "versions" ELSE "failed")
  /\ versionsLeft # <<>>
  /\ LET v == Head(versionsLeft) IN
       /\ whole \/ v.builder = "pdflatex"
       /\ Save(subpackage(v), Package(
            IF v.builder = "pdflatex" THEN {} ELSE {Resources}, whole, <<v>>))
  /\ versionsLeft' = Tail(versionsLeft)
  /\ UNCHANGED <<dir, overview, conversions>>

RootImports ==
  {<<"system_verifier">>, <<"tests">>}
  \cup (IF Checker(dir) = Absent THEN {} ELSE {<<"checker">>})
  \cup (IF Interactor(dir) = Absent THEN {} ELSE {<<"interactor">>})

(* The last command: the root package gets its index. *)
SaveRoot ==
  /\ Step("versions", "ok")
  /\ versionsLeft = <<>>
  /\ Save(Root, Package(RootImports, TRUE, <<>>))
  /\ UNCHANGED <<dir, overview, versionsLeft, conversions>>

(* Whatever is done next throws: a check above fails, or the file system.    *)
(* The directory may be partly written, or partly removed.                   *)
Throw ==
  /\ \/ stepConv \notin {"idle", "reset", "ok", "failed", "torn"}
        /\ stepConv' = "failed" /\ UNCHANGED disk
     \/ \E left \in SUBSET DOMAIN disk :
          Step("reset", "torn") /\ disk' = [p \in left |-> disk[p]]
  /\ UNCHANGED <<dir, overview, versionsLeft, conversions>>

ConverterStep ==
  \/ ResetDir \/ MakeVerifier \/ MakeTests
  \/ MakeUtility("checker", Checker(dir), "interactor")
  \/ MakeUtility("interactor", Interactor(dir), "statement")
  \/ MakeResources \/ MakeVersion(TRUE) \/ MakeVersion(FALSE) \/ SaveRoot
  \/ Throw

ConverterNext == ConverterStep \/ \E d \in ProblemDirs : Convert(d)

ConverterSpec == ConverterInit /\ [][ConverterNext]_converterVars

----------------------------------------------------------------------------
(* Properties *)

PackageNames ==
  {Root, Resources} \cup {<<n>> : n \in {"system_verifier", "tests", "checker", "interactor"}}
  \cup UNION {{subpackage(v) : v \in ToSet(d.versions)} : d \in ProblemDirs}

ConverterTypeOK ==
  /\ dir \in ProblemDirs
  /\ overview = NoOverview \/ overview.test_set # {}
  /\ stepConv \in {"idle", "reset", "system_verifier", "tests", "checker",
       "interactor", "statement", "versions", "ok", "failed", "torn"}
  /\ \E n \in 0..Len(dir.versions) :
       versionsLeft = SubSeq(dir.versions, n + 1, Len(dir.versions))
  /\ DOMAIN disk \subseteq PackageNames
  /\ conversions \in 0..MaxConversions

(* Once the directory has been reset, the root index is there only if the    *)
(* whole tree is: each package is complete, imports packages of the problem  *)
(* that are there, and belongs to this problem.  So a conversion that throws *)
(* leaves no root package that could be installed.  What convert() answers   *)
(* is what it has written: each version has the package the overview gives   *)
(* for it, unless one of the same language and format has taken its place.   *)
(* (internal0.cpp:129, statement.cpp:111)                                    *)
OwnPackages ==
  {Root, Resources} \cup RootImports \cup {subpackage(v) : v \in ToSet(dir.versions)}
RootIsComplete ==
  /\ Root \in DOMAIN disk
  /\ overview # NoOverview /\ stepConv \notin {"reset", "torn"}
  => /\ DOMAIN disk = OwnPackages
     /\ \A p \in OwnPackages : disk[p].whole /\ disk[p].imports \subseteq OwnPackages
     /\ \A v \in ToSet(dir.versions) :
          \E w \in ToSet(dir.versions) :
            disk[subpackage(v)].version = <<w>> /\ subpackage(w) = subpackage(v)

(* Every test of the problem is asked for by a group; no test of another     *)
(* group is done again in the last one; and a group depends only on one      *)
(* before it, which has that id unless it was made by score_ or              *)
(* continue_condition_ alone. (driver.cpp:223)                               *)
TestsAllTested ==
  overview # NoOverview =>
    LET groups == overview.groups
        last == Len(groups)
    IN  /\ overview.test_set \subseteq UNION {groups[i].query : i \in 1..last}
        /\ IsSimple0(dir) => \A i \in 1..last - 1 :
             groups[i].query \cap groups[last].query = {}
        /\ \A i \in 1..last :
             groups[i].dependency # NoGroup =>
               \/ \E j \in 1..i - 1 : groups[j].id = groups[i].dependency
               \/ groups[i].dependency \in dir.scored \ DOMAIN dir.groups

(* A converted problem is complete, and each of its tests is in a group that *)
(* is asked for. (internal0.cpp:129, driver.cpp:223)                         *)
ProblemConverted == RootIsComplete /\ TestsAllTested

=============================================================================
