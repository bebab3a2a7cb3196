---------------------------- MODULE UtilityTools ----------------------------
(***************************************************************************)
(* bunsan::utility: builders, makers, archivers and fetchers.  Each is a   *)
(* sequence of programs, found by a resolver and run one after the other;  *)
(* a program has a current directory of its own, in which it looks for the *)
(* relative paths it is given.                                             *)
(*                                                                         *)
(* What a program does is external: it makes its destination out of its    *)
(* source, or fails and leaves a part of it.                               *)
(***************************************************************************)
EXTENDS Naturals, FiniteSets, Sequences, Functions

CONSTANTS
  FileNames,     \* names of files and directories
  ToolTasks,     \* what the tools may be asked to do
  Resolvers,     \* configurations of custom_resolver
  Installed,     \* names that PATH has
  Sources,       \* contents of the files there are in the beginning
  MaxTasks,      \* bound on tasks
  Empty, Part,   \* contents: nothing, and what a failed program leaves
  NoTask

VARIABLES
  disk,          \* contents by absolute location
  task,          \* what is asked for
  resolver,      \* the configuration of its resolver
  wanted,        \* executables still to be found
  looking, used, \* custom_resolver: the name it has come to, and those before
  located,       \* the names that the executables looked for have come to
  programs,      \* programs still to be run
  toolOutcome,       \* of the last task
  before,        \* history: the disk when the task was asked for
  tasks

resolverVars == <<resolver, wanted, looking, used, located>>
toolVars == <<disk, task, resolverVars, programs, toolOutcome, before, tasks>>

ToolInit ==
  /\ disk = Sources
  /\ task = NoTask /\ resolver = NoTask
  /\ wanted = <<>> /\ looking = NoTask /\ used = {} /\ located = <<>>
  /\ programs = <<>>
  /\ toolOutcome = "none"
  /\ before = Sources
  /\ tasks = 0

----------------------------------------------------------------------------
(* Paths: a location is a sequence of names from the root. *)

Path(abs, names) == [abs |-> abs, names |-> names]
Cwd == <<"cwd">>
In(dir, p) == IF p.abs THEN p.names ELSE dir \o p.names
absolute(p) == Path(TRUE, In(Cwd, p))
Inside(p, name) == Path(p.abs, Append(p.names, name))
parent_path(place) == SubSeq(place, 1, Len(place) - 1)
filename(place) == Path(FALSE, <<place[Len(place)]>>)
Dot == Path(FALSE, <<>>)
Below(dir, place) ==
  Len(place) >= Len(dir) /\ SubSeq(place, 1, Len(dir)) = dir

(* What may be asked for.  A source that is built is not in the directory    *)
(* that builder::pack empties before it looks at it (builder.cpp:14), and the *)
(* root is not packed: it has no parent.                                     *)
ToolPaths == [abs : BOOLEAN, names : Seq(FileNames)]
Moves(op, tools) == [op : {op}, tool : tools, from : ToolPaths, to : ToolPaths]
Builds ==
  [op : {"build"}, tool : {"cmake", "meson"}, from : ToolPaths, to : ToolPaths,
   bin : ToolPaths, archiver : {"tar", "7z"}, generator : {"Makefiles", "Ninja", "none"}]
ASSUME FileNamesAssumption == {"cwd", "bin", "root"} \subseteq FileNames
ASSUME ToolTasksAssumption ==
  /\ \A t \in ToolTasks :
       \/ t \in Moves("pack", {"tar", "7z"}) /\ In(Cwd, t.from) # <<>>
       \/ t \in Moves("unpack", {"tar", "7z"}) \cup Moves("fetch", {"copy", "curl", "wget"})
       \/ t \in Builds /\ ~Below(In(Cwd, t.bin), In(Cwd, t.from))
  /\ NoTask \notin ToolTasks
ASSUME SourcesAssumption == DOMAIN Sources \subseteq Seq(FileNames)
ASSUME MaxTasksAssumption == MaxTasks \in Nat

Filled(d, place, content) ==
  [x \in DOMAIN d \cup {place} |-> IF x = place THEN content ELSE d[x]]
Cleared(d, dir) == Restrict(d, {x \in DOMAIN d : ~Below(dir, x)})

----------------------------------------------------------------------------
(* Programs: the executable, the directory in which it looks for relative    *)
(* paths, and where it takes from and makes.                                 *)

Program(exe, cwd, from, to) == [exe |-> exe, cwd |-> cwd, from |-> from, to |-> to]

(* archivers::cwd_split names the file in its directory; tar is told to      *)
(* change to the directory, 7z is started in it.                             *)
tar_pack_from(dir, archive, file) == Program("tar", dir, file, archive)
tar_unpack(archive, dir) ==
  Program("tar", Cwd, absolute(archive), absolute(dir))
_7z_pack_from(dir, archive, file) == Program("7z", dir, file, archive)
_7z_unpack(archive, dir) == Program("7z", Cwd, archive, dir)

pack_from(archiver, dir, archive, file) ==
  IF archiver = "tar" THEN tar_pack_from(dir, archive, file)
                      ELSE _7z_pack_from(dir, archive, file)
pack(archiver, archive, file) ==
  pack_from(archiver, parent_path(In(Cwd, file)), absolute(archive),
            filename(In(Cwd, file)))
pack_contents(archiver, archive, dir) ==
  pack_from(archiver, In(Cwd, dir), absolute(archive), Dot)
unpack(archiver, archive, dir) ==
  IF archiver = "tar" THEN tar_unpack(archive, dir)
                      ELSE _7z_unpack(archive, dir)

(* The makers get DESTDIR, make as an argument and ninja in its environment; *)
(* one in their configuration gives way to it.                               *)
make_exec(cwd, DESTDIR) ==
  Program("make", In(Cwd, cwd), absolute(cwd), DESTDIR)
ninja_exec(cwd, DESTDIR) ==
  Program("ninja", In(Cwd, cwd), absolute(cwd), DESTDIR)

(* Mutant of cmake: the path is passed on as it is. *)
cmake_as_given(src, bin, root) ==
  <<Program("cmake", In(Cwd, bin), absolute(src), absolute(bin)),
    make_exec(bin, absolute(bin)), make_exec(bin, root)>>

(* configure_, make_ and install_ of the two builders *)
cmake(src, bin, root) ==
  <<Program("cmake", In(Cwd, bin), absolute(src), absolute(bin)),
    make_exec(bin, absolute(bin)), make_exec(bin, absolute(root))>>
meson(src, bin, root) ==
  <<Program("meson", In(Cwd, bin), absolute(src), absolute(bin)),
    ninja_exec(bin, absolute(bin)), ninja_exec(bin, root)>>

install(builder, src, bin, root) ==
  IF builder = "cmake" THEN cmake(src, bin, root) ELSE meson(src, bin, root)

(* builder::pack: empty the given directory, install into one directory in   *)
(* it what is built in another, and pack that.                               *)
BuildDir(t) == Inside(t.bin, "bin")
RootDir(t) == Inside(t.bin, "root")
PackPrograms(t) ==
  <<Program("reset_dir", Cwd, t.bin, t.bin)>>
    \o install(t.tool, t.from, BuildDir(t), RootDir(t))
    \o <<pack_contents(t.archiver, t.to, RootDir(t))>>

(* fetchers *)
copy(uri, dst) == Program("copy", Cwd, uri, dst)
curl(uri, dst) == Program("curl", Cwd, uri, absolute(dst))
wget(uri, dst) == Program("wget", Cwd, uri, absolute(dst))

ProgramsOf(t) ==
  CASE t.op = "build" -> PackPrograms(t)
    [] t.op = "pack" -> <<pack(t.tool, t.to, t.from)>>
    [] t.op = "unpack" -> <<unpack(t.tool, t.from, t.to)>>
    [] t.tool = "copy" -> <<copy(t.from, t.to)>>
    [] t.tool = "curl" -> <<curl(t.from, t.to)>>
    [] t.tool = "wget" -> <<wget(t.from, t.to)>>

(* The programs that need not be looked for: they are calls of the library.  *)
Calls == {"reset_dir", "copy"}

(* What the constructors look for. *)
Executables(t) ==
  IF t.op = "build" THEN <<t.tool, IF t.tool = "cmake" THEN "make" ELSE "ninja", t.archiver>>
  ELSE IF t.tool \in Calls THEN <<>> ELSE <<t.tool>>

(* cmake knows how to build with one kind of generator only. *)
GeneratorOK(t) == t.op = "build" /\ t.tool = "cmake" => t.generator = "Makefiles"

----------------------------------------------------------------------------
(* Tasks *)

Busy == toolOutcome = "running"

Ask(t, r) ==
  /\ ~Busy /\ tasks < MaxTasks /\ tasks' = tasks + 1
  /\ task' = t /\ resolver' = r
  /\ toolOutcome' = "running" /\ before' = disk
  /\ wanted' = Executables(t) /\ located' = <<>>
  /\ looking' = NoTask /\ used' = {}
  /\ programs' = ProgramsOf(t)
  /\ UNCHANGED disk

Done(result) ==
  /\ toolOutcome' = result
  /\ programs' = <<>> /\ wanted' = <<>> /\ looking' = NoTask
  /\ UNCHANGED <<task, resolver, used, located, before, tasks>>

----------------------------------------------------------------------------
(* custom_resolver *)

StartLooking ==
  /\ Busy /\ wanted # <<>> /\ looking = NoTask
  /\ looking' = Head(wanted) /\ used' = {Head(wanted)}
  /\ UNCHANGED <<disk, task, resolver, wanted, located, programs, toolOutcome,
                 before, tasks>>

(* An alias of an alias is looked up in its turn, but no name twice. *)
apply_alias ==
  /\ Busy /\ looking \in DOMAIN resolver.alias
  /\ LET name == resolver.alias[looking] IN
       IF name \in used
         THEN Done("failed") /\ UNCHANGED disk
         ELSE /\ looking' = name /\ used' = used \cup {name}
              /\ UNCHANGED <<disk, task, resolver, wanted, located, programs,
                             toolOutcome, before, tasks>>

(* The rest of find_executable: the name has an absolute path in the         *)
(* configuration, or is looked up in PATH if the configuration has it for    *)
(* that, or is left as it is.  Names here have no directory.                 *)
find_executable ==
  /\ Busy /\ looking # NoTask /\ looking \notin DOMAIN resolver.alias
  /\ IF looking \in resolver.path \ (resolver.absolute \cup Installed)
       THEN Done("failed")
       ELSE /\ located' = Filled(located, Head(wanted), looking)
            /\ wanted' = Tail(wanted) /\ looking' = NoTask
            /\ UNCHANGED <<task, resolver, used, programs, toolOutcome, before, tasks>>
  /\ UNCHANGED disk

----------------------------------------------------------------------------
(* Running *)

Ready == Busy /\ wanted = <<>> /\ programs # <<>>

(* The constructor of cmake, before any program. *)
UnknownGenerator ==
  /\ Ready /\ ~GeneratorOK(task) /\ Done("failed") /\ UNCHANGED disk

Advance ==
  IF Len(programs) = 1
    THEN Done("ok")
    ELSE /\ programs' = Tail(programs)
         /\ UNCHANGED <<task, resolverVars, toolOutcome, before, tasks>>

(* A name that is left as it is is looked up in PATH when it is executed     *)
(* (process::context::build, native_executor::sync_execute).                 *)
Starts(p) ==
  p.exe \notin Calls => located[p.exe] \in resolver.absolute \cup Installed
Place(p) == In(p.cwd, p.to)
Source(p) == In(p.cwd, p.from)

(* The two directories of builder::pack are empty then. *)
ResetBin ==
  /\ Ready /\ GeneratorOK(task) /\ Head(programs).exe = "reset_dir"
  /\ LET bin == In(Cwd, task.bin) IN
       disk' = Filled(Filled(Cleared(disk, bin), Append(bin, "bin"), Empty),
                     Append(bin, "root"), Empty)
  /\ Advance

(* 7z does not overwrite: the archive is removed first. *)
Prepared(p) ==
  IF p.exe = "7z" /\ task.op # "unpack" THEN Cleared(disk, Place(p)) ELSE disk

(* An empty body may make curl create no file; then one is created, but one  *)
(* that is there stays.                                                      *)
Results(p) ==
  {disk[Source(p)]} \cup
  IF p.exe = "curl" /\ disk[Source(p)] = Empty /\ Place(p) \in DOMAIN disk
    THEN {disk[Place(p)]} ELSE {}

RunProgram ==
  LET p == Head(programs) IN
  /\ Ready /\ p.exe # "reset_dir"
  /\ Starts(p) /\ Source(p) \in DOMAIN disk
  /\ \E content \in Results(p) : disk' = Filled(Prepared(p), Place(p), content)
  /\ Advance

(* The program cannot be started, or ends with an error. *)
ProgramFails ==
  LET p == Head(programs) IN
  /\ Ready /\ GeneratorOK(task)
  /\ \/ disk' = disk
     \/ p.exe = "reset_dir" /\ disk' = Cleared(disk, Place(p))
     \/ p.exe # "reset_dir" /\ disk' = Prepared(p)
     \/ /\ Starts(p) /\ p.exe # "reset_dir"
        /\ disk' = Filled(Prepared(p), Place(p), Part)
  /\ Done("failed")

ToolNext ==
  \/ \E t \in ToolTasks, r \in Resolvers : Ask(t, r)
  \/ StartLooking \/ apply_alias \/ find_executable
  \/ UnknownGenerator \/ ResetBin \/ RunProgram \/ ProgramFails

ToolSpec == ToolInit /\ [][ToolNext]_toolVars

----------------------------------------------------------------------------
(* Properties *)

Contents == Range(Sources) \cup {Empty, Part}

ToolTypeOK ==
  /\ Range(disk) \subseteq Contents
  /\ task \in ToolTasks \cup {NoTask} /\ resolver \in Resolvers \cup {NoTask}
  /\ toolOutcome \in {"none", "running", "ok", "failed"}
  /\ looking # NoTask => looking \in used
  /\ Len(programs) <= 5 /\ tasks \in 0..MaxTasks

Target(t) == In(Cwd, t.to)

(* The cases in which the code does not do what it is asked: ninja, started  *)
(* in the directory it builds in, gets a relative DESTDIR as it is           *)
(* (meson.cpp:77, compare cmake.cpp:81); curl may leave the file there was   *)
(* (curl.cpp:29).                                                            *)
Misplaced(t) == t.op = "build" /\ t.tool = "meson" /\ ~t.bin.abs
Stale(t) ==
  /\ t.tool = "curl" /\ before[In(Cwd, t.from)] = Empty
  /\ Target(t) \in DOMAIN before

(* What is asked for in a path relative to the caller's directory is done    *)
(* there, whatever the directory of each program: a task that succeeds       *)
(* leaves the content of its source at its destination, and every task       *)
(* leaves everything but its destination and its working directory as it     *)
(* was. (builder.cpp:10, cwd_split.cpp:21)                                   *)
BuiltWhereAsked ==
  task # NoTask /\ ~Busy =>
    /\ toolOutcome = "ok" /\ ~Misplaced(task) /\ ~Stale(task) =>
         Target(task) \in DOMAIN disk
         /\ disk[Target(task)] = before[In(Cwd, task.from)]
    /\ \A place \in DOMAIN before :
         \/ Below(Target(task), place)
         \/ task.op = "build" /\ Below(In(Cwd, task.bin), place)
         \/ place \in DOMAIN disk /\ disk[place] = before[place]

=============================================================================
