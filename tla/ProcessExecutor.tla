--------------------------- MODULE ProcessExecutor ---------------------------
(***************************************************************************)
(* bunsan::process: threads of one process that execute programs with      *)
(* native_executor and wait for them.                                      *)
(*                                                                         *)
(* The threads share the table of file descriptors, and a child starts     *)
(* with a copy of it, whatever other threads have open at that moment.     *)
(* Files are opened with O_CLOEXEC, except those of standard streams that  *)
(* write the data for a program's input.                                   *)
(***************************************************************************)
EXTENDS Naturals, Integers, FiniteSets

CONSTANTS
  Spawners,
  Contexts,      \* arguments of the calls that are made
  MaxFd,         \* bound on descriptors
  MaxExecutes,   \* bound on calls
  SIGABRT,
  NoFile, NoContext

Streams == {"stdin", "stdout", "stderr"}
Number == [stdin |-> 0, stdout |-> 1, stderr |-> 2]

(* executable: "none", or whether it is a mere name, a relative or an        *)
(* absolute path; use_path: 1, 0, or -1 where it is not set.                 *)
ContextType == [executable : {"none", "name", "relative", "absolute", "empty"},
                arguments : Nat, use_path : {-1, 0, 1}, with_output : BOOLEAN,
                stdin : {"default", "inherit", "suppress", "path", "data"},
                stdout : {"default", "inherit", "suppress", "path"},
                stderr : {"default", "inherit", "suppress", "path", "redirect"}]
ASSUME ExecutorAssumption ==
  /\ Contexts \subseteq ContextType
  /\ MaxFd \in Nat /\ MaxFd > 2 /\ MaxExecutes \in Nat /\ SIGABRT \in Nat \ {0}
  /\ IsFiniteSet(Spawners)

Fds == 0..MaxFd
(* Files: the parent's own three, the null device, and per thread a path per *)
(* stream and the temporary files of input data and of output.               *)
Files == {<<"parent", s>> : s \in Streams} \cup {<<"null">>}
           \cup {<<"path", t, s>> : t \in Spawners, s \in Streams}
           \cup {<<k, t>> : k \in {"data", "output"}, t \in Spawners}

(* An open descriptor is not one of none. *)
ASSUME NoFileAssumption == NoFile \notin [file : Files, cloexec : BOOLEAN]

VARIABLES
  table,         \* the parent's descriptors: NoFile, or a file and whether
                 \* exec closes it
  temps,         \* temporary files there are
  context,       \* per thread: the context of its call
  pcExec,        \* per thread
  handles,       \* per thread: descriptor and ownership of each stream opened
  child,         \* per thread: the descriptors of its child
  ended,         \* per thread: how the child has ended; 1000 while it runs
  outcome,       \* per thread: what the call returns or throws
  executes

execVars == <<table, temps, context, pcExec, handles, child, ended, outcome,
              executes>>

Open(file, cloexec) == [file |-> file, cloexec |-> cloexec]
AtStart == [fd \in Fds |->
  IF \E s \in Streams : Number[s] = fd
    THEN Open(<<"parent", CHOOSE s \in Streams : Number[s] = fd>>, FALSE)
    ELSE NoFile]
Running == 1000
NoHandles == [s \in {} |-> 0]

ExecInit ==
  /\ table = AtStart
  /\ temps = {}
  /\ context = [t \in Spawners |-> NoContext]
  /\ pcExec = [t \in Spawners |-> "none"]
  /\ handles = [t \in Spawners |-> NoHandles]
  /\ child = [t \in Spawners |-> NoFile]
  /\ ended = [t \in Spawners |-> Running]
  /\ outcome = [t \in Spawners |-> "none"]
  /\ executes = 0

Step(t, from, to) == pcExec[t] = from /\ pcExec' = [pcExec EXCEPT ![t] = to]
Free(fd) == table[fd] = NoFile /\ \A other \in 0..fd - 1 : table[other] # NoFile

----------------------------------------------------------------------------
(* The call *)

(* sync_execute_with_output sends both outputs to a temporary file. *)
Execute(t, ctx) ==
  /\ executes < MaxExecutes /\ executes' = executes + 1
  /\ Step(t, "none", "build")
  /\ context' = [context EXCEPT ![t] =
       IF ctx.with_output THEN [ctx EXCEPT !.stdout = "path", !.stderr = "redirect"]
       ELSE ctx]
  /\ temps' = IF ctx.with_output THEN temps \cup {<<"output", t>>} ELSE temps
  /\ handles' = [handles EXCEPT ![t] = NoHandles]
  /\ child' = [child EXCEPT ![t] = NoFile]
  /\ ended' = [ended EXCEPT ![t] = Running]
  /\ outcome' = [outcome EXCEPT ![t] = "none"]
  /\ UNCHANGED table

(* context::build_(): the executable defaults to the first argument, which   *)
(* then decides, if nobody has, whether PATH is searched; PATH is only for   *)
(* mere names, and what is not in it gets absolute.                          *)
Nothing(ctx) == ctx.executable = "none" /\ ctx.arguments = 0
Built(ctx) ==
  LET executable == IF ctx.executable = "none" THEN "name" ELSE ctx.executable
      asked == IF ctx.use_path = -1 THEN executable \in {"name", "empty"}
               ELSE ctx.use_path = 1
      use_path == asked /\ executable # "absolute"
  IN [ctx EXCEPT !.arguments = IF @ = 0 THEN 1 ELSE @,
                 !.use_path = IF use_path THEN 1 ELSE 0,
                 !.executable = IF use_path THEN executable ELSE "absolute"]
Buildable(ctx) ==
  /\ ~Nothing(ctx)
  /\ Built(ctx).use_path = 1 => Built(ctx).executable = "name"

Build(t) ==
  /\ pcExec[t] = "build"
  /\ IF Buildable(context[t])
       THEN /\ Step(t, "build", "find")
            /\ context' = [context EXCEPT ![t] = Built(@)]
       ELSE Step(t, "build", "throw") /\ UNCHANGED context
  /\ UNCHANGED <<table, temps, handles, child, ended, outcome, executes>>

(* find_executable_in_path *)
FindExecutable(t) ==
  /\ pcExec[t] = "find"
  /\ \/ Step(t, "find", "stdin")
     \/ context[t].use_path = 1 /\ Step(t, "find", "throw")
  /\ UNCHANGED <<table, temps, context, handles, child, ended, outcome, executes>>

After == [stdin |-> "stdout", stdout |-> "stderr", stderr |-> "fork"]
Give(t, s, fd, owned) ==
  handles' = [handles EXCEPT ![t] =
    [x \in DOMAIN @ \cup {s} |-> IF x = s THEN [fd |-> fd, owned |-> owned] ELSE @[x]]]

(* file_action_visitor: the parent's own stream, as it is ... *)
Standard(t, s) ==
  CASE context[t][s] = "inherit" -> Number[s]
    [] context[t][s] = "default" /\ s # "stdin" -> Number[s]
    [] context[t][s] = "redirect" -> Number["stdout"]
    [] OTHER -> -1

Inherit(t, s) ==
  /\ Step(t, s, After[s])
  /\ Standard(t, s) >= 0
  /\ Give(t, s, Standard(t, s), FALSE)
  /\ UNCHANGED <<table, temps, context, child, ended, outcome, executes>>

(* ... or a file that sys_open opens, or throws. *)
FileOf(t, s) ==
  CASE context[t][s] = "data" -> <<"data", t>>
    [] context[t][s] = "path" /\ context[t].with_output -> <<"output", t>>
    [] context[t][s] = "path" /\ ~context[t].with_output -> <<"path", t, s>>
    [] OTHER -> <<"null">>

(* Mutant of SysOpen: without O_CLOEXEC. *)
SysOpenInherited(fd, file) == Free(fd) /\ table' = [table EXCEPT ![fd] = Open(file, FALSE)]
SysOpen(fd, file) == Free(fd) /\ table' = [table EXCEPT ![fd] = Open(file, TRUE)]

OpenFile(t, s) ==
  /\ Standard(t, s) < 0
  /\ context[t][s] = "data" => <<"data", t>> \in temps
  /\ \/ /\ Step(t, s, After[s])
        /\ \E fd \in Fds : SysOpen(fd, FileOf(t, s)) /\ Give(t, s, fd, TRUE)
     \/ /\ context[t][s] = "path" /\ Step(t, s, "throw")
        /\ UNCHANGED <<table, handles>>
  /\ UNCHANGED <<temps, context, child, ended, outcome, executes>>

(* Data for the input goes through a temporary file. *)
WriteData(t) ==
  /\ context[t].stdin = "data" /\ <<"data", t>> \notin temps
  /\ Step(t, "stdin", "data")
  /\ temps' = temps \cup {<<"data", t>>}
  /\ \E fd \in Fds : Free(fd) /\ table' = [table EXCEPT ![fd] = Open(<<"data", t>>, FALSE)]
  /\ UNCHANGED <<context, handles, child, ended, outcome, executes>>

CloseData(t) ==
  /\ Step(t, "data", "stdin")
  /\ table' = [fd \in Fds |-> IF table[fd] = Open(<<"data", t>>, FALSE) THEN NoFile
                              ELSE table[fd]]
  /\ UNCHANGED <<temps, context, handles, child, ended, outcome, executes>>

----------------------------------------------------------------------------
(* The child *)

Fork(t) ==
  /\ \/ Step(t, "fork", "wait") /\ child' = [child EXCEPT ![t] = table]
     \/ Step(t, "fork", "throw") /\ UNCHANGED child
  /\ UNCHANGED <<table, temps, context, handles, ended, outcome, executes>>

(* dup2 to the stream's number, where it is not there already; assigning the *)
(* new handle closes the old one, if it owns its descriptor.                 *)
Dup2(fds, handle, s) ==
  LET to == Number[s] IN
  [fd \in Fds |->
    CASE fd = to -> Open(fds[handle.fd].file, FALSE)
      [] fd = handle.fd /\ fd # to /\ handle.owned -> NoFile
      [] OTHER -> fds[fd]]

Redirected(fds, hs) ==
  Dup2(Dup2(Dup2(fds, hs.stdin, "stdin"), hs.stdout, "stdout"), hs.stderr, "stderr")

Kept(fds) ==
  [fd \in Fds |-> IF fds[fd] # NoFile /\ fds[fd].cloexec THEN NoFile ELSE fds[fd]]

(* execve, or an exception and abort(). *)
Exec(t) ==
  /\ Step(t, "wait", "image")
  /\ \/ /\ child' = [child EXCEPT ![t] = Kept(Redirected(@, handles[t]))]
        /\ UNCHANGED ended
     \/ child' = [child EXCEPT ![t] = NoFile] /\ ended' = [ended EXCEPT ![t] = -SIGABRT]
  /\ UNCHANGED <<table, temps, context, handles, outcome, executes>>

(* The program exits, with 0 or not, or a signal kills it. *)
End(t) ==
  /\ pcExec[t] = "image" /\ ended[t] = Running
  /\ \E how \in {0, 1, -1} : ended' = [ended EXCEPT ![t] = how]
  /\ UNCHANGED <<table, temps, context, pcExec, handles, child, outcome, executes>>

----------------------------------------------------------------------------
(* Return: waitpid, then the handles and temporary files go. *)

Release(t) ==
  /\ table' = [fd \in Fds |->
       IF \E s \in DOMAIN handles[t] : handles[t][s].owned /\ handles[t][s].fd = fd
         THEN NoFile ELSE table[fd]]
  /\ temps' = temps \ {<<"data", t>>, <<"output", t>>}
  /\ handles' = [handles EXCEPT ![t] = NoHandles]

(* check_sync_execute throws unless the status is 0. *)
Return(t) ==
  /\ ended[t] # Running
  /\ Step(t, "image", "none")
  /\ outcome' = [outcome EXCEPT ![t] = IF ended[t] = 0 THEN "ok" ELSE "non-zero"]
  /\ Release(t)
  /\ UNCHANGED <<context, child, ended, executes>>

Throw(t) ==
  /\ Step(t, "throw", "none")
  /\ outcome' = [outcome EXCEPT ![t] = "error"]
  /\ Release(t)
  /\ UNCHANGED <<context, child, ended, executes>>

ExecNext ==
  \E t \in Spawners :
    \/ \E ctx \in Contexts : Execute(t, ctx)
    \/ Build(t) \/ FindExecutable(t)
    \/ \E s \in Streams : pcExec[t] = s /\ (Inherit(t, s) \/ OpenFile(t, s))
    \/ pcExec[t] = "stdin" /\ WriteData(t)
    \/ CloseData(t)
    \/ Fork(t) \/ Exec(t) \/ End(t) \/ Return(t) \/ Throw(t)

ExecSpec == ExecInit /\ [][ExecNext]_execVars

----------------------------------------------------------------------------
(* Properties *)

ExecTypeOK ==
  /\ DOMAIN table = Fds
  /\ \A fd \in Fds : table[fd] = NoFile
                       \/ table[fd] \in [file : Files, cloexec : BOOLEAN]
  /\ temps \subseteq Files
  /\ \A t \in Spawners : context[t] = NoContext \/ context[t] \in ContextType
  /\ pcExec \in [Spawners -> {"none", "build", "find", "data", "fork", "wait",
                             "image", "throw"} \cup Streams]
  /\ \A t \in Spawners : DOMAIN handles[t] \subseteq Streams
  /\ ended \in [Spawners -> {Running, 0, 1, -1, -SIGABRT}]
  /\ outcome \in [Spawners -> {"none", "ok", "non-zero", "error"}]
  /\ executes \in 0..MaxExecutes

(* A program starts with exactly the three streams its caller asked for,     *)
(* stderr following stdout where it was told to, and with nothing else of    *)
(* this or of another thread's call, but perhaps a file whose input data     *)
(* another thread is writing just then; and once no call is under way, no    *)
(* descriptor and no temporary file is left of any, however each ended.      *)
(* (unix/execute.cpp:45-60, handle.cpp:136-200)                              *)
Wanted(t, s) ==
  LET how == context[t][s] IN
  IF how = "redirect"
    THEN IF context[t].stdout \in {"default", "inherit"} THEN <<"parent", "stdout">>
         ELSE FileOf(t, "stdout")
  ELSE IF how = "inherit" \/ (how = "default" /\ s # "stdin") THEN <<"parent", s>>
  ELSE FileOf(t, s)

ProgramsGetTheirFiles ==
  /\ \A t \in Spawners :
       pcExec[t] = "image" /\ child[t] # NoFile =>
         \A fd \in Fds :
           IF fd <= 2
             THEN /\ child[t][fd] # NoFile
                  /\ \A s \in Streams :
                       Number[s] = fd => child[t][fd].file = Wanted(t, s)
             ELSE \/ child[t][fd] = NoFile
                  \/ \E u \in Spawners \ {t} : child[t][fd].file = <<"data", u>>
  /\ (\A t \in Spawners : pcExec[t] = "none") => table = AtStart /\ temps = {}

=============================================================================
