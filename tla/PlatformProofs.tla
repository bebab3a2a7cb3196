---------------------------- MODULE PlatformProofs ----------------------------
(***************************************************************************)
(* Proofs about what the programs stand on.  A program started by          *)
(* bunsan::process has the files it was to get, because every descriptor   *)
(* that is open and inherited belongs to one stream of one spawner.  A     *)
(* reply of bunsan::curl is told by the headers after its last status      *)
(* line.  A handle of libcurl points only at options that the easy which   *)
(* owns it holds.  And global states live as long as an application that   *)
(* was given them, because who builds a registry has the mutex, and who    *)
(* destroys one is the last to have had it.                                *)
(***************************************************************************)
EXTENDS ProcessExecutor, HttpClient, Lifetimes, RankedProofs, FiniteSetTheorems,
        SequenceTheorems, TLAPS

(* A function from an interval is a sequence. *)
LEMMA SeqMade ==
  ASSUME NEW S, NEW n \in Nat, NEW f \in [1..n -> S]
  PROVE  f \in Seq(S) /\ Len(f) = n
OBVIOUS

----------------------------------------------------------------------------
(* bunsan::process: descriptors and the programs started with them *)

OpenFiles == [file : Files, cloexec : BOOLEAN]
Opened == 3..MaxFd

(* Thread t has opened fd for one of its streams. *)
Owns(t, fd) == \E s \in DOMAIN handles[t] : handles[t][s] = [fd |-> fd, owned |-> TRUE]
InData(t, fd) == pcExec[t] = "data" /\ table[fd].file = <<"data", t>>

TableInv ==
  /\ table \in [Fds -> OpenFiles \cup {NoFile}]
  /\ \A fd \in 0..2 : table[fd] = AtStart[fd]
  /\ \A fd \in Opened : table[fd] # NoFile =>
       \E t \in Spawners : IF table[fd].cloexec THEN Owns(t, fd) ELSE InData(t, fd)

(* No two streams have one descriptor. *)
OwnersInv ==
  \A t, u \in Spawners : \A s \in DOMAIN handles[t] : \A r \in DOMAIN handles[u] :
    handles[t][s].owned /\ handles[u][r].owned /\ handles[t][s].fd = handles[u][r].fd
      => t = u /\ s = r

ProgramCounters == {"none", "build", "find", "data", "fork", "wait", "image", "throw"} \cup Streams
TempsInv ==
  /\ temps \subseteq {<<k, t>> : k \in {"data", "output"}, t \in Spawners}
  /\ \A t \in Spawners : <<"data", t>> \in temps \/ <<"output", t>> \in temps
       => pcExec[t] # "none"

(* The streams of t that have a handle already. *)
StreamsInv(t) ==
  /\ DOMAIN handles[t] \subseteq Streams
  /\ pcExec[t] \in {"none", "build", "find", "stdin", "data"} => DOMAIN handles[t] = {}
  /\ pcExec[t] = "stdout" => DOMAIN handles[t] = {"stdin"}
  /\ pcExec[t] = "stderr" => DOMAIN handles[t] = {"stdin", "stdout"}
  /\ pcExec[t] \in {"fork", "wait", "image"} => DOMAIN handles[t] = Streams

HandlesInv(t) ==
  \A s \in DOMAIN handles[t] :
    IF Standard(t, s) >= 0
      THEN handles[t][s] = [fd |-> Standard(t, s), owned |-> FALSE]
      ELSE \E fd \in Opened : /\ handles[t][s] = [fd |-> fd, owned |-> TRUE]
                              /\ table[fd] = Open(FileOf(t, s), TRUE)

(* What a program that has not started yet has inherited. *)
Inherits(t, fds) ==
  /\ fds \in [Fds -> OpenFiles \cup {NoFile}]
  /\ \A fd \in 0..2 : fds[fd] = AtStart[fd]
  /\ \A s \in Streams : handles[t][s].owned =>
       fds[handles[t][s].fd] = Open(FileOf(t, s), TRUE)
  /\ \A fd \in Opened : fds[fd] # NoFile /\ ~fds[fd].cloexec =>
       \E u \in Spawners \ {t} : fds[fd].file = <<"data", u>>

Starts(t, fds) ==
  \A fd \in Fds :
    IF fd <= 2
      THEN /\ fds[fd] # NoFile
           /\ \A s \in Streams : Number[s] = fd => fds[fd].file = Wanted(t, s)
      ELSE \/ fds[fd] = NoFile
           \/ \E u \in Spawners \ {t} : fds[fd].file = <<"data", u>>

ChildInv(t) ==
  /\ pcExec[t] = "wait" => Inherits(t, child[t])
  /\ pcExec[t] = "image" /\ child[t] # NoFile => Starts(t, child[t])

ContextInv(t) == pcExec[t] # "none" => context[t] \in ContextType

SpawnerInv(t) == ContextInv(t) /\ StreamsInv(t) /\ HandlesInv(t) /\ ChildInv(t)
ExecTyped ==
  /\ pcExec \in [Spawners -> ProgramCounters]
  /\ DOMAIN context = Spawners /\ DOMAIN handles = Spawners /\ DOMAIN child = Spawners

ExecInv == ExecTyped /\ TableInv /\ OwnersInv /\ TempsInv /\ \A t \in Spawners : SpawnerInv(t)

----------------------------------------------------------------------------
(* Of streams and descriptors *)

(* The descriptors that a spawner opens are not the three standard ones. *)
LEMMA FdsAre ==
  /\ 0 \in Fds /\ 1 \in Fds /\ 2 \in Fds /\ MaxFd \in Nat
  /\ \A fd \in Opened : fd \in Fds /\ fd \in Nat /\ fd \notin 0..2
  /\ \A fd \in Fds : fd \in 0..2 \/ fd \in Opened
  /\ \A fd \in Fds : fd <= 2 <=> fd \in 0..2
  /\ \A fd \in 0..2 : fd = 0 \/ fd = 1 \/ fd = 2
BY ExecutorAssumption DEF Fds, Opened

(* The number of a stream is one of the three. *)
LEMMA Numbered ==
  /\ Number["stdin"] = 0 /\ Number["stdout"] = 1 /\ Number["stderr"] = 2
  /\ \A s \in Streams : Number[s] \in 0..2
BY DEF Number, Streams

(* An open file is none that is closed. *)
LEMMA OpenIs ==
  ASSUME NEW file \in Files, NEW cloexec \in BOOLEAN
  PROVE  /\ Open(file, cloexec) \in OpenFiles /\ Open(file, cloexec) # NoFile
         /\ Open(file, cloexec).file = file /\ Open(file, cloexec).cloexec = cloexec
BY NoFileAssumption DEF Open, OpenFiles

(* A program begins with its parent's three files and no other. *)
LEMMA StartIs ==
  /\ AtStart \in [Fds -> OpenFiles \cup {NoFile}]
  /\ \A s \in Streams : AtStart[Number[s]] = Open(<<"parent", s>>, FALSE)
  /\ \A s \in Streams : <<"parent", s>> \in Files
  /\ \A fd \in Opened : AtStart[fd] = NoFile
<1>1. \A s \in Streams : <<"parent", s>> \in Files BY DEF Files
<1>2. \A s \in Streams : Open(<<"parent", s>>, FALSE) \in OpenFiles BY <1>1, OpenIs
<1>3. \A s \in Streams : (CHOOSE r \in Streams : Number[r] = Number[s]) = s
  <2>1. \A r, s \in Streams : Number[r] = Number[s] => r = s BY DEF Streams, Number
  <2> QED BY <2>1
<1>4. \A s \in Streams : AtStart[Number[s]] = Open(<<"parent", s>>, FALSE)
  <2> SUFFICES ASSUME NEW s \in Streams
               PROVE  AtStart[Number[s]] = Open(<<"parent", s>>, FALSE)
    OBVIOUS
  <2>1. Number[s] \in Fds BY Numbered, FdsAre
  <2>2. AtStart[Number[s]] =
          Open(<<"parent", CHOOSE r \in Streams : Number[r] = Number[s]>>, FALSE)
    BY <2>1 DEF AtStart
  <2> QED BY <2>2, <1>3
<1>5. \A fd \in Opened : AtStart[fd] = NoFile
  <2> SUFFICES ASSUME NEW fd \in Opened PROVE AtStart[fd] = NoFile OBVIOUS
  <2>1. ~\E s \in Streams : Number[s] = fd BY Numbered, FdsAre
  <2>2. fd \in Fds BY FdsAre
  <2> QED BY <2>1, <2>2 DEF AtStart
<1>6. \A fd \in 0..2 : \E s \in Streams : Number[s] = fd
  <2>1. "stdin" \in Streams /\ "stdout" \in Streams /\ "stderr" \in Streams BY DEF Streams
  <2> QED BY <2>1, Numbered
<1>7. AtStart \in [Fds -> OpenFiles \cup {NoFile}]
  <2>1. \A fd \in Fds : AtStart[fd] \in OpenFiles \cup {NoFile}
    <3>1. \A fd \in 0..2 : AtStart[fd] \in OpenFiles BY <1>2, <1>4, <1>6
    <3>2. \A fd \in Opened : AtStart[fd] \in {NoFile} BY <1>5
    <3> QED BY <3>1, <3>2, FdsAre
  <2>2. AtStart = [fd \in Fds |-> AtStart[fd]] BY DEF AtStart
  <2> QED BY <2>1, <2>2
<1> QED BY <1>1, <1>4, <1>5, <1>7

(* The fields of a context, by their values. *)
LEMMA ContextFields ==
  ASSUME NEW ctx \in ContextType
  PROVE  /\ ctx.stdin \in {"default", "inherit", "suppress", "path", "data"}
         /\ ctx.stdout \in {"default", "inherit", "suppress", "path"}
         /\ ctx.stderr \in {"default", "inherit", "suppress", "path", "redirect"}
         /\ ctx.executable \in {"none", "name", "relative", "absolute", "empty"}
         /\ ctx.arguments \in Nat /\ ctx.use_path \in {-1, 0, 1}
         /\ ctx.with_output \in BOOLEAN
         /\ ctx["stdin"] = ctx.stdin /\ ctx["stdout"] = ctx.stdout
         /\ ctx["stderr"] = ctx.stderr
BY DEF ContextType

(* Which streams are the parent's own. *)
LEMMA StandardIs ==
  ASSUME NEW t \in Spawners, context[t] \in ContextType
  PROVE  /\ Standard(t, "stdin") = IF context[t].stdin = "inherit" THEN 0 ELSE -1
         /\ Standard(t, "stdout") =
              IF context[t].stdout \in {"inherit", "default"} THEN 1 ELSE -1
         /\ Standard(t, "stderr") =
              IF context[t].stderr \in {"inherit", "default"} THEN 2
              ELSE IF context[t].stderr = "redirect" THEN 1 ELSE -1
<1>1. \A s \in Streams :
        /\ context[t][s] = "inherit" => Standard(t, s) = Number[s]
        /\ context[t][s] = "default" /\ s # "stdin" => Standard(t, s) = Number[s]
        /\ context[t][s] = "redirect" => Standard(t, s) = Number["stdout"]
        /\ context[t][s] \notin {"inherit", "redirect"} /\ ~(context[t][s] = "default" /\ s # "stdin")
             => Standard(t, s) = -1
  BY ZenonT(30) DEF Standard
<1>2. "stdin" \in Streams /\ "stdout" \in Streams /\ "stderr" \in Streams BY DEF Streams
<1> QED BY <1>1, <1>2, Numbered, ContextFields

(* Whatever a stream is given is a file. *)
LEMMA FileOfIs ==
  ASSUME NEW t \in Spawners, NEW s \in Streams
  PROVE  FileOf(t, s) \in Files
<1>1. \/ FileOf(t, s) = <<"data", t>> \/ FileOf(t, s) = <<"output", t>>
      \/ FileOf(t, s) = <<"path", t, s>> \/ FileOf(t, s) = <<"null">>
  BY ZenonT(30) DEF FileOf
<1>2. <<"data", t>> \in Files /\ <<"output", t>> \in Files
      /\ <<"path", t, s>> \in Files /\ <<"null">> \in Files
  BY DEF Files
<1> QED BY <1>1, <1>2

----------------------------------------------------------------------------
(* What a step leaves alone *)

(* A handle that is owned has a descriptor of its own, open on its file. *)
LEMMA OwnedIs ==
  ASSUME ExecInv, NEW t \in Spawners, NEW s \in DOMAIN handles[t],
         handles[t][s].owned
  PROVE  /\ handles[t][s] = [fd |-> handles[t][s].fd, owned |-> TRUE]
         /\ handles[t][s].fd \in Opened
         /\ table[handles[t][s].fd] = Open(FileOf(t, s), TRUE)
         /\ table[handles[t][s].fd] # NoFile
<1>1. HandlesInv(t) /\ DOMAIN handles[t] \subseteq Streams
  BY DEF ExecInv, SpawnerInv, StreamsInv
<1>2. ~(Standard(t, s) >= 0)
  <2> SUFFICES ASSUME Standard(t, s) >= 0 PROVE FALSE OBVIOUS
  <2>1. handles[t][s] = [fd |-> Standard(t, s), owned |-> FALSE]
    BY <1>1, Zenon DEF HandlesInv
  <2> QED BY <2>1
<1>3. PICK fd \in Opened : /\ handles[t][s] = [fd |-> fd, owned |-> TRUE]
                           /\ table[fd] = Open(FileOf(t, s), TRUE)
  BY <1>1, <1>2 DEF HandlesInv
<1>4. Open(FileOf(t, s), TRUE) # NoFile BY <1>1, FileOfIs, OpenIs
<1>5. handles[t][s].fd = fd BY <1>3
<1> QED BY <1>3, <1>4, <1>5

(* What a call of a spawner asks for changes only with its context. *)
LEMMA SameCall ==
  ASSUME NEW u \in Spawners, context'[u] = context[u]
  PROVE  \A s \in Streams : /\ Standard(u, s)' = Standard(u, s)
                            /\ FileOf(u, s)' = FileOf(u, s)
                            /\ Wanted(u, s)' = Wanted(u, s)
<1>1. \A s \in Streams : Standard(u, s)' = Standard(u, s) BY Zenon DEF Standard
<1>2. \A s \in Streams : FileOf(u, s)' = FileOf(u, s) BY Zenon DEF FileOf
<1>3. \A s \in Streams : Wanted(u, s)' = Wanted(u, s)
  <2>1. "stdout" \in Streams BY DEF Streams
  <2> QED BY <1>2, <2>1 DEF Wanted
<1> QED BY <1>1, <1>2, <1>3

(* Handles stay right while their descriptors are left alone. *)
LEMMA HandlesKept ==
  ASSUME ExecInv, NEW u \in Spawners,
         context'[u] = context[u], handles'[u] = handles[u],
         \A s \in DOMAIN handles[u] : handles[u][s].owned =>
           table'[handles[u][s].fd] = table[handles[u][s].fd]
  PROVE  HandlesInv(u)'
<1>1. HandlesInv(u) /\ DOMAIN handles[u] \subseteq Streams
  BY DEF ExecInv, SpawnerInv, StreamsInv
<1>2. \A s \in DOMAIN handles[u] :
        Standard(u, s)' = Standard(u, s) /\ FileOf(u, s)' = FileOf(u, s)
  BY <1>1, SameCall
<1> SUFFICES ASSUME NEW s \in DOMAIN handles[u]
             PROVE  IF Standard(u, s) >= 0
                      THEN handles[u][s] = [fd |-> Standard(u, s), owned |-> FALSE]
                      ELSE \E fd \in Opened :
                             /\ handles[u][s] = [fd |-> fd, owned |-> TRUE]
                             /\ table'[fd] = Open(FileOf(u, s), TRUE)
  BY <1>2, Zenon DEF HandlesInv
<1>3. CASE Standard(u, s) >= 0 BY <1>1, <1>3 DEF HandlesInv
<1>4. CASE ~(Standard(u, s) >= 0)
  <2>1. PICK fd \in Opened : /\ handles[u][s] = [fd |-> fd, owned |-> TRUE]
                             /\ table[fd] = Open(FileOf(u, s), TRUE)
    BY <1>1, <1>4 DEF HandlesInv
  <2>2. handles[u][s].fd = fd /\ handles[u][s].owned BY <2>1
  <2>3. table'[fd] = table[fd] BY <2>2
  <2> QED BY <1>4, <2>1, <2>3
<1> QED BY <1>3, <1>4

(* A spawner is as it was while its variables and descriptors are. *)
LEMMA OthersKeep ==
  ASSUME ExecInv, NEW u \in Spawners,
         pcExec'[u] = pcExec[u], context'[u] = context[u],
         handles'[u] = handles[u], child'[u] = child[u],
         \A s \in DOMAIN handles[u] : handles[u][s].owned =>
           table'[handles[u][s].fd] = table[handles[u][s].fd]
  PROVE  SpawnerInv(u)'
<1>1. SpawnerInv(u) BY DEF ExecInv
<1>2. \A s \in Streams : FileOf(u, s)' = FileOf(u, s) /\ Wanted(u, s)' = Wanted(u, s)
  BY SameCall
<1>3. ContextInv(u)' /\ StreamsInv(u)' BY <1>1 DEF SpawnerInv, ContextInv, StreamsInv
<1>4. HandlesInv(u)' BY HandlesKept
<1>5. \A fds : Inherits(u, fds)' <=> Inherits(u, fds) BY <1>2 DEF Inherits
<1>6. \A fds : Starts(u, fds)' <=> Starts(u, fds) BY <1>2 DEF Starts
<1>7. ChildInv(u)' BY <1>1, <1>5, <1>6 DEF SpawnerInv, ChildInv
<1> QED BY <1>3, <1>4, <1>7 DEF SpawnerInv

(* A spawner that goes on, and the others, which stay. *)
LEMMA Goes ==
  ASSUME ExecInv, NEW t \in Spawners, NEW from \in ProgramCounters,
         NEW to \in ProgramCounters, Step(t, from, to)
  PROVE  /\ pcExec' \in [Spawners -> ProgramCounters]
         /\ pcExec[t] = from /\ pcExec'[t] = to
         /\ \A u \in Spawners \ {t} : pcExec'[u] = pcExec[u]
BY DEF ExecInv, ExecTyped, Step

(* A step of t that leaves the descriptors and the handles alone. *)
LEMMA DescriptorsKept ==
  ASSUME ExecInv, NEW t \in Spawners, UNCHANGED <<table, handles>>,
         pcExec[t] # "data",
         \A u \in Spawners \ {t} : pcExec'[u] = pcExec[u]
  PROVE  TableInv' /\ OwnersInv'
<1>1. OwnersInv' BY DEF ExecInv, OwnersInv
<1>2. \A u \in Spawners, fd \in Opened : Owns(u, fd) => Owns(u, fd)'
  BY DEF Owns
<1>3. \A u \in Spawners, fd \in Opened : InData(u, fd) => InData(u, fd)'
  BY DEF InData
<1>4. TableInv' BY <1>2, <1>3 DEF ExecInv, TableInv
<1> QED BY <1>1, <1>4

(* Temporary files stay those of calls that are made. *)
LEMMA TempsKept ==
  ASSUME ExecInv, NEW t \in Spawners, UNCHANGED temps, pcExec'[t] # "none",
         \A u \in Spawners \ {t} : pcExec'[u] = pcExec[u]
  PROVE  TempsInv'
BY DEF ExecInv, TempsInv

(* A step of t only counts for t, unless it takes another's descriptor. *)
LEMMA ExecInvKept ==
  ASSUME ExecInv, NEW t \in Spawners,
         \A u \in Spawners \ {t} :
           /\ pcExec'[u] = pcExec[u] /\ context'[u] = context[u]
           /\ handles'[u] = handles[u] /\ child'[u] = child[u]
           /\ \A s \in DOMAIN handles[u] : handles[u][s].owned =>
                table'[handles[u][s].fd] = table[handles[u][s].fd],
         ExecTyped', TableInv', OwnersInv', TempsInv', SpawnerInv(t)'
  PROVE  ExecInv'
<1>1. ASSUME NEW u \in Spawners \ {t} PROVE SpawnerInv(u)' BY <1>1, OthersKeep
<1> QED BY <1>1 DEF ExecInv

(* A step of t that changes neither descriptors nor handles nor files. *)
LEMMA QuietStep ==
  ASSUME ExecInv, NEW t \in Spawners, NEW from \in ProgramCounters \ {"data"},
         NEW to \in ProgramCounters \ {"none"}, Step(t, from, to),
         UNCHANGED <<table, handles, temps>>,
         DOMAIN context' = Spawners, DOMAIN child' = Spawners,
         \A u \in Spawners \ {t} : context'[u] = context[u] /\ child'[u] = child[u],
         SpawnerInv(t)'
  PROVE  ExecInv'
<1>1. /\ pcExec' \in [Spawners -> ProgramCounters]
      /\ pcExec[t] = from /\ pcExec'[t] = to
      /\ \A u \in Spawners \ {t} : pcExec'[u] = pcExec[u]
  BY Goes
<1>2. TableInv' /\ OwnersInv' BY <1>1, DescriptorsKept
<1>3. TempsInv' BY <1>1, TempsKept
<1>4. ExecTyped' BY <1>1 DEF ExecInv, ExecTyped
<1> QED BY <1>1, <1>2, <1>3, <1>4, ExecInvKept

----------------------------------------------------------------------------
(* The call *)

(* Where a call goes from one stream to the next. *)
LEMMA CountersAre ==
  /\ {"none", "build", "find", "data", "fork", "wait", "image", "throw"}
       \subseteq ProgramCounters
  /\ Streams \subseteq ProgramCounters
  /\ \A s \in Streams : s \notin {"none", "build", "find", "data", "fork", "wait",
                                  "image", "throw"}
  /\ \A s \in Streams : After[s] \in ProgramCounters \ {"none", "wait", "image"}
  /\ After["stdin"] = "stdout" /\ After["stdout"] = "stderr" /\ After["stderr"] = "fork"
  /\ \A s \in Streams : s = "stdin" \/ s = "stdout" \/ s = "stderr"
BY DEF ProgramCounters, Streams, After

(* t has stopped before its child, or because of it. *)
LEMMA StopStep ==
  ASSUME ExecInv, NEW t \in Spawners,
         NEW from \in ProgramCounters \ {"none", "data"}, Step(t, from, "throw"),
         UNCHANGED <<table, temps, context, handles, child>>
  PROVE  ExecInv'
<1>1. "throw" \in ProgramCounters \ {"none"} BY CountersAre
<1>2. pcExec[t] = from /\ pcExec'[t] = "throw" BY <1>1, Goes
<1>3. SpawnerInv(t)'
  <2>1. SpawnerInv(t) BY DEF ExecInv
  <2>2. ContextInv(t)' /\ StreamsInv(t)' /\ ChildInv(t)'
    <3>1. "throw" \notin Streams BY CountersAre
    <3> QED BY <1>2, <2>1, <3>1 DEF SpawnerInv, ContextInv, StreamsInv, ChildInv
  <2>3. HandlesInv(t)' BY HandlesKept
  <2> QED BY <2>2, <2>3 DEF SpawnerInv
<1> QED BY <1>1, <1>3, QuietStep DEF ExecInv, ExecTyped

(* A built context is a context. *)
LEMMA BuiltIs ==
  ASSUME NEW ctx \in ContextType
  PROVE  Built(ctx) \in ContextType
<1> DEFINE executable == IF ctx.executable = "none" THEN "name" ELSE ctx.executable
           asked == IF ctx.use_path = -1 THEN executable \in {"name", "empty"}
                    ELSE ctx.use_path = 1
           up == asked /\ executable # "absolute"
<1>1. Built(ctx) = [ctx EXCEPT !.arguments = IF @ = 0 THEN 1 ELSE @,
                               !.use_path = IF up THEN 1 ELSE 0,
                               !.executable = IF up THEN executable ELSE "absolute"]
  BY Zenon DEF Built
<1>2. executable \in {"name", "relative", "absolute", "empty"} BY ContextFields
<1> HIDE DEF up, executable
<1>3. (IF up THEN 1 ELSE 0) \in {-1, 0, 1}
      /\ (IF up THEN executable ELSE "absolute") \in {"none", "name", "relative", "absolute", "empty"}
  BY <1>2
<1>4. (IF ctx.arguments = 0 THEN 1 ELSE ctx.arguments) \in Nat BY ContextFields
<1> QED BY <1>1, <1>3, <1>4 DEF ContextType

(* One lemma per action of a call: building the context, *)
LEMMA BuildKeeps ==
  ASSUME ExecInv, NEW t \in Spawners, Build(t)
  PROVE  ExecInv'
<1>1. CASE ~Buildable(context[t])
  <2>1. "build" \in ProgramCounters \ {"none", "data"} BY CountersAre
  <2> QED BY <1>1, <2>1, StopStep DEF Build
<1>2. CASE Buildable(context[t])
  <2>1. /\ Step(t, "build", "find")
        /\ context' = [context EXCEPT ![t] = Built(@)]
        /\ UNCHANGED <<table, temps, handles, child>>
    BY <1>2 DEF Build
  <2>2. "build" \in ProgramCounters \ {"data"} /\ "find" \in ProgramCounters \ {"none"}
    BY CountersAre
  <2>3. pcExec[t] = "build" /\ pcExec'[t] = "find" BY <2>1, <2>2, Goes
  <2>4. /\ DOMAIN context' = Spawners /\ DOMAIN child' = Spawners
        /\ context'[t] = Built(context[t])
        /\ \A u \in Spawners \ {t} : context'[u] = context[u] /\ child'[u] = child[u]
    BY <2>1 DEF ExecInv, ExecTyped
  <2>5. SpawnerInv(t)'
    <3>1. SpawnerInv(t) BY DEF ExecInv
    <3>2. DOMAIN handles[t] = {} BY <2>3, <3>1 DEF SpawnerInv, StreamsInv
    <3>3. ContextInv(t)' BY <2>3, <2>4, <3>1, BuiltIs DEF SpawnerInv, ContextInv
    <3>4. StreamsInv(t)' BY <2>1, <2>3, <3>2, CountersAre DEF StreamsInv
    <3>5. HandlesInv(t)' BY <2>1, <3>2 DEF HandlesInv
    <3>6. ChildInv(t)' BY <2>3 DEF ChildInv
    <3> QED BY <3>3, <3>4, <3>5, <3>6 DEF SpawnerInv
  <2> QED BY <2>1, <2>2, <2>4, <2>5, QuietStep
<1> QED BY <1>1, <1>2

(* finding the executable, *)
LEMMA FindKeeps ==
  ASSUME ExecInv, NEW t \in Spawners, FindExecutable(t)
  PROVE  ExecInv'
<1>1. UNCHANGED <<table, temps, context, handles, child>> BY DEF FindExecutable
<1>2. "find" \in ProgramCounters \ {"none", "data"} /\ "stdin" \in ProgramCounters \ {"none"}
  BY CountersAre DEF Streams
<1>3. CASE Step(t, "find", "throw") BY <1>1, <1>2, <1>3, StopStep
<1>4. CASE Step(t, "find", "stdin")
  <2>1. pcExec[t] = "find" /\ pcExec'[t] = "stdin" BY <1>2, <1>4, Goes
  <2>2. SpawnerInv(t)'
    <3>1. SpawnerInv(t) BY DEF ExecInv
    <3>2. ContextInv(t)' /\ StreamsInv(t)' /\ ChildInv(t)'
      BY <1>1, <2>1, <3>1 DEF SpawnerInv, ContextInv, StreamsInv, ChildInv
    <3>3. HandlesInv(t)' BY <1>1, HandlesKept
    <3> QED BY <3>2, <3>3 DEF SpawnerInv
  <2> QED BY <1>1, <1>2, <1>4, <2>2, QuietStep DEF ExecInv, ExecTyped
<1> QED BY <1>3, <1>4 DEF FindExecutable

(* A new call begins, with nothing of the one before. *)
LEMMA ExecuteKeeps ==
  ASSUME ExecInv, NEW t \in Spawners, NEW ctx \in Contexts, Execute(t, ctx)
  PROVE  ExecInv'
<1>1. "none" \in ProgramCounters /\ "build" \in ProgramCounters BY CountersAre
<1>2. /\ pcExec' \in [Spawners -> ProgramCounters]
      /\ pcExec[t] = "none" /\ pcExec'[t] = "build"
      /\ \A u \in Spawners \ {t} : pcExec'[u] = pcExec[u]
  <2>1. Step(t, "none", "build") BY DEF Execute
  <2> QED BY <1>1, <2>1, Goes
<1>3. /\ DOMAIN context' = Spawners /\ DOMAIN handles' = Spawners
      /\ DOMAIN child' = Spawners
      /\ handles'[t] = NoHandles /\ child'[t] = NoFile /\ table' = table
      /\ \A u \in Spawners \ {t} : /\ context'[u] = context[u]
                                   /\ handles'[u] = handles[u]
                                   /\ child'[u] = child[u]
  BY DEF Execute, ExecInv, ExecTyped
<1>4. context'[t] = IF ctx.with_output
                      THEN [ctx EXCEPT !.stdout = "path", !.stderr = "redirect"] ELSE ctx
  BY DEF Execute, ExecInv, ExecTyped
<1>5. context'[t] \in ContextType
  <2>1. ctx \in ContextType BY ExecutorAssumption
  <2>2. [ctx EXCEPT !.stdout = "path", !.stderr = "redirect"] \in ContextType
    BY <2>1 DEF ContextType
  <2> QED BY <1>4, <2>1, <2>2
<1>6. DOMAIN NoHandles = {} BY DEF NoHandles
<1>7. SpawnerInv(t)'
  <2>1. ContextInv(t)' BY <1>5 DEF ContextInv
  <2>2. StreamsInv(t)' BY <1>2, <1>3, <1>6, CountersAre DEF StreamsInv
  <2>3. HandlesInv(t)' BY <1>3, <1>6 DEF HandlesInv
  <2>4. ChildInv(t)' BY <1>2 DEF ChildInv
  <2> QED BY <2>1, <2>2, <2>3, <2>4 DEF SpawnerInv
<1>8. DOMAIN handles[t] = {} BY <1>2 DEF ExecInv, SpawnerInv, StreamsInv
<1>9. \A u \in Spawners : DOMAIN handles'[u] = DOMAIN handles[u]
        /\ \A s \in DOMAIN handles[u] : handles'[u][s] = handles[u][s]
  BY <1>3, <1>6, <1>8
<1>10. TableInv' /\ OwnersInv'
  <2>1. OwnersInv' BY <1>9 DEF ExecInv, OwnersInv
  <2>2. \A u \in Spawners, fd \in Opened : Owns(u, fd) => Owns(u, fd)' BY <1>9 DEF Owns
  <2>3. \A u \in Spawners, fd \in Opened : InData(u, fd) => InData(u, fd)'
    BY <1>2, <1>3 DEF InData
  <2> QED BY <1>3, <2>1, <2>2, <2>3 DEF ExecInv, TableInv
<1>11. TempsInv'
  <2>1. temps' \subseteq temps \cup {<<"output", t>>} BY DEF Execute
  <2>2. \A u \in Spawners, k \in {"data", "output"} :
          <<k, u>> \in temps' /\ u # t => <<k, u>> \in temps
    BY <2>1
  <2>3. temps' \subseteq {<<k, u>> : k \in {"data", "output"}, u \in Spawners}
    BY <2>1 DEF ExecInv, TempsInv
  <2>4. \A u \in Spawners : <<"data", u>> \in temps' \/ <<"output", u>> \in temps'
          => pcExec'[u] # "none"
    BY <1>2, <2>2 DEF ExecInv, TempsInv
  <2> QED BY <2>3, <2>4 DEF TempsInv
<1>12. ExecTyped' BY <1>2, <1>3 DEF ExecTyped
<1> QED BY <1>2, <1>3, <1>7, <1>10, <1>11, <1>12, ExecInvKept

----------------------------------------------------------------------------
(* The streams *)

(* The streams opened before s are those that t has handles for. *)
LEMMA StreamTurn ==
  ASSUME ExecInv, NEW t \in Spawners, NEW s \in Streams, pcExec[t] = s
  PROVE  s \notin DOMAIN handles[t] /\ context[t] \in ContextType
<1>1. StreamsInv(t) /\ ContextInv(t) BY DEF ExecInv, SpawnerInv
<1> QED BY <1>1, CountersAre DEF StreamsInv, ContextInv

(* t has a handle for the stream it was at. *)
LEMMA StreamGiven ==
  ASSUME ExecInv, NEW t \in Spawners, NEW s \in Streams,
         Step(t, s, After[s]), NEW fd, NEW owned \in BOOLEAN, Give(t, s, fd, owned),
         context' = context, child' = child,
         \A r \in DOMAIN handles[t] : handles[t][r].owned =>
           table'[handles[t][r].fd] = table[handles[t][r].fd],
         IF Standard(t, s) >= 0 THEN fd = Standard(t, s) /\ ~owned
         ELSE owned /\ fd \in Opened /\ table'[fd] = Open(FileOf(t, s), TRUE)
  PROVE  /\ SpawnerInv(t)' /\ ExecTyped'
         /\ pcExec[t] = s /\ pcExec'[t] = After[s]
         /\ \A u \in Spawners \ {t} : pcExec'[u] = pcExec[u] /\ handles'[u] = handles[u]
         /\ DOMAIN handles'[t] = DOMAIN handles[t] \cup {s}
         /\ handles'[t][s] = [fd |-> fd, owned |-> owned]
         /\ \A r \in DOMAIN handles[t] : handles'[t][r] = handles[t][r]
<1>1. s \in ProgramCounters /\ After[s] \in ProgramCounters BY CountersAre
<1>2. /\ pcExec' \in [Spawners -> ProgramCounters]
      /\ pcExec[t] = s /\ pcExec'[t] = After[s]
      /\ \A u \in Spawners \ {t} : pcExec'[u] = pcExec[u]
  BY <1>1, Goes
<1>3. s \notin DOMAIN handles[t] /\ context[t] \in ContextType BY <1>2, StreamTurn
<1>4. /\ DOMAIN handles' = Spawners
      /\ \A u \in Spawners \ {t} : handles'[u] = handles[u]
      /\ handles'[t] = [x \in DOMAIN handles[t] \cup {s} |->
                          IF x = s THEN [fd |-> fd, owned |-> owned] ELSE handles[t][x]]
  BY DEF Give, ExecInv, ExecTyped
<1>5. /\ DOMAIN handles'[t] = DOMAIN handles[t] \cup {s}
      /\ handles'[t][s] = [fd |-> fd, owned |-> owned]
      /\ \A r \in DOMAIN handles[t] : handles'[t][r] = handles[t][r]
  BY <1>3, <1>4
<1>6. ExecTyped' BY <1>2, <1>4 DEF ExecInv, ExecTyped
<1>7. StreamsInv(t) /\ HandlesInv(t) BY DEF ExecInv, SpawnerInv
<1>8. StreamsInv(t)'
  <2>1. DOMAIN handles'[t] \subseteq Streams BY <1>5, <1>7 DEF StreamsInv
  <2>2. CASE s = "stdin"
    <3>1. DOMAIN handles[t] = {} /\ pcExec'[t] = "stdout"
      BY <1>2, <1>7, <2>2, CountersAre DEF StreamsInv
    <3> QED BY <1>5, <2>1, <2>2, <3>1 DEF StreamsInv
  <2>3. CASE s = "stdout"
    <3>1. DOMAIN handles[t] = {"stdin"} /\ pcExec'[t] = "stderr"
      BY <1>2, <1>7, <2>3, CountersAre DEF StreamsInv
    <3> QED BY <1>5, <2>1, <2>3, <3>1 DEF StreamsInv
  <2>4. CASE s = "stderr"
    <3>1. DOMAIN handles[t] = {"stdin", "stdout"} /\ pcExec'[t] = "fork"
      BY <1>2, <1>7, <2>4, CountersAre DEF StreamsInv
    <3>2. DOMAIN handles'[t] = Streams BY <1>5, <2>4, <3>1 DEF Streams
    <3> QED BY <2>1, <3>1, <3>2 DEF StreamsInv
  <2> QED BY <2>2, <2>3, <2>4, CountersAre
<1>9. HandlesInv(t)'
  <2>0. DOMAIN handles[t] \subseteq Streams BY <1>7 DEF StreamsInv
  <2>1. \A r \in Streams : Standard(t, r)' = Standard(t, r) /\ FileOf(t, r)' = FileOf(t, r)
    BY SameCall
  <2>2. \A r \in DOMAIN handles[t] \cup {s} :
          Standard(t, r)' = Standard(t, r) /\ FileOf(t, r)' = FileOf(t, r)
    BY <2>0, <2>1
  <2> SUFFICES ASSUME NEW r \in DOMAIN handles[t] \cup {s}
               PROVE  IF Standard(t, r) >= 0
                        THEN handles'[t][r] = [fd |-> Standard(t, r), owned |-> FALSE]
                        ELSE \E f \in Opened :
                               /\ handles'[t][r] = [fd |-> f, owned |-> TRUE]
                               /\ table'[f] = Open(FileOf(t, r), TRUE)
    BY <1>5, <2>2, Zenon DEF HandlesInv
  <2>3. CASE r = s
    <3>1. CASE Standard(t, s) >= 0
      <4>1. owned = FALSE /\ fd = Standard(t, s) BY <3>1
      <4> QED BY <1>5, <2>3, <3>1, <4>1
    <3>2. CASE ~(Standard(t, s) >= 0)
      <4>1. owned = TRUE /\ fd \in Opened /\ table'[fd] = Open(FileOf(t, s), TRUE)
        BY <3>2
      <4> QED BY <1>5, <2>3, <3>2, <4>1
    <3> QED BY <3>1, <3>2
  <2>4. CASE r \in DOMAIN handles[t]
    <3>1. handles'[t][r] = handles[t][r] BY <1>5, <2>4
    <3>2. CASE Standard(t, r) >= 0 BY <1>7, <2>4, <3>1, <3>2 DEF HandlesInv
    <3>3. CASE ~(Standard(t, r) >= 0)
      <4>1. PICK f \in Opened : /\ handles[t][r] = [fd |-> f, owned |-> TRUE]
                                /\ table[f] = Open(FileOf(t, r), TRUE)
        BY <1>7, <2>4, <3>3 DEF HandlesInv
      <4>2. handles[t][r].fd = f /\ handles[t][r].owned BY <4>1
      <4>3. table'[f] = table[f] BY <2>4, <4>2
      <4> QED BY <3>1, <3>3, <4>1, <4>3
    <3> QED BY <3>2, <3>3
  <2> QED BY <2>3, <2>4
<1>10. ContextInv(t)' BY <1>3 DEF ContextInv
<1>11. ChildInv(t)'
  <2>1. pcExec'[t] # "wait" /\ pcExec'[t] # "image" BY <1>2, CountersAre
  <2> QED BY <2>1 DEF ChildInv
<1>12. SpawnerInv(t)' BY <1>8, <1>9, <1>10, <1>11 DEF SpawnerInv
<1> QED BY <1>2, <1>4, <1>5, <1>6, <1>12

(* a stream that stays the parent's, *)
LEMMA InheritKeeps ==
  ASSUME ExecInv, NEW t \in Spawners, NEW s \in Streams, Inherit(t, s)
  PROVE  ExecInv'
<1>1. /\ Step(t, s, After[s]) /\ Give(t, s, Standard(t, s), FALSE)
      /\ Standard(t, s) >= 0
      /\ table' = table /\ temps' = temps /\ context' = context /\ child' = child
  BY DEF Inherit
<1>2. /\ SpawnerInv(t)' /\ ExecTyped'
      /\ pcExec[t] = s /\ pcExec'[t] = After[s]
      /\ \A u \in Spawners \ {t} : pcExec'[u] = pcExec[u] /\ handles'[u] = handles[u]
      /\ DOMAIN handles'[t] = DOMAIN handles[t] \cup {s}
      /\ handles'[t][s] = [fd |-> Standard(t, s), owned |-> FALSE]
      /\ \A r \in DOMAIN handles[t] : handles'[t][r] = handles[t][r]
  <2>1. \A r \in DOMAIN handles[t] : handles[t][r].owned =>
          table'[handles[t][r].fd] = table[handles[t][r].fd]
    BY <1>1
  <2> QED BY <1>1, <2>1, StreamGiven
<1>3. \A u \in Spawners : \A r \in DOMAIN handles'[u] : handles'[u][r].owned =>
        r \in DOMAIN handles[u] /\ handles'[u][r] = handles[u][r]
  <2>1. ~handles'[t][s].owned BY <1>2
  <2> QED BY <1>2, <2>1
<1>4. OwnersInv'
  <2> SUFFICES ASSUME NEW u \in Spawners, NEW v \in Spawners,
                      NEW r \in DOMAIN handles'[u], NEW q \in DOMAIN handles'[v],
                      handles'[u][r].owned, handles'[v][q].owned,
                      handles'[u][r].fd = handles'[v][q].fd
               PROVE  u = v /\ r = q
    BY DEF OwnersInv
  <2> QED BY <1>3 DEF ExecInv, OwnersInv
<1>5. TableInv'
  <2>1. \A u \in Spawners, fd \in Opened : Owns(u, fd) => Owns(u, fd)'
    BY <1>2 DEF Owns
  <2>2. \A u \in Spawners, fd \in Opened : InData(u, fd) => InData(u, fd)'
    <3>1. pcExec[t] # "data" BY <1>2, CountersAre
    <3> QED BY <1>1, <1>2, <3>1 DEF InData
  <2> QED BY <1>1, <2>1, <2>2 DEF ExecInv, TableInv
<1>6. TempsInv'
  <2>1. pcExec'[t] # "none" BY <1>2, CountersAre
  <2> QED BY <1>1, <1>2, <2>1, TempsKept
<1> QED BY <1>1, <1>2, <1>4, <1>5, <1>6, ExecInvKept

(* A descriptor that is opened was of nobody. *)
LEMMA FreeIs ==
  ASSUME ExecInv, NEW fd \in Fds, Free(fd)
  PROVE  /\ fd \in Opened /\ table[fd] = NoFile
         /\ \A u \in Spawners : \A r \in DOMAIN handles[u] :
              handles[u][r].owned => handles[u][r].fd # fd
<1>1. table[fd] = NoFile BY DEF Free
<1>2. \A g \in 0..2 : table[g] # NoFile
  <2>1. \A s \in Streams : AtStart[Number[s]] # NoFile BY StartIs, OpenIs
  <2>2. \A g \in 0..2 : \E s \in Streams : Number[s] = g
    <3>1. "stdin" \in Streams /\ "stdout" \in Streams /\ "stderr" \in Streams
      BY DEF Streams
    <3> QED BY <3>1, Numbered, FdsAre
  <2> QED BY <2>1, <2>2 DEF ExecInv, TableInv
<1>3. fd \in Opened BY <1>1, <1>2, FdsAre
<1>4. \A u \in Spawners : \A r \in DOMAIN handles[u] :
        handles[u][r].owned => table[handles[u][r].fd] # NoFile
  BY OwnedIs
<1> QED BY <1>1, <1>3, <1>4

(* one that is opened, *)
LEMMA OpenKeeps ==
  ASSUME ExecInv, NEW t \in Spawners, NEW s \in Streams, OpenFile(t, s)
  PROVE  ExecInv'
<1>1. ~(Standard(t, s) >= 0)
  <2>1. pcExec[t] = s BY DEF OpenFile, Step
  <2>2. context[t] \in ContextType BY <2>1, StreamTurn
  <2>3. Standard(t, s) \in {-1, 0, 1, 2} BY <2>2, StandardIs, CountersAre
  <2>4. Standard(t, s) < 0 BY DEF OpenFile
  <2> QED BY <2>3, <2>4
<1>2. temps' = temps /\ context' = context /\ child' = child BY DEF OpenFile
<1>3. CASE Step(t, s, "throw") /\ UNCHANGED <<table, handles>>
  <2>1. s \in ProgramCounters \ {"none", "data"} BY CountersAre
  <2> QED BY <1>2, <1>3, <2>1, StopStep
<1>4. ASSUME NEW fd \in Fds, Step(t, s, After[s]),
             SysOpen(fd, FileOf(t, s)), Give(t, s, fd, TRUE)
      PROVE  ExecInv'
  <2>1. /\ fd \in Opened /\ table[fd] = NoFile
        /\ \A u \in Spawners : \A r \in DOMAIN handles[u] :
             handles[u][r].owned => handles[u][r].fd # fd
    BY <1>4, FreeIs DEF SysOpen
  <2>2. table \in [Fds -> OpenFiles \cup {NoFile}] BY DEF ExecInv, TableInv
  <2>3. /\ table' \in [Fds -> OpenFiles \cup {NoFile}]
        /\ table'[fd] = Open(FileOf(t, s), TRUE)
        /\ \A g \in Fds \ {fd} : table'[g] = table[g]
    <3>1. Open(FileOf(t, s), TRUE) \in OpenFiles BY FileOfIs, OpenIs
    <3>2. table' = [table EXCEPT ![fd] = Open(FileOf(t, s), TRUE)]
      BY <1>4 DEF SysOpen
    <3> QED BY <2>2, <3>1, <3>2
  <2>4. \A u \in Spawners : \A r \in DOMAIN handles[u] : handles[u][r].owned =>
          table'[handles[u][r].fd] = table[handles[u][r].fd]
    <3>1. \A u \in Spawners : \A r \in DOMAIN handles[u] :
            handles[u][r].owned => handles[u][r].fd \in Fds
      BY OwnedIs, FdsAre
    <3> QED BY <2>1, <2>3, <3>1
  <2>5. /\ SpawnerInv(t)' /\ ExecTyped'
        /\ pcExec[t] = s /\ pcExec'[t] = After[s]
        /\ \A u \in Spawners \ {t} : pcExec'[u] = pcExec[u] /\ handles'[u] = handles[u]
        /\ DOMAIN handles'[t] = DOMAIN handles[t] \cup {s}
        /\ handles'[t][s] = [fd |-> fd, owned |-> TRUE]
        /\ \A r \in DOMAIN handles[t] : handles'[t][r] = handles[t][r]
    <3>1. IF Standard(t, s) >= 0 THEN fd = Standard(t, s) /\ ~TRUE
          ELSE TRUE /\ fd \in Opened /\ table'[fd] = Open(FileOf(t, s), TRUE)
      BY <1>1, <2>1, <2>3
    <3>2. \A r \in DOMAIN handles[t] : handles[t][r].owned =>
            table'[handles[t][r].fd] = table[handles[t][r].fd]
      BY <2>4
    <3> HIDE DEF ExecInv
    <3> QED BY <1>2, <1>4, <3>1, <3>2, StreamGiven
  <2>6. \A u \in Spawners : \A r \in DOMAIN handles'[u] :
          \/ u = t /\ r = s
          \/ r \in DOMAIN handles[u] /\ handles'[u][r] = handles[u][r]
    BY <2>5
  <2>7. OwnersInv'
    <3> SUFFICES ASSUME NEW u \in Spawners, NEW v \in Spawners,
                        NEW r \in DOMAIN handles'[u], NEW q \in DOMAIN handles'[v],
                        handles'[u][r].owned, handles'[v][q].owned,
                        handles'[u][r].fd = handles'[v][q].fd
                 PROVE  u = v /\ r = q
      BY DEF OwnersInv
    <3>1. handles'[t][s].fd = fd BY <2>5
    <3>2. CASE u = t /\ r = s BY <2>1, <2>6, <3>1, <3>2
    <3>3. CASE v = t /\ q = s BY <2>1, <2>6, <3>1, <3>3
    <3>4. CASE ~(u = t /\ r = s) /\ ~(v = t /\ q = s)
      BY <2>6, <3>4 DEF ExecInv, OwnersInv
    <3> QED BY <3>2, <3>3, <3>4
  <2>8. TableInv'
    <3>1. \A u \in Spawners, g \in Opened : Owns(u, g) => Owns(u, g)'
      BY <2>5 DEF Owns
    <3>2. \A u \in Spawners, g \in Opened \ {fd} : InData(u, g) => InData(u, g)'
      <4>1. pcExec[t] # "data" BY <2>5, CountersAre
      <4> QED BY <2>3, <2>5, <4>1, FdsAre DEF InData
    <3>3. Owns(t, fd)' BY <2>5 DEF Owns
    <3>4. table'[fd].cloexec BY <2>3, FileOfIs, OpenIs
    <3>5. \A g \in 0..2 : table'[g] = AtStart[g]
      BY <2>1, <2>3, FdsAre DEF ExecInv, TableInv
    <3>6. \A g \in Opened \ {fd} : table'[g] # NoFile =>
            \E u \in Spawners : IF table'[g].cloexec THEN Owns(u, g)' ELSE InData(u, g)'
      <4> SUFFICES ASSUME NEW g \in Opened \ {fd}, table'[g] # NoFile
                   PROVE  \E u \in Spawners :
                            IF table'[g].cloexec THEN Owns(u, g)' ELSE InData(u, g)'
        OBVIOUS
      <4>1. table'[g] = table[g] BY <2>3, FdsAre
      <4>2. PICK u \in Spawners : IF table[g].cloexec THEN Owns(u, g) ELSE InData(u, g)
        BY <4>1 DEF ExecInv, TableInv
      <4> QED BY <3>1, <3>2, <4>1, <4>2
    <3> QED BY <2>3, <3>3, <3>4, <3>5, <3>6 DEF TableInv
  <2>9. TempsInv'
    <3>1. pcExec'[t] # "none" BY <2>5, CountersAre
    <3> QED BY <1>2, <2>5, <3>1, TempsKept
  <2> QED BY <1>2, <2>4, <2>5, <2>7, <2>8, <2>9, ExecInvKept
<1> QED BY <1>3, <1>4 DEF OpenFile

(* While t writes the data of its input, a program may inherit the file. *)
LEMMA WriteDataKeeps ==
  ASSUME ExecInv, NEW t \in Spawners, WriteData(t)
  PROVE  ExecInv'
<1>1. "stdin" \in ProgramCounters /\ "data" \in ProgramCounters
  BY CountersAre DEF Streams
<1>2. /\ pcExec' \in [Spawners -> ProgramCounters]
      /\ pcExec[t] = "stdin" /\ pcExec'[t] = "data"
      /\ \A u \in Spawners \ {t} : pcExec'[u] = pcExec[u]
  <2>1. Step(t, "stdin", "data") BY DEF WriteData
  <2> QED BY <1>1, <2>1, Goes
<1>3. context' = context /\ child' = child /\ handles' = handles BY DEF WriteData
<1>4. PICK fd \in Fds : Free(fd) /\ table' = [table EXCEPT ![fd] = Open(<<"data", t>>, FALSE)]
  BY DEF WriteData
<1>5. /\ fd \in Opened /\ table[fd] = NoFile
      /\ \A u \in Spawners : \A r \in DOMAIN handles[u] :
           handles[u][r].owned => handles[u][r].fd # fd
  BY <1>4, FreeIs
<1>6. table \in [Fds -> OpenFiles \cup {NoFile}] BY DEF ExecInv, TableInv
<1>7. <<"data", t>> \in Files BY DEF Files
<1>8. /\ table' \in [Fds -> OpenFiles \cup {NoFile}]
      /\ table'[fd] = Open(<<"data", t>>, FALSE)
      /\ \A g \in Fds \ {fd} : table'[g] = table[g]
  <2>1. Open(<<"data", t>>, FALSE) \in OpenFiles BY <1>7, OpenIs
  <2> QED BY <1>4, <1>6, <2>1
<1>9. \A u \in Spawners : \A r \in DOMAIN handles[u] : handles[u][r].owned =>
        table'[handles[u][r].fd] = table[handles[u][r].fd]
  <2>1. \A u \in Spawners : \A r \in DOMAIN handles[u] :
          handles[u][r].owned => handles[u][r].fd \in Fds
    BY OwnedIs, FdsAre
  <2> QED BY <1>5, <1>8, <2>1
<1>10. SpawnerInv(t)'
  <2>1. SpawnerInv(t) BY DEF ExecInv
  <2>2. ContextInv(t)' /\ StreamsInv(t)' /\ ChildInv(t)'
    BY <1>2, <1>3, <2>1, CountersAre DEF SpawnerInv, ContextInv, StreamsInv, ChildInv
  <2>3. HandlesInv(t)' BY <1>3, <1>9, HandlesKept
  <2> QED BY <2>2, <2>3 DEF SpawnerInv
<1>11. OwnersInv' BY <1>3 DEF ExecInv, OwnersInv
<1>12. TableInv'
  <2>1. \A u \in Spawners, g \in Opened : Owns(u, g) => Owns(u, g)' BY <1>3 DEF Owns
  <2>2. \A u \in Spawners, g \in Opened \ {fd} : InData(u, g) => InData(u, g)'
    BY <1>2, <1>8, FdsAre DEF InData
  <2>3. table'[fd].file = <<"data", t>> /\ ~table'[fd].cloexec BY <1>7, <1>8, OpenIs
  <2>4. InData(t, fd)' BY <1>2, <2>3 DEF InData
  <2>5. \A g \in 0..2 : table'[g] = AtStart[g]
    BY <1>5, <1>8, FdsAre DEF ExecInv, TableInv
  <2>6. \A g \in Opened \ {fd} : table'[g] # NoFile =>
          \E u \in Spawners : IF table'[g].cloexec THEN Owns(u, g)' ELSE InData(u, g)'
    <3> SUFFICES ASSUME NEW g \in Opened \ {fd}, table'[g] # NoFile
                 PROVE  \E u \in Spawners :
                          IF table'[g].cloexec THEN Owns(u, g)' ELSE InData(u, g)'
      OBVIOUS
    <3>1. table'[g] = table[g] BY <1>8, FdsAre
    <3>2. PICK u \in Spawners : IF table[g].cloexec THEN Owns(u, g) ELSE InData(u, g)
      BY <3>1 DEF ExecInv, TableInv
    <3> QED BY <2>1, <2>2, <3>1, <3>2
  <2> QED BY <1>8, <2>3, <2>4, <2>5, <2>6 DEF TableInv
<1>13. TempsInv'
  <2>1. temps' = temps \cup {<<"data", t>>} BY DEF WriteData
  <2>2. \A u \in Spawners, k \in {"data", "output"} :
          <<k, u>> \in temps' /\ u # t => <<k, u>> \in temps
    BY <2>1
  <2>3. temps' \subseteq {<<k, u>> : k \in {"data", "output"}, u \in Spawners}
    BY <2>1 DEF ExecInv, TempsInv
  <2>4. \A u \in Spawners : <<"data", u>> \in temps' \/ <<"output", u>> \in temps'
          => pcExec'[u] # "none"
    BY <1>2, <2>2 DEF ExecInv, TempsInv
  <2> QED BY <2>3, <2>4 DEF TempsInv
<1>14. ExecTyped' BY <1>2, <1>3 DEF ExecInv, ExecTyped
<1> QED BY <1>2, <1>3, <1>9, <1>10, <1>11, <1>12, <1>13, <1>14, ExecInvKept

(* closing what data was written to, *)
LEMMA CloseDataKeeps ==
  ASSUME ExecInv, NEW t \in Spawners, CloseData(t)
  PROVE  ExecInv'
<1>1. "stdin" \in ProgramCounters /\ "data" \in ProgramCounters
  BY CountersAre DEF Streams
<1>2. /\ pcExec' \in [Spawners -> ProgramCounters]
      /\ pcExec[t] = "data" /\ pcExec'[t] = "stdin"
      /\ \A u \in Spawners \ {t} : pcExec'[u] = pcExec[u]
  <2>1. Step(t, "data", "stdin") BY DEF CloseData
  <2> QED BY <1>1, <2>1, Goes
<1>3. context' = context /\ child' = child /\ handles' = handles /\ temps' = temps
  BY DEF CloseData
<1>4. table \in [Fds -> OpenFiles \cup {NoFile}] BY DEF ExecInv, TableInv
<1>5. <<"data", t>> \in Files BY DEF Files
<1>6. /\ table' \in [Fds -> OpenFiles \cup {NoFile}]
      /\ \A g \in Fds : table'[g] = IF table[g] = Open(<<"data", t>>, FALSE) THEN NoFile
                                    ELSE table[g]
  <2>1. table' = [fd \in Fds |-> IF table[fd] = Open(<<"data", t>>, FALSE) THEN NoFile
                                 ELSE table[fd]]
    BY DEF CloseData
  <2> QED BY <1>4, <2>1
<1>7. \A u \in Spawners : \A r \in DOMAIN handles[u] : handles[u][r].owned =>
        table'[handles[u][r].fd] = table[handles[u][r].fd]
  <2> SUFFICES ASSUME NEW u \in Spawners, NEW r \in DOMAIN handles[u], handles[u][r].owned
               PROVE  table'[handles[u][r].fd] = table[handles[u][r].fd]
    OBVIOUS
  <2>1. handles[u][r].fd \in Fds /\ table[handles[u][r].fd] = Open(FileOf(u, r), TRUE)
    BY OwnedIs, FdsAre
  <2>2. r \in Streams BY DEF ExecInv, SpawnerInv, StreamsInv
  <2>3. Open(FileOf(u, r), TRUE).cloexec /\ ~Open(<<"data", t>>, FALSE).cloexec
    BY <1>5, <2>2, FileOfIs, OpenIs
  <2>4. table[handles[u][r].fd] # Open(<<"data", t>>, FALSE) BY <2>1, <2>3
  <2> QED BY <1>6, <2>1, <2>4
<1>8. SpawnerInv(t)'
  <2>1. SpawnerInv(t) BY DEF ExecInv
  <2>2. ContextInv(t)' /\ StreamsInv(t)' /\ ChildInv(t)'
    BY <1>2, <1>3, <2>1, CountersAre DEF SpawnerInv, ContextInv, StreamsInv, ChildInv
  <2>3. HandlesInv(t)' BY <1>3, <1>7, HandlesKept
  <2> QED BY <2>2, <2>3 DEF SpawnerInv
<1>9. OwnersInv' BY <1>3 DEF ExecInv, OwnersInv
<1>10. TableInv'
  <2>1. \A u \in Spawners, g \in Opened : Owns(u, g) => Owns(u, g)' BY <1>3 DEF Owns
  <2>2. \A g \in 0..2 : table'[g] = AtStart[g]
    <3>1. \A s \in Streams : AtStart[Number[s]] # Open(<<"data", t>>, FALSE)
      <4> SUFFICES ASSUME NEW s \in Streams
                   PROVE  AtStart[Number[s]] # Open(<<"data", t>>, FALSE)
        OBVIOUS
      <4>1. <<"parent", s>> # <<"data", t>> OBVIOUS
      <4>2. Open(<<"parent", s>>, FALSE).file = <<"parent", s>>
            /\ Open(<<"data", t>>, FALSE).file = <<"data", t>>
        BY <1>5, StartIs, OpenIs
      <4> QED BY <4>1, <4>2, StartIs
    <3>2. \A g \in 0..2 : \E s \in Streams : Number[s] = g
      BY Numbered, FdsAre, CountersAre DEF Streams
    <3>3. \A g \in 0..2 : table[g] = AtStart[g] BY DEF ExecInv, TableInv
    <3>4. \A g \in 0..2 : table[g] # Open(<<"data", t>>, FALSE) /\ g \in Fds
      BY <3>1, <3>2, <3>3, FdsAre
    <3> QED BY <1>6, <3>3, <3>4
  <2>3. \A g \in Opened : table'[g] # NoFile =>
          \E u \in Spawners : IF table'[g].cloexec THEN Owns(u, g)' ELSE InData(u, g)'
    <3> SUFFICES ASSUME NEW g \in Opened, table'[g] # NoFile
                 PROVE  \E u \in Spawners :
                          IF table'[g].cloexec THEN Owns(u, g)' ELSE InData(u, g)'
      OBVIOUS
    <3>1. table'[g] = table[g] /\ table[g] # Open(<<"data", t>>, FALSE)
          /\ table[g] \in OpenFiles
      BY <1>4, <1>6, FdsAre
    <3>2. PICK u \in Spawners : IF table[g].cloexec THEN Owns(u, g) ELSE InData(u, g)
      BY <3>1 DEF ExecInv, TableInv
    <3>3. CASE table[g].cloexec BY <2>1, <3>1, <3>2, <3>3
    <3>4. CASE ~table[g].cloexec
      <4>1. table[g] = Open(table[g].file, FALSE)
        BY <3>1, <3>4 DEF OpenFiles, Open
      <4>2. u # t BY <3>1, <3>2, <3>4, <4>1 DEF InData
      <4>3. InData(u, g)' BY <1>2, <3>1, <3>2, <3>4, <4>2 DEF InData
      <4> QED BY <3>1, <3>4, <4>3
    <3> QED BY <3>3, <3>4
  <2> QED BY <1>6, <2>2, <2>3 DEF TableInv
<1>11. TempsInv' BY <1>2, <1>3, TempsKept
<1>12. ExecTyped' BY <1>2, <1>3 DEF ExecInv, ExecTyped
<1> QED BY <1>2, <1>3, <1>7, <1>8, <1>9, <1>10, <1>11, <1>12, ExecInvKept

----------------------------------------------------------------------------
(* The child *)

(* forking, *)
LEMMA ForkKeeps ==
  ASSUME ExecInv, NEW t \in Spawners, Fork(t)
  PROVE  ExecInv'
<1>1. UNCHANGED <<table, temps, context, handles>> BY DEF Fork
<1>2. "fork" \in ProgramCounters \ {"none", "data"} /\ "wait" \in ProgramCounters \ {"none"}
  BY CountersAre
<1>3. CASE Step(t, "fork", "throw") /\ UNCHANGED child BY <1>1, <1>2, <1>3, StopStep
<1>4. CASE Step(t, "fork", "wait") /\ child' = [child EXCEPT ![t] = table]
  <2>1. pcExec[t] = "fork" /\ pcExec'[t] = "wait" BY <1>2, <1>4, Goes
  <2>2. /\ DOMAIN child' = Spawners /\ child'[t] = table
        /\ \A u \in Spawners \ {t} : child'[u] = child[u]
    BY <1>4 DEF ExecInv, ExecTyped
  <2>3. SpawnerInv(t) BY DEF ExecInv
  <2>4. DOMAIN handles[t] = Streams BY <2>1, <2>3 DEF SpawnerInv, StreamsInv
  <2>5. Inherits(t, table)
    <3>1. \A s \in Streams : handles[t][s].owned =>
            table[handles[t][s].fd] = Open(FileOf(t, s), TRUE)
      BY <2>4, OwnedIs
    <3>2. \A fd \in Opened : table[fd] # NoFile /\ ~table[fd].cloexec =>
            \E u \in Spawners \ {t} : table[fd].file = <<"data", u>>
      BY <2>1 DEF ExecInv, TableInv, InData
    <3> QED BY <3>1, <3>2 DEF ExecInv, TableInv, Inherits
  <2>6. Inherits(t, child[t])'
    <3>1. \A s \in Streams : FileOf(t, s)' = FileOf(t, s) BY <1>1, SameCall
    <3> QED BY <1>1, <2>2, <2>5, <3>1 DEF Inherits
  <2>7. ContextInv(t)' /\ StreamsInv(t)' /\ ChildInv(t)'
    BY <1>1, <2>1, <2>3, <2>4, <2>6, CountersAre
       DEF SpawnerInv, ContextInv, StreamsInv, ChildInv
  <2>8. HandlesInv(t)' BY <1>1, HandlesKept
  <2>9. SpawnerInv(t)' BY <2>7, <2>8 DEF SpawnerInv
  <2> QED BY <1>1, <1>2, <1>4, <2>2, <2>9, QuietStep DEF ExecInv, ExecTyped
<1> QED BY <1>3, <1>4 DEF Fork

(* dup2() of a handle for a stream changes no other descriptor, or closes *)
(* it.                                                                    *)
LEMMA DupIs ==
  ASSUME NEW fds, NEW handle, NEW s \in Streams
  PROVE  /\ Dup2(fds, handle, s)[Number[s]] = Open(fds[handle.fd].file, FALSE)
         /\ \A fd \in Fds : fd # Number[s] /\ ~(fd = handle.fd /\ handle.owned) =>
              Dup2(fds, handle, s)[fd] = fds[fd]
         /\ \A fd \in Fds : fd # Number[s] =>
              Dup2(fds, handle, s)[fd] \in {NoFile, fds[fd]}
<1>1. Number[s] \in Fds BY Numbered, FdsAre
<1>2. Dup2(fds, handle, s)[Number[s]] = Open(fds[handle.fd].file, FALSE)
  BY <1>1, ZenonT(30) DEF Dup2
<1>3. ASSUME NEW fd \in Fds, fd # Number[s]
      PROVE  /\ ~(fd = handle.fd /\ handle.owned) => Dup2(fds, handle, s)[fd] = fds[fd]
             /\ Dup2(fds, handle, s)[fd] = NoFile \/ Dup2(fds, handle, s)[fd] = fds[fd]
  BY <1>3, ZenonT(30) DEF Dup2
<1> QED BY <1>2, <1>3

(* What each standard descriptor is before it is redirected is what was      *)
(* wanted for the stream.                                                    *)
LEMMA WantedIs ==
  ASSUME ExecInv, NEW t \in Spawners, pcExec[t] = "wait"
  PROVE  /\ \A s \in Streams :
              \/ /\ handles[t][s].owned /\ handles[t][s].fd \in Opened
                 /\ child[t][handles[t][s].fd].file = Wanted(t, s)
              \/ /\ ~handles[t][s].owned /\ handles[t][s].fd = Number[s]
                 /\ child[t][Number[s]].file = Wanted(t, s)
              \/ /\ s = "stderr" /\ ~handles[t][s].owned /\ handles[t][s].fd = 1
                 /\ Wanted(t, "stderr") = Wanted(t, "stdout")
         /\ \A s \in Streams : Wanted(t, s) \in Files
<1>1. SpawnerInv(t) BY DEF ExecInv
<1>2. context[t] \in ContextType BY <1>1 DEF SpawnerInv, ContextInv
<1>3. Inherits(t, child[t]) BY <1>1 DEF SpawnerInv, ChildInv
<1>4. DOMAIN handles[t] = Streams BY <1>1 DEF SpawnerInv, StreamsInv
<1>5. \A s \in Streams : child[t][Number[s]].file = <<"parent", s>>
  <2>1. \A s \in Streams : child[t][Number[s]] = Open(<<"parent", s>>, FALSE)
    BY <1>3, Numbered, StartIs DEF Inherits
  <2> QED BY <2>1, StartIs, OpenIs
<1>6. ASSUME NEW s \in Streams, ~(Standard(t, s) >= 0)
      PROVE  /\ handles[t][s].owned /\ handles[t][s].fd \in Opened
             /\ child[t][handles[t][s].fd].file = FileOf(t, s)
  <2>1. PICK fd \in Opened : handles[t][s] = [fd |-> fd, owned |-> TRUE]
    BY <1>1, <1>4, <1>6, Zenon DEF SpawnerInv, HandlesInv
  <2>2. handles[t][s].owned /\ handles[t][s].fd \in Opened BY <2>1
  <2>3. child[t][handles[t][s].fd] = Open(FileOf(t, s), TRUE)
    BY <1>3, <2>2 DEF Inherits
  <2> QED BY <2>2, <2>3, FileOfIs, OpenIs
<1>7. ASSUME NEW s \in Streams, Standard(t, s) >= 0
      PROVE  ~handles[t][s].owned /\ handles[t][s].fd = Standard(t, s)
  <2>1. handles[t][s] = [fd |-> Standard(t, s), owned |-> FALSE]
    BY <1>1, <1>4, <1>7, Zenon DEF SpawnerInv, HandlesInv
  <2> QED BY <2>1
<1>8. ~(-1 >= 0) /\ 0 >= 0 /\ 1 >= 0 /\ 2 >= 0 OBVIOUS
<1>9. \A s \in Streams : /\ context[t][s] = "redirect" \/ Wanted(t, s) \in {<<"parent", s>>, FileOf(t, s)}
                         /\ context[t]["stdout"] # "redirect"
  BY <1>2, ContextFields DEF Wanted
<1>10. "stdin" \in Streams /\ "stdout" \in Streams /\ "stderr" \in Streams BY DEF Streams
<1>11. Wanted(t, "stdin") = IF Standard(t, "stdin") >= 0 THEN <<"parent", "stdin">>
                            ELSE FileOf(t, "stdin")
  BY <1>2, <1>8, <1>10, StandardIs, ContextFields DEF Wanted
<1>12. Wanted(t, "stdout") = IF Standard(t, "stdout") >= 0 THEN <<"parent", "stdout">>
                             ELSE FileOf(t, "stdout")
  BY <1>2, <1>8, <1>10, StandardIs, ContextFields DEF Wanted
<1>13. Wanted(t, "stderr") = IF context[t].stderr = "redirect" THEN Wanted(t, "stdout")
                             ELSE IF Standard(t, "stderr") >= 0 THEN <<"parent", "stderr">>
                             ELSE FileOf(t, "stderr")
  BY <1>2, <1>8, <1>10, StandardIs, ContextFields DEF Wanted
<1>14. \A s \in Streams : FileOf(t, s) \in Files /\ <<"parent", s>> \in Files
  BY FileOfIs, StartIs
<1>15. Standard(t, "stdin") >= 0 => Standard(t, "stdin") = Number["stdin"]
  BY <1>2, <1>8, StandardIs, Numbered
<1>16. Standard(t, "stdout") >= 0 => Standard(t, "stdout") = Number["stdout"]
  BY <1>2, <1>8, StandardIs, Numbered
<1>17. /\ context[t].stderr = "redirect" =>
            Standard(t, "stderr") >= 0 /\ Standard(t, "stderr") = 1
       /\ context[t].stderr # "redirect" /\ Standard(t, "stderr") >= 0 =>
            Standard(t, "stderr") = Number["stderr"]
  BY <1>2, <1>8, StandardIs, Numbered
<1>18. \A s \in Streams : Wanted(t, s) \in Files
  BY <1>10, <1>11, <1>12, <1>13, <1>14, CountersAre
<1>19. ASSUME NEW s \in Streams
       PROVE  \/ /\ handles[t][s].owned /\ handles[t][s].fd \in Opened
                 /\ child[t][handles[t][s].fd].file = Wanted(t, s)
              \/ /\ ~handles[t][s].owned /\ handles[t][s].fd = Number[s]
                 /\ child[t][Number[s]].file = Wanted(t, s)
              \/ /\ s = "stderr" /\ ~handles[t][s].owned /\ handles[t][s].fd = 1
                 /\ Wanted(t, "stderr") = Wanted(t, "stdout")
  <2>1. CASE s = "stdin"
    <3>1. CASE Standard(t, "stdin") >= 0 BY <1>5, <1>7, <1>10, <1>11, <1>15, <2>1, <3>1
    <3>2. CASE ~(Standard(t, "stdin") >= 0) BY <1>6, <1>10, <1>11, <2>1, <3>2
    <3> QED BY <3>1, <3>2
  <2>2. CASE s = "stdout"
    <3>1. CASE Standard(t, "stdout") >= 0 BY <1>5, <1>7, <1>10, <1>12, <1>16, <2>2, <3>1
    <3>2. CASE ~(Standard(t, "stdout") >= 0) BY <1>6, <1>10, <1>12, <2>2, <3>2
    <3> QED BY <3>1, <3>2
  <2>3. CASE s = "stderr"
    <3>1. CASE context[t].stderr = "redirect"
      BY <1>7, <1>10, <1>13, <1>17, <2>3, <3>1
    <3>2. CASE context[t].stderr # "redirect" /\ Standard(t, "stderr") >= 0
      BY <1>5, <1>7, <1>10, <1>13, <1>17, <2>3, <3>2
    <3>3. CASE context[t].stderr # "redirect" /\ ~(Standard(t, "stderr") >= 0)
      BY <1>6, <1>10, <1>13, <2>3, <3>3
    <3> QED BY <3>1, <3>2, <3>3
  <2> QED BY <2>1, <2>2, <2>3, CountersAre
<1> QED BY <1>18, <1>19

(* A program starts with the files that its caller wanted. *)
LEMMA RedirectedRight ==
  ASSUME ExecInv, NEW t \in Spawners, pcExec[t] = "wait"
  PROVE  Starts(t, Kept(Redirected(child[t], handles[t])))
<1> DEFINE h == handles[t]
           c == child[t]
           c1 == Dup2(c, h.stdin, "stdin")
           c2 == Dup2(c1, h.stdout, "stdout")
           c3 == Dup2(c2, h.stderr, "stderr")
           result == Kept(c3)
<1>1. SpawnerInv(t) BY DEF ExecInv
<1>2. Inherits(t, c) /\ DOMAIN h = Streams
  BY <1>1 DEF SpawnerInv, ChildInv, StreamsInv
<1>3. "stdin" \in Streams /\ "stdout" \in Streams /\ "stderr" \in Streams BY DEF Streams
<1>4. /\ \A s \in Streams :
           \/ /\ h[s].owned /\ h[s].fd \in Opened /\ c[h[s].fd].file = Wanted(t, s)
           \/ /\ ~h[s].owned /\ h[s].fd = Number[s] /\ c[Number[s]].file = Wanted(t, s)
           \/ /\ s = "stderr" /\ ~h[s].owned /\ h[s].fd = 1
              /\ Wanted(t, "stderr") = Wanted(t, "stdout")
      /\ \A s \in Streams : Wanted(t, s) \in Files
  BY WantedIs
<1>5. \A r, s \in Streams : h[r].owned /\ h[s].owned /\ h[r].fd = h[s].fd => r = s
  BY <1>2 DEF ExecInv, OwnersInv
<1>6. /\ c1[0] = Open(c[h.stdin.fd].file, FALSE)
      /\ \A fd \in Fds : fd # 0 /\ ~(fd = h.stdin.fd /\ h.stdin.owned) => c1[fd] = c[fd]
      /\ \A fd \in Fds : fd # 0 => c1[fd] \in {NoFile, c[fd]}
  <2>1. /\ c1[Number["stdin"]] = Open(c[h.stdin.fd].file, FALSE)
        /\ \A fd \in Fds : fd # Number["stdin"] /\ ~(fd = h.stdin.fd /\ h.stdin.owned) =>
             c1[fd] = c[fd]
        /\ \A fd \in Fds : fd # Number["stdin"] => c1[fd] \in {NoFile, c[fd]}
    <3> HIDE DEF h, c
    <3> QED BY <1>3, DupIs
  <2> HIDE DEF h, c, c1, c2, c3
  <2> QED BY <2>1, Numbered
<1>7. /\ c2[1] = Open(c1[h.stdout.fd].file, FALSE)
      /\ \A fd \in Fds : fd # 1 /\ ~(fd = h.stdout.fd /\ h.stdout.owned) => c2[fd] = c1[fd]
      /\ \A fd \in Fds : fd # 1 => c2[fd] \in {NoFile, c1[fd]}
  <2>1. /\ c2[Number["stdout"]] = Open(c1[h.stdout.fd].file, FALSE)
        /\ \A fd \in Fds : fd # Number["stdout"] /\ ~(fd = h.stdout.fd /\ h.stdout.owned) =>
             c2[fd] = c1[fd]
        /\ \A fd \in Fds : fd # Number["stdout"] => c2[fd] \in {NoFile, c1[fd]}
    <3> HIDE DEF h, c1
    <3> QED BY <1>3, DupIs
  <2> HIDE DEF h, c, c1, c2, c3
  <2> QED BY <2>1, Numbered
<1>8. /\ c3[2] = Open(c2[h.stderr.fd].file, FALSE)
      /\ \A fd \in Fds : fd # 2 /\ ~(fd = h.stderr.fd /\ h.stderr.owned) => c3[fd] = c2[fd]
      /\ \A fd \in Fds : fd # 2 => c3[fd] \in {NoFile, c2[fd]}
  <2>1. /\ c3[Number["stderr"]] = Open(c2[h.stderr.fd].file, FALSE)
        /\ \A fd \in Fds : fd # Number["stderr"] /\ ~(fd = h.stderr.fd /\ h.stderr.owned) =>
             c3[fd] = c2[fd]
        /\ \A fd \in Fds : fd # Number["stderr"] => c3[fd] \in {NoFile, c2[fd]}
    <3> HIDE DEF h, c2
    <3> QED BY <1>3, DupIs
  <2> HIDE DEF h, c, c1, c2, c3
  <2> QED BY <2>1, Numbered
<1>9. result = [fd \in Fds |-> IF c3[fd] # NoFile /\ c3[fd].cloexec THEN NoFile ELSE c3[fd]]
  BY DEF Kept
<1>10. Kept(Redirected(child[t], handles[t])) = result BY DEF Redirected
<1> HIDE DEF h, c, c1, c2, c3, result
<1>11. c1[0] = Open(Wanted(t, "stdin"), FALSE)
  <2>1. c[h.stdin.fd].file = Wanted(t, "stdin")
    <3>1. h["stdin"] = h.stdin OBVIOUS
    <3>2. "stdin" # "stderr" OBVIOUS
    <3> QED BY <1>3, <1>4, <3>1, <3>2
  <2> QED BY <1>6, <2>1
<1>12. c2[1] = Open(Wanted(t, "stdout"), FALSE)
  <2>1. h["stdout"] = h.stdout /\ h["stdin"] = h.stdin OBVIOUS
  <2>2. CASE ~h.stdout.owned
    <3>1. h.stdout.fd = 1 /\ c[1].file = Wanted(t, "stdout")
      BY <1>3, <1>4, <2>1, <2>2, Numbered
    <3>2. ~(1 = h.stdin.fd /\ h.stdin.owned)
      BY <1>3, <1>4, <2>1, FdsAre
    <3>3. c1[1] = c[1] BY <1>6, <3>2, FdsAre
    <3> QED BY <1>7, <3>1, <3>3
  <2>3. CASE h.stdout.owned
    <3>1. h.stdout.fd \in Opened /\ c[h.stdout.fd].file = Wanted(t, "stdout")
      BY <1>3, <1>4, <2>1, <2>3
    <3>2. ~(h.stdout.fd = h.stdin.fd /\ h.stdin.owned)
      <4>1. "stdin" # "stdout" OBVIOUS
      <4> QED BY <1>3, <1>5, <2>1, <2>3, <4>1
    <3>3. c1[h.stdout.fd] = c[h.stdout.fd] BY <1>6, <3>1, <3>2, FdsAre
    <3> QED BY <1>7, <3>1, <3>3
  <2> QED BY <2>2, <2>3
<1>13. c3[2] = Open(Wanted(t, "stderr"), FALSE)
  <2>1. h["stdout"] = h.stdout /\ h["stdin"] = h.stdin /\ h["stderr"] = h.stderr OBVIOUS
  <2>2. CASE h.stderr.owned
    <3>1. h.stderr.fd \in Opened /\ c[h.stderr.fd].file = Wanted(t, "stderr")
      BY <1>3, <1>4, <2>1, <2>2
    <3>2. ~(h.stderr.fd = h.stdin.fd /\ h.stdin.owned)
          /\ ~(h.stderr.fd = h.stdout.fd /\ h.stdout.owned)
      <4>1. "stdin" # "stderr" /\ "stdout" # "stderr" OBVIOUS
      <4> QED BY <1>3, <1>5, <2>1, <2>2, <4>1
    <3>3. c1[h.stderr.fd] = c[h.stderr.fd] BY <1>6, <3>1, <3>2, FdsAre
    <3>4. c2[h.stderr.fd] = c1[h.stderr.fd] BY <1>7, <3>1, <3>2, FdsAre
    <3> QED BY <1>8, <3>1, <3>3, <3>4
  <2>3. CASE ~h.stderr.owned /\ h.stderr.fd = 1
    <3>1. Wanted(t, "stderr") = Wanted(t, "stdout")
      <4>1. Number["stderr"] # 1 BY Numbered
      <4> QED BY <1>3, <1>4, <2>1, <2>3, <4>1
    <3>2. c2[1].file = Wanted(t, "stdout") BY <1>3, <1>4, <1>12, OpenIs
    <3> QED BY <1>8, <2>3, <3>1, <3>2
  <2>4. CASE ~h.stderr.owned /\ h.stderr.fd # 1
    <3>1. h.stderr.fd = 2 /\ c[2].file = Wanted(t, "stderr")
      BY <1>3, <1>4, <2>1, <2>4, Numbered
    <3>2. ~(2 = h.stdin.fd /\ h.stdin.owned) /\ ~(2 = h.stdout.fd /\ h.stdout.owned)
      BY <1>3, <1>4, <2>1, FdsAre
    <3>3. c1[2] = c[2] BY <1>6, <3>2, FdsAre
    <3>4. c2[2] = c1[2] BY <1>7, <3>2, FdsAre
    <3> QED BY <1>8, <3>1, <3>3, <3>4
  <2> QED BY <2>2, <2>3, <2>4
<1>14. c3[0] = Open(Wanted(t, "stdin"), FALSE)
  <2>1. h["stdout"] = h.stdout /\ h["stderr"] = h.stderr OBVIOUS
  <2>2. ~(0 = h.stdout.fd /\ h.stdout.owned) /\ ~(0 = h.stderr.fd /\ h.stderr.owned)
    BY <1>3, <1>4, <2>1, FdsAre
  <2>3. c2[0] = c1[0] BY <1>7, <2>2, FdsAre
  <2>4. c3[0] = c2[0] BY <1>8, <2>2, FdsAre
  <2> QED BY <1>11, <2>3, <2>4
<1>15. c3[1] = Open(Wanted(t, "stdout"), FALSE)
  <2>1. h["stderr"] = h.stderr OBVIOUS
  <2>2. ~(1 = h.stderr.fd /\ h.stderr.owned) BY <1>3, <1>4, <2>1, FdsAre
  <2>3. c3[1] = c2[1] BY <1>8, <2>2, FdsAre
  <2> QED BY <1>12, <2>3
<1>16. \A s \in Streams : c3[Number[s]] = Open(Wanted(t, s), FALSE)
  BY <1>13, <1>14, <1>15, Numbered, CountersAre
<1>17. \A s \in Streams : /\ result[Number[s]] # NoFile
                          /\ result[Number[s]].file = Wanted(t, s)
  <2> SUFFICES ASSUME NEW s \in Streams
               PROVE  result[Number[s]] # NoFile /\ result[Number[s]].file = Wanted(t, s)
    OBVIOUS
  <2>1. /\ c3[Number[s]] # NoFile /\ ~c3[Number[s]].cloexec
        /\ c3[Number[s]].file = Wanted(t, s)
    <3>1. Wanted(t, s) \in Files /\ FALSE \in BOOLEAN BY <1>4
    <3>2. /\ Open(Wanted(t, s), FALSE) # NoFile
          /\ Open(Wanted(t, s), FALSE).cloexec = FALSE
          /\ Open(Wanted(t, s), FALSE).file = Wanted(t, s)
      BY <3>1, OpenIs
    <3> QED BY <1>16, <3>2
  <2>2. result[Number[s]] = c3[Number[s]] BY <1>9, <2>1, Numbered, FdsAre
  <2> QED BY <2>1, <2>2
<1>18. \A fd \in Opened : c3[fd] = NoFile \/ c3[fd] = c[fd]
  BY <1>6, <1>7, <1>8, FdsAre
<1>19. \A fd \in Opened : \/ result[fd] = NoFile
                          \/ \E u \in Spawners \ {t} : result[fd].file = <<"data", u>>
  <2> SUFFICES ASSUME NEW fd \in Opened, result[fd] # NoFile
               PROVE  \E u \in Spawners \ {t} : result[fd].file = <<"data", u>>
    OBVIOUS
  <2>1. c3[fd] # NoFile /\ ~c3[fd].cloexec /\ result[fd] = c3[fd] BY <1>9, FdsAre
  <2>2. c3[fd] = c[fd] BY <1>18, <2>1
  <2> QED BY <1>2, <2>1, <2>2 DEF Inherits
<1>20. \A fd \in Fds : fd <= 2 => \E s \in Streams : Number[s] = fd
  BY <1>3, Numbered, FdsAre
<1>21. \A r, s \in Streams : Number[r] = Number[s] => r = s BY DEF Streams, Number
<1>22. Starts(t, result)
  <2> SUFFICES ASSUME NEW fd \in Fds
               PROVE  IF fd <= 2
                        THEN /\ result[fd] # NoFile
                             /\ \A s \in Streams : Number[s] = fd =>
                                  result[fd].file = Wanted(t, s)
                        ELSE \/ result[fd] = NoFile
                             \/ \E u \in Spawners \ {t} : result[fd].file = <<"data", u>>
    BY DEF Starts
  <2>1. CASE fd <= 2 BY <1>17, <1>20, <2>1
  <2>2. CASE ~(fd <= 2)
    <3>1. fd \in Opened BY <2>2, FdsAre
    <3> QED BY <1>19, <2>2, <3>1
  <2> QED BY <2>1, <2>2
<1> QED BY <1>10, <1>22

(* Starting the program, whose descriptors are those inherited, *)
LEMMA StartKeeps ==
  ASSUME ExecInv, NEW t \in Spawners, Exec(t)
  PROVE  ExecInv'
<1>1. UNCHANGED <<table, temps, context, handles>> BY DEF Exec
<1>2. "wait" \in ProgramCounters \ {"data"} /\ "image" \in ProgramCounters \ {"none"}
  BY CountersAre
<1>3. Step(t, "wait", "image") BY DEF Exec
<1>4. pcExec[t] = "wait" /\ pcExec'[t] = "image" BY <1>2, <1>3, Goes
<1>5. /\ DOMAIN child' = Spawners
      /\ \A u \in Spawners \ {t} : child'[u] = child[u]
      /\ \/ child'[t] = Kept(Redirected(child[t], handles[t]))
         \/ child'[t] = NoFile
  BY DEF Exec, ExecInv, ExecTyped
<1>6. SpawnerInv(t) BY DEF ExecInv
<1>7. ChildInv(t)'
  <2>1. child'[t] # NoFile => Starts(t, child'[t]) BY <1>4, <1>5, RedirectedRight
  <2>2. child'[t] # NoFile => Starts(t, child[t])'
    <3>1. \A s \in Streams : Wanted(t, s)' = Wanted(t, s) BY <1>1, SameCall
    <3> QED BY <2>1, <3>1 DEF Starts
  <2> QED BY <1>4, <2>2 DEF ChildInv
<1>8. ContextInv(t)' /\ StreamsInv(t)'
  BY <1>1, <1>4, <1>6, CountersAre DEF SpawnerInv, ContextInv, StreamsInv
<1>9. HandlesInv(t)' BY <1>1, HandlesKept
<1>10. SpawnerInv(t)' BY <1>7, <1>8, <1>9 DEF SpawnerInv
<1> QED BY <1>1, <1>2, <1>3, <1>5, <1>10, QuietStep DEF ExecInv, ExecTyped

(* and its end. *)
LEMMA EndKeeps ==
  ASSUME ExecInv, UNCHANGED <<table, temps, context, pcExec, handles, child>>
  PROVE  ExecInv'
<1>1. ASSUME NEW u \in Spawners PROVE SpawnerInv(u)' BY OthersKeep
<1>2. OwnersInv' /\ TempsInv' /\ ExecTyped'
  BY DEF ExecInv, OwnersInv, TempsInv, ExecTyped
<1>3. TableInv' BY DEF ExecInv, TableInv, Owns, InData
<1> QED BY <1>1, <1>2, <1>3 DEF ExecInv

(* The handles of t go, and nobody else's. *)
LEMMA ReleaseKeeps ==
  ASSUME ExecInv, NEW t \in Spawners, NEW from \in {"image", "throw"},
         Step(t, from, "none"), Release(t), UNCHANGED <<context, child>>
  PROVE  ExecInv'
<1>1. from \in ProgramCounters /\ "none" \in ProgramCounters /\ from # "data"
  BY CountersAre
<1>2. /\ pcExec' \in [Spawners -> ProgramCounters]
      /\ pcExec[t] = from /\ pcExec'[t] = "none"
      /\ \A u \in Spawners \ {t} : pcExec'[u] = pcExec[u]
  BY <1>1, Goes
<1>3. /\ DOMAIN handles' = Spawners /\ handles'[t] = NoHandles
      /\ \A u \in Spawners \ {t} : handles'[u] = handles[u]
  BY DEF Release, ExecInv, ExecTyped
<1>4. table \in [Fds -> OpenFiles \cup {NoFile}] BY DEF ExecInv, TableInv
<1> DEFINE mine(fd) == \E s \in DOMAIN handles[t] : handles[t][s].owned /\ handles[t][s].fd = fd
<1>5. /\ table' \in [Fds -> OpenFiles \cup {NoFile}]
      /\ \A fd \in Fds : table'[fd] = IF mine(fd) THEN NoFile ELSE table[fd]
  BY <1>4 DEF Release
<1>6. ASSUME NEW u \in Spawners \ {t}, NEW s \in DOMAIN handles[u], handles[u][s].owned
      PROVE  /\ handles[u][s].fd \in Fds
             /\ ~mine(handles[u][s].fd)
             /\ table'[handles[u][s].fd] = table[handles[u][s].fd]
  <2>1. handles[u][s].fd \in Fds BY <1>6, OwnedIs, FdsAre
  <2>2. ~mine(handles[u][s].fd) BY <1>6 DEF ExecInv, OwnersInv
  <2> QED BY <1>5, <2>1, <2>2
<1>7. DOMAIN NoHandles = {} BY DEF NoHandles
<1>8. SpawnerInv(t)'
  <2>1. ContextInv(t)' /\ ChildInv(t)' BY <1>2 DEF ContextInv, ChildInv
  <2>2. StreamsInv(t)' BY <1>2, <1>3, <1>7, CountersAre DEF StreamsInv
  <2>3. HandlesInv(t)' BY <1>3, <1>7 DEF HandlesInv
  <2> QED BY <2>1, <2>2, <2>3 DEF SpawnerInv
<1>9. OwnersInv'
  <2> SUFFICES ASSUME NEW u \in Spawners, NEW v \in Spawners,
                      NEW r \in DOMAIN handles'[u], NEW q \in DOMAIN handles'[v],
                      handles'[u][r].owned, handles'[v][q].owned,
                      handles'[u][r].fd = handles'[v][q].fd
               PROVE  u = v /\ r = q
    BY DEF OwnersInv
  <2>1. u # t /\ v # t BY <1>3, <1>7
  <2> QED BY <1>3, <2>1 DEF ExecInv, OwnersInv
<1>10. TableInv'
  <2>1. \A fd \in 0..2 : table'[fd] = AtStart[fd]
    <3>0. \A s \in DOMAIN handles[t] : handles[t][s].owned => handles[t][s].fd \in Opened
      BY OwnedIs
    <3>1. \A fd \in 0..2 : ~mine(fd) BY <3>0, FdsAre
    <3> QED BY <1>5, <3>1, FdsAre DEF ExecInv, TableInv
  <2>2. ASSUME NEW fd \in Opened, table'[fd] # NoFile
        PROVE  \E u \in Spawners : IF table'[fd].cloexec THEN Owns(u, fd)' ELSE InData(u, fd)'
    <3>1. table'[fd] = table[fd] /\ ~mine(fd) BY <1>5, <2>2, FdsAre
    <3>2. PICK u \in Spawners : IF table[fd].cloexec THEN Owns(u, fd) ELSE InData(u, fd)
      BY <2>2, <3>1 DEF ExecInv, TableInv
    <3>3. CASE table[fd].cloexec
      <4>1. PICK s \in DOMAIN handles[u] : handles[u][s] = [fd |-> fd, owned |-> TRUE]
        BY <3>2, <3>3 DEF Owns
      <4>2. handles[u][s].owned /\ handles[u][s].fd = fd BY <4>1
      <4>3. u # t BY <3>1, <4>2
      <4>4. Owns(u, fd)' BY <1>3, <4>1, <4>3 DEF Owns
      <4> QED BY <3>1, <3>3, <4>4
    <3>4. CASE ~table[fd].cloexec
      <4>1. InData(u, fd)' BY <1>1, <1>2, <3>1, <3>2, <3>4 DEF InData
      <4> QED BY <3>1, <3>4, <4>1
    <3> QED BY <3>3, <3>4
  <2> QED BY <1>5, <2>1, <2>2 DEF TableInv
<1>11. TempsInv'
  <2>1. temps' = temps \ {<<"data", t>>, <<"output", t>>} BY DEF Release
  <2> QED BY <1>2, <2>1 DEF ExecInv, TempsInv
<1>12. ExecTyped' BY <1>2, <1>3 DEF ExecInv, ExecTyped
<1> QED BY <1>2, <1>3, <1>6, <1>8, <1>9, <1>10, <1>11, <1>12, ExecInvKept

----------------------------------------------------------------------------
(* Every program starts with the files its caller asked for *)

(* The invariant holds at first. *)
LEMMA ExecInvInit == ExecInit => ExecInv
<1> SUFFICES ASSUME ExecInit PROVE ExecInv OBVIOUS
<1>1. DOMAIN NoHandles = {} BY DEF NoHandles
<1>2. "none" \in ProgramCounters BY CountersAre
<1>3. ExecTyped BY <1>2 DEF ExecInit, ExecTyped
<1>4. TableInv BY StartIs DEF ExecInit, TableInv
<1>5. OwnersInv BY <1>1 DEF ExecInit, OwnersInv
<1>6. TempsInv BY DEF ExecInit, TempsInv
<1>7. ASSUME NEW t \in Spawners PROVE SpawnerInv(t)
  <2>1. pcExec[t] = "none" /\ handles[t] = NoHandles BY DEF ExecInit
  <2> QED BY <1>1, <2>1, CountersAre
         DEF SpawnerInv, ContextInv, StreamsInv, HandlesInv, ChildInv
<1> QED BY <1>3, <1>4, <1>5, <1>6, <1>7 DEF ExecInv

(* The invariant is kept by every step. *)
LEMMA ExecInvNext == ExecInv /\ [ExecNext]_execVars => ExecInv'
<1> SUFFICES ASSUME ExecInv, [ExecNext]_execVars PROVE ExecInv' OBVIOUS
<1>1. CASE UNCHANGED execVars BY <1>1, EndKeeps DEF execVars
<1>2. ASSUME NEW t \in Spawners, NEW ctx \in Contexts, Execute(t, ctx) PROVE ExecInv'
  BY <1>2, ExecuteKeeps
<1>3. ASSUME NEW t \in Spawners, Build(t) \/ FindExecutable(t) PROVE ExecInv'
  BY <1>3, BuildKeeps, FindKeeps
<1>4. ASSUME NEW t \in Spawners, NEW s \in Streams, Inherit(t, s) \/ OpenFile(t, s)
      PROVE  ExecInv'
  BY <1>4, InheritKeeps, OpenKeeps
<1>5. ASSUME NEW t \in Spawners, WriteData(t) \/ CloseData(t) PROVE ExecInv'
  BY <1>5, WriteDataKeeps, CloseDataKeeps
<1>6. ASSUME NEW t \in Spawners, Fork(t) \/ Exec(t) PROVE ExecInv'
  BY <1>6, ForkKeeps, StartKeeps
<1>7. ASSUME NEW t \in Spawners, End(t) PROVE ExecInv' BY <1>7, EndKeeps DEF End
<1>8. ASSUME NEW t \in Spawners, Return(t) PROVE ExecInv' BY <1>8, ReleaseKeeps DEF Return
<1>9. ASSUME NEW t \in Spawners, Throw(t) PROVE ExecInv' BY <1>9, ReleaseKeeps DEF Throw
<1> QED BY <1>1, <1>2, <1>3, <1>4, <1>5, <1>6, <1>7, <1>8, <1>9 DEF ExecNext

(* At any time every thread's call has the handles it has asked for so far,  *)
(* every other descriptor belongs to a call, and a program that has started  *)
(* has its streams. (unix/execute.cpp:45-60, handle.cpp:136-200)             *)
THEOREM ExecutorInvariant == ExecSpec => []ExecInv
BY ExecInvInit, ExecInvNext, PTL DEF ExecSpec

(* The invariant says which files a started program has. *)
LEMMA FilesAreRight == ExecInv => ProgramsGetTheirFiles
<1> SUFFICES ASSUME ExecInv PROVE ProgramsGetTheirFiles OBVIOUS
<1>1. ASSUME NEW t \in Spawners, pcExec[t] = "image", child[t] # NoFile
      PROVE  Starts(t, child[t])
  BY <1>1 DEF ExecInv, SpawnerInv, ChildInv
<1>2. ASSUME \A t \in Spawners : pcExec[t] = "none" PROVE table = AtStart /\ temps = {}
  <2>1. \A t \in Spawners : DOMAIN handles[t] = {}
    BY <1>2 DEF ExecInv, SpawnerInv, StreamsInv
  <2>2. \A fd \in Opened : table[fd] = NoFile
    BY <1>2, <2>1 DEF ExecInv, TableInv, Owns, InData
  <2>3. \A fd \in Fds : table[fd] = AtStart[fd]
    BY <2>2, StartIs, FdsAre DEF ExecInv, TableInv
  <2>4. table = AtStart
    <3>1. /\ table \in [Fds -> OpenFiles \cup {NoFile}]
          /\ AtStart \in [Fds -> OpenFiles \cup {NoFile}]
      BY StartIs DEF ExecInv, TableInv
    <3> QED BY <2>3, <3>1
  <2>5. temps = {}
    <3> SUFFICES ASSUME NEW file \in temps PROVE FALSE OBVIOUS
    <3>1. PICK k \in {"data", "output"}, u \in Spawners : file = <<k, u>>
      BY DEF ExecInv, TempsInv
    <3>2. <<"data", u>> \in temps \/ <<"output", u>> \in temps BY <3>1
    <3> QED BY <1>2, <3>2 DEF ExecInv, TempsInv
  <2> QED BY <2>4, <2>5
<1> QED BY <1>1, <1>2 DEF ProgramsGetTheirFiles, Starts

(* For any threads, calls and failures: a program starts with exactly the    *)
(* files that its caller asked for, but perhaps for input that another       *)
(* thread is writing, and nothing is left open when all calls have returned. *)
(* (unix/execute.cpp:45-60, handle.cpp:136-200)                              *)
THEOREM ProgramsStartRight == ExecSpec => []ProgramsGetTheirFiles
BY ExecutorInvariant, FilesAreRight, PTL

----------------------------------------------------------------------------
(* bunsan::curl: replies *)

(* Values and statuses that servers send. *)
Values == {line.value : line \in {l \in Lines : l.kind = "header"}}
Statuses == {line.status : line \in {l \in Lines : l.kind = "status"}}
Responses == [status : Statuses, headers : [Names_ -> Seq(Values)]]

HttpTyped ==
  /\ heard \in Seq(Lines) /\ transfer \in Seq(Lines) /\ m_responses \in Seq(Responses)
  /\ \A k \in 1..Len(heard) : heard[k].kind \in {"status", "blank", "header"}

IsLast(k) == k \in StatusLines /\ \A j \in StatusLines : j <= k

(* The last response is the head after the last status line heard. *)
HeadsInv ==
  StatusLines # {} =>
    /\ m_responses # <<>>
    /\ \E k \in StatusLines : IsLast(k)
    /\ \A k \in StatusLines : IsLast(k) =>
         /\ LastResponse.status = heard[k].status
         /\ \A name \in Names_ : LastResponse.headers[name] = ValuesAfter(k, name)

ReplyInv ==
  /\ doing # "idle" => reply.done = "none"
  /\ reply.done \in {"returned", "not_ok_status_error"} =>
       m_responses # <<>> /\ reply.status = LastResponse.status

HttpInv == HttpTyped /\ HeadsInv /\ ReplyInv

----------------------------------------------------------------------------
(* The headers heard after a line *)

(* The headers heard after a place are finitely many, with their values. *)
LEMMA HeadersAre ==
  ASSUME HttpTyped, NEW place \in Nat, NEW name
  PROVE  /\ HeadersAfter(place, name) \in SUBSET Nat
         /\ IsFiniteSet(HeadersAfter(place, name))
         /\ HeadersAfter(place, name) \in SUBSET (1..Len(heard))
         /\ Cardinality(HeadersAfter(place, name)) \in Nat
         /\ ValuesAfter(place, name) \in Seq(Values)
         /\ Len(ValuesAfter(place, name)) = Cardinality(HeadersAfter(place, name))
<1> DEFINE H == HeadersAfter(place, name)  n == Cardinality(H)
<1>1. Len(heard) \in Nat /\ DOMAIN heard = 1..Len(heard) BY DEF HttpTyped
<1>2. H \in SUBSET (1..Len(heard)) BY <1>1 DEF HeadersAfter
<1>3. IsFiniteSet(1..Len(heard)) BY <1>1, FS_Interval
<1>4. IsFiniteSet(H) BY <1>2, <1>3, FS_Subset
<1>5. n \in Nat BY <1>4, FS_CardinalityType
<1>6. H \in SUBSET Nat BY <1>1, <1>2
<1>7. \A k \in H : heard[k].value \in Values
  <2> SUFFICES ASSUME NEW k \in H PROVE heard[k].value \in Values OBVIOUS
  <2>1. heard[k].kind = "header" BY DEF HeadersAfter
  <2>2. k \in 1..Len(heard) BY <1>2
  <2>3. heard[k] \in Lines BY <2>2, ElementOfSeq DEF HttpTyped
  <2> QED BY <2>1, <2>3 DEF Values
<1>8. \A i \in 1..n : Nth(H, i) \in H BY <1>4, <1>6, NthFound
<1>9. ValuesAfter(place, name) = [i \in 1..n |-> heard[Nth(H, i)].value]
  BY DEF ValuesAfter
<1> HIDE DEF H, n
<1>10. ValuesAfter(place, name) \in [1..n -> Values] BY <1>7, <1>8, <1>9
<1>11. ValuesAfter(place, name) \in Seq(Values) /\ Len(ValuesAfter(place, name)) = n
  BY <1>5, <1>10, SeqMade
<1> QED BY <1>2, <1>4, <1>5, <1>6, <1>11 DEF H, n

(* What another line adds. *)
LEMMA ValuesAdded ==
  ASSUME HttpTyped, NEW place \in Nat, place <= Len(heard), NEW name,
         NEW line \in Lines, heard' = Append(heard, line)
  PROVE  ValuesAfter(place, name)' =
           IF line.kind = "header" /\ make_name[line.raw] = name
           THEN ValuesAfter(place, name) \o <<line.value>> ELSE ValuesAfter(place, name)
<1> DEFINE H == HeadersAfter(place, name)  n == Cardinality(H)  L == Len(heard)
           adds == line.kind = "header" /\ make_name[line.raw] = name
<1>1. L \in Nat /\ DOMAIN heard = 1..L BY DEF HttpTyped
<1>2. /\ heard' \in Seq(Lines) /\ Len(heard') = L + 1
      /\ \A k \in 1..L : heard'[k] = heard[k]
      /\ heard'[L + 1] = line
  BY AppendProperties DEF HttpTyped
<1>3. DOMAIN heard' = 1..(L + 1) BY <1>1, <1>2
<1>4. /\ H \in SUBSET Nat /\ IsFiniteSet(H) /\ H \in SUBSET (1..L) /\ n \in Nat
      /\ ValuesAfter(place, name) \in Seq(Values) /\ Len(ValuesAfter(place, name)) = n
  BY HeadersAre
<1>5. HeadersAfter(place, name)' = IF adds THEN H \cup {L + 1} ELSE H
  <2>1. HeadersAfter(place, name)' =
          {k \in 1..(L + 1) : /\ k > place /\ heard'[k].kind = "header"
                             /\ make_name[heard'[k].raw] = name}
    BY <1>3 DEF HeadersAfter
  <2>2. H = {k \in 1..L : /\ k > place /\ heard[k].kind = "header"
                          /\ make_name[heard[k].raw] = name}
    BY <1>1 DEF HeadersAfter
  <2>3. L + 1 > place /\ \A k \in 1..(L + 1) : k \in 1..L \/ k = L + 1 BY <1>1
  <2>4. \A k \in 1..L : k \in 1..(L + 1) BY <1>1
  <2>5. L + 1 \in 1..(L + 1) BY <1>1
  <2> HIDE DEF L, H
  <2>6. CASE adds BY <1>2, <2>1, <2>2, <2>3, <2>4, <2>5, <2>6
  <2>7. CASE ~adds BY <1>2, <2>1, <2>2, <2>3, <2>4, <2>5, <2>7
  <2> QED BY <2>6, <2>7
<1>6. ValuesAfter(place, name)' =
        [i \in 1..Cardinality(HeadersAfter(place, name)') |->
           heard'[Nth(HeadersAfter(place, name)', i)].value]
  BY DEF ValuesAfter
<1>7. ValuesAfter(place, name) = [i \in 1..n |-> heard[Nth(H, i)].value]
  BY DEF ValuesAfter
<1>8. \A i \in 1..n : Nth(H, i) \in 1..L BY <1>4, NthFound
<1>9. CASE ~adds
  <2>1. HeadersAfter(place, name)' = H BY <1>5, <1>9
  <2>2. ValuesAfter(place, name)' = [i \in 1..n |-> heard'[Nth(H, i)].value]
    BY <1>6, <2>1
  <2> HIDE DEF n, H, L
  <2>3. ValuesAfter(place, name)' = ValuesAfter(place, name)
    BY <1>2, <1>7, <1>8, <2>2
  <2> QED BY <1>9, <2>3
<1>10. CASE adds
  <2>1. HeadersAfter(place, name)' = H \cup {L + 1} BY <1>5, <1>10
  <2>2. /\ Cardinality(H \cup {L + 1}) = n + 1
        /\ Nth(H \cup {L + 1}, n + 1) = L + 1
        /\ \A i \in 1..n : Nth(H \cup {L + 1}, i) = Nth(H, i)
    <3>1. L + 1 \in Nat /\ \A m \in H : m < L + 1 BY <1>1, <1>4
    <3> HIDE DEF H, L
    <3> QED BY <1>4, <3>1, NthAdded
  <2>3. ValuesAfter(place, name)' =
          [i \in 1..(n + 1) |-> heard'[Nth(H \cup {L + 1}, i)].value]
    BY <1>6, <2>1, <2>2
  <2>4. line.value \in Values BY <1>10 DEF Values
  <2> HIDE DEF n, H, L
  <2>5. ASSUME NEW i \in 1..(n + 1)
        PROVE  /\ i \in 1..n => heard'[Nth(H \cup {L + 1}, i)].value = ValuesAfter(place, name)[i]
               /\ i \notin 1..n => i = n + 1 /\ heard'[Nth(H \cup {L + 1}, i)].value = line.value
    <3>1. CASE i \in 1..n BY <1>2, <1>7, <1>8, <2>2, <3>1
    <3>2. CASE i \notin 1..n
      <4>1. i = n + 1 BY <1>4, <3>2
      <4> QED BY <1>2, <2>2, <3>2, <4>1
    <3> QED BY <3>1, <3>2
  <2>6. \A i \in 1..n : ValuesAfter(place, name)[i] \in Values BY <1>4, ElementOfSeq
  <2>7. ValuesAfter(place, name)' \in [1..(n + 1) -> Values] BY <2>3, <2>4, <2>5, <2>6
  <2>8. n + 1 \in Nat BY <1>4
  <2>9. ValuesAfter(place, name)' \in Seq(Values) /\ Len(ValuesAfter(place, name)') = n + 1
    BY <2>7, <2>8, SeqMade
  <2>10. <<line.value>> \in Seq(Values) /\ Len(<<line.value>>) = 1 /\ <<line.value>>[1] = line.value
    BY <2>4
  <2> DEFINE old == ValuesAfter(place, name)  new == ValuesAfter(place, name)'
             more == <<line.value>>
  <2>11. /\ old \o more \in Seq(Values) /\ Len(old \o more) = n + 1
         /\ \A i \in 1..(n + 1) : (old \o more)[i] = IF i <= n THEN old[i] ELSE more[i - n]
    <3>1. old \in Seq(Values) /\ Len(old) = n BY <1>4
    <3>2. more \in Seq(Values) /\ Len(more) = 1 BY <2>10
    <3> HIDE DEF old, more
    <3>3. /\ old \o more \in Seq(Values) /\ Len(old \o more) = Len(old) + Len(more)
          /\ \A i \in 1..(Len(old) + Len(more)) : (old \o more)[i] =
               IF i <= Len(old) THEN old[i] ELSE more[i - Len(old)]
      BY <3>1, <3>2, ConcatProperties
    <3> QED BY <3>1, <3>2, <3>3
  <2>12. ASSUME NEW i \in 1..(n + 1) PROVE new[i] = (old \o more)[i]
    <3>1. new[i] = heard'[Nth(H \cup {L + 1}, i)].value BY <2>3
    <3>2. CASE i \in 1..n
      <4>1. i <= n BY <3>2
      <4> QED BY <2>5, <2>11, <3>1, <3>2, <4>1
    <3>3. CASE i \notin 1..n
      <4>1. i = n + 1 /\ ~(i <= n) /\ i - n = 1 BY <1>4, <3>3
      <4> QED BY <2>5, <2>10, <2>11, <3>1, <3>3, <4>1
    <3> QED BY <3>2, <3>3
  <2>13. new = old \o more
    <3> HIDE DEF old, new, more
    <3>1. new \in Seq(Values) /\ Len(new) = n + 1 BY <2>9 DEF new
    <3> QED BY <2>11, <2>12, <3>1, SeqEqual
  <2> QED BY <1>10, <2>13
<1> QED BY <1>9, <1>10
----------------------------------------------------------------------------
(* The lines, as they are parsed *)

(* A header goes to the last response, behind those of its name. *)
LEMMA HeaderMerged ==
  ASSUME HttpTyped, m_responses # <<>>, NEW line \in Lines, line.kind = "header",
         m_responses' = [m_responses EXCEPT ![Len(m_responses)].headers =
                           merge_insert(@, make_name[line.raw], <<line.value>>)]
  PROVE  /\ m_responses' \in Seq(Responses) /\ m_responses' # <<>>
         /\ LastResponse'.status = LastResponse.status
         /\ \A name \in Names_ :
              LastResponse'.headers[name] =
                IF make_name[line.raw] = name
                THEN LastResponse.headers[name] \o <<line.value>>
                ELSE LastResponse.headers[name]
<1> DEFINE n == Len(m_responses)  r == m_responses[n]  at == make_name[line.raw]
           merged == [r.headers EXCEPT ![at] = @ \o <<line.value>>]
           new == [r EXCEPT !.headers = merged]
<1>1. n \in Nat /\ n # 0 /\ n \in 1..n BY DEF HttpTyped
<1>2. r \in Responses
  <2> HIDE DEF n
  <2> QED BY <1>1, ElementOfSeq DEF HttpTyped, n
<1>3. at \in Names_ BY TransfersAssumption DEF Names_
<1>4. r.status \in Statuses /\ r.headers \in [Names_ -> Seq(Values)]
  BY <1>2 DEF Responses
<1>5. <<line.value>> \in Seq(Values)
  <2>1. line.value \in Values BY DEF Values
  <2> QED BY <2>1
<1>6. m_responses' = [m_responses EXCEPT ![n] = new] BY DEF merge_insert
<1> HIDE DEF r, at
<1>7. r.headers[at] \o <<line.value>> \in Seq(Values)
  <2>1. r.headers[at] \in Seq(Values) BY <1>3, <1>4
  <2> QED BY <1>5, <2>1, ConcatProperties
<1>8. /\ merged \in [Names_ -> Seq(Values)]
      /\ \A name \in Names_ : merged[name] =
           IF at = name THEN r.headers[name] \o <<line.value>> ELSE r.headers[name]
  BY <1>3, <1>4, <1>7
<1> HIDE DEF merged
<1>9. new \in Responses /\ new.status = r.status /\ new.headers = merged
  BY <1>2, <1>8 DEF Responses
<1> HIDE DEF new, n
<1>10. /\ m_responses' \in Seq(Responses) /\ Len(m_responses') = n
       /\ m_responses'[n] = new
  <2>1. m_responses \in Seq(Responses) /\ n \in 1..Len(m_responses)
    BY <1>1 DEF HttpTyped, n
  <2> QED BY <1>6, <1>9, <2>1, ExceptSeq DEF n
<1>11. LastResponse = r /\ LastResponse' = new BY <1>10 DEF LastResponse, r, n
<1>12. m_responses' # <<>> BY <1>1, <1>10
<1> QED BY <1>8, <1>9, <1>10, <1>11, <1>12 DEF at

(* A line that is heard is a new status line, or leaves those that were. *)
LEMMA StatusLinesAre ==
  ASSUME HttpTyped, NEW line \in Lines, heard' = Append(heard, line)
  PROVE  /\ Len(heard) \in Nat /\ StatusLines \in SUBSET (1..Len(heard))
         /\ \A k \in StatusLines : k \in Nat /\ k <= Len(heard) /\ heard'[k] = heard[k]
         /\ heard'[Len(heard) + 1] = line
         /\ StatusLines' = IF line.kind = "status" THEN StatusLines \cup {Len(heard) + 1}
                           ELSE StatusLines
<1> DEFINE L == Len(heard)
<1>1. L \in Nat /\ DOMAIN heard = 1..L BY DEF HttpTyped
<1>2. /\ heard' \in Seq(Lines) /\ Len(heard') = L + 1
      /\ \A k \in 1..L : heard'[k] = heard[k]
      /\ heard'[L + 1] = line
  BY AppendProperties DEF HttpTyped
<1>3. DOMAIN heard' = 1..(L + 1) BY <1>1, <1>2
<1>4. StatusLines = {k \in 1..L : heard[k].kind = "status"} BY <1>1 DEF StatusLines
<1>5. StatusLines' = {k \in 1..(L + 1) : heard'[k].kind = "status"}
  BY <1>3 DEF StatusLines
<1>6. /\ \A k \in 1..(L + 1) : k \in 1..L \/ k = L + 1
      /\ \A k \in 1..L : k \in 1..(L + 1)
      /\ L + 1 \in 1..(L + 1) /\ \A k \in 1..L : k \in Nat /\ k <= L
  BY <1>1
<1> HIDE DEF L
<1>7. StatusLines' = IF line.kind = "status" THEN StatusLines \cup {L + 1} ELSE StatusLines
  BY <1>2, <1>4, <1>5, <1>6
<1> QED BY <1>1, <1>2, <1>4, <1>6, <1>7 DEF L

(* Nothing has come after the last line. *)
LEMMA NothingAfter ==
  ASSUME HttpTyped', NEW k \in Nat, k = Len(heard'), NEW name
  PROVE  ValuesAfter(k, name)' = <<>>
<1> DEFINE H == HeadersAfter(k, name)'
<1>1. DOMAIN heard' = 1..k BY DEF HttpTyped
<1>2. \A j \in 1..k : ~(j > k) OBVIOUS
<1>3. H = {} BY <1>1, <1>2 DEF HeadersAfter
<1>4. Cardinality(H) = 0 BY <1>3, FS_EmptySet
<1>5. ValuesAfter(k, name)' = [i \in 1..Cardinality(H) |-> heard'[Nth(H, i)].value]
  BY DEF ValuesAfter
<1> HIDE DEF H
<1>6. 1..0 = {} OBVIOUS
<1>7. ValuesAfter(k, name)' \in [1..0 -> {}] BY <1>4, <1>5, <1>6
<1>8. 0 \in Nat OBVIOUS
<1>9. ValuesAfter(k, name)' \in Seq({}) /\ Len(ValuesAfter(k, name)') = 0
  BY <1>7, <1>8, SeqMade
<1> QED BY <1>9

(* The callback keeps the last response like the last head heard. *)
LEMMA LineHeard ==
  ASSUME HttpInv, parse_header_callback
  PROVE  HttpInv'
<1> DEFINE line == Head(transfer)  L == Len(heard)
<1>0. HttpTyped /\ HeadsInv /\ ReplyInv BY DEF HttpInv
<1>1. /\ doing # "idle" /\ transfer # <<>> /\ Parses(line) /\ parse(line)
      /\ transfer' = Tail(transfer) /\ heard' = Append(heard, line)
      /\ doing' = doing /\ reply' = reply
  BY DEF parse_header_callback
<1>2. line \in Lines /\ transfer' \in Seq(Lines)
  BY <1>0, <1>1, HeadTailProperties DEF HttpTyped
<1>3. line.kind \in {"status", "blank", "header"} BY <1>1 DEF Parses
<1>4. \/ /\ line.kind = "status"
         /\ m_responses' = Append(m_responses, [status |-> line.status, headers |-> NoHeaders])
      \/ /\ line.kind = "header" /\ m_responses # <<>>
         /\ m_responses' = [m_responses EXCEPT ![Len(m_responses)].headers =
                              merge_insert(@, make_name[line.raw], <<line.value>>)]
      \/ line.kind = "blank" /\ m_responses' = m_responses
  <2>1. CASE line.kind = "status" BY <1>1, <2>1, Zenon DEF parse
  <2>2. CASE line.kind = "header"
    <3>1. "header" # "status" OBVIOUS
    <3>2. m_responses # <<>> BY <1>1, <2>2 DEF Parses
    <3> QED BY <1>1, <2>2, <3>1, <3>2, Zenon DEF parse
  <2>3. CASE line.kind = "blank"
    <3>1. "blank" # "status" /\ "blank" # "header" OBVIOUS
    <3> QED BY <1>1, <2>3, <3>1, Zenon DEF parse
  <2> QED BY <1>3, <2>1, <2>2, <2>3
<1> HIDE DEF line
<1>5. /\ L \in Nat /\ StatusLines \in SUBSET (1..L)
      /\ \A k \in StatusLines : k \in Nat /\ k <= L /\ heard'[k] = heard[k]
      /\ heard'[L + 1] = line
      /\ StatusLines' = IF line.kind = "status" THEN StatusLines \cup {L + 1} ELSE StatusLines
  BY <1>0, <1>1, <1>2, StatusLinesAre
<1>6. /\ heard' \in Seq(Lines) /\ Len(heard') = L + 1
      /\ \A k \in 1..L : heard'[k] = heard[k]
  BY <1>0, <1>1, <1>2, AppendProperties DEF HttpTyped
<1>7. \A k \in 1..Len(heard') : heard'[k].kind \in {"status", "blank", "header"}
  <2>1. \A k \in 1..(L + 1) : k \in 1..L \/ k = L + 1 BY <1>5
  <2> QED BY <1>0, <1>3, <1>5, <1>6, <2>1 DEF HttpTyped
<1>8. reply'.done = "none" BY <1>0, <1>1 DEF ReplyInv
<1>9. ReplyInv' BY <1>1, <1>8 DEF ReplyInv
<1>10. CASE line.kind = "status"
  <2> DEFINE r == [status |-> line.status, headers |-> NoHeaders]
  <2>1. m_responses' = Append(m_responses, r)
    <3>1. "status" # "header" /\ "status" # "blank" OBVIOUS
    <3> QED BY <1>4, <1>10, <3>1
  <2>2. r \in Responses
    <3>1. line.status \in Statuses BY <1>2, <1>10 DEF Statuses
    <3>2. <<>> \in Seq(Values) OBVIOUS
    <3>3. NoHeaders \in [Names_ -> Seq(Values)] BY <3>2 DEF NoHeaders
    <3> QED BY <3>1, <3>3 DEF Responses
  <2>3. /\ m_responses' \in Seq(Responses) /\ m_responses' # <<>>
        /\ m_responses'[Len(m_responses')] = r
    <3> HIDE DEF r
    <3>1. /\ m_responses' \in Seq(Responses) /\ m_responses' # <<>>
          /\ Len(m_responses') = Len(m_responses) + 1
          /\ m_responses'[Len(m_responses) + 1] = r
      BY <1>0, <2>1, <2>2, AppendProperties DEF HttpTyped
    <3> QED BY <3>1
  <2>4. LastResponse' = r BY <2>3 DEF LastResponse
  <2>5. HttpTyped' BY <1>2, <1>6, <1>7, <2>3 DEF HttpTyped
  <2>6. PICK k \in Nat : k = L + 1 BY <1>5
  <2>7. StatusLines' = StatusLines \cup {k} BY <1>5, <1>10, <2>6
  <2>8. \A j \in StatusLines' : j <= k /\ j \in Nat BY <1>5, <2>6, <2>7
  <2>9. IsLast(k)' BY <2>7, <2>8 DEF IsLast
  <2>10. ASSUME NEW j \in StatusLines', IsLast(j)' PROVE j = k
    <3>1. k <= j BY <2>7, <2>10 DEF IsLast
    <3>2. j <= k /\ j \in Nat BY <2>8
    <3> QED BY <2>6, <3>1, <3>2
  <2>11. \A name \in Names_ : r.headers[name] = ValuesAfter(k, name)'
    <3> SUFFICES ASSUME NEW name \in Names_ PROVE r.headers[name] = ValuesAfter(k, name)'
      OBVIOUS
    <3>1. k = Len(heard') BY <1>6, <2>6
    <3>2. ValuesAfter(k, name)' = <<>> BY <2>5, <3>1, NothingAfter
    <3>3. NoHeaders[name] = <<>> BY DEF NoHeaders
    <3> QED BY <3>2, <3>3
  <2>12. r.status = heard'[k].status BY <1>5, <2>6
  <2> HIDE DEF r
  <2>13. HeadsInv'
    <3>1. \E j \in StatusLines' : IsLast(j)' BY <2>7, <2>9
    <3>2. \A j \in StatusLines' : IsLast(j)' =>
            /\ LastResponse'.status = heard'[j].status
            /\ \A name \in Names_ : LastResponse'.headers[name] = ValuesAfter(j, name)'
      BY <2>4, <2>10, <2>11, <2>12
    <3> QED BY <2>3, <3>1, <3>2 DEF HeadsInv
  <2> QED BY <1>9, <2>5, <2>13 DEF HttpInv
<1>11. CASE line.kind = "header" \/ line.kind = "blank"
  <2>1. StatusLines' = StatusLines
    <3>1. line.kind # "status" BY <1>11
    <3> QED BY <1>5, <3>1
  <2>2. \A k \in StatusLines : IsLast(k)' <=> IsLast(k) BY <2>1 DEF IsLast
  <2>3. \A k \in StatusLines, name \in Names_ : ValuesAfter(k, name)' =
          IF line.kind = "header" /\ make_name[line.raw] = name
          THEN ValuesAfter(k, name) \o <<line.value>> ELSE ValuesAfter(k, name)
    <3> SUFFICES ASSUME NEW k \in StatusLines, NEW name \in Names_
                 PROVE  ValuesAfter(k, name)' =
                          IF line.kind = "header" /\ make_name[line.raw] = name
                          THEN ValuesAfter(k, name) \o <<line.value>> ELSE ValuesAfter(k, name)
      OBVIOUS
    <3>1. k \in Nat /\ k <= Len(heard) BY <1>5
    <3> QED BY <1>0, <1>1, <1>2, <3>1, ValuesAdded
  <2>4. CASE line.kind = "blank"
    <3>1. m_responses' = m_responses /\ ~(line.kind = "header")
      <4>1. "blank" # "header" /\ "blank" # "status" OBVIOUS
      <4> QED BY <1>4, <2>4, <4>1
    <3>2. \A k \in StatusLines, name \in Names_ : ValuesAfter(k, name)' = ValuesAfter(k, name)
      BY <2>3, <3>1
    <3>3. LastResponse' = LastResponse BY <3>1 DEF LastResponse
    <3>4. HeadsInv' BY <1>0, <1>5, <2>1, <2>2, <3>1, <3>2, <3>3 DEF HeadsInv
    <3>5. HttpTyped' BY <1>0, <1>2, <1>6, <1>7, <3>1 DEF HttpTyped
    <3> QED BY <1>9, <3>4, <3>5 DEF HttpInv
  <2>5. CASE line.kind = "header"
    <3>1. /\ m_responses # <<>>
          /\ m_responses' = [m_responses EXCEPT ![Len(m_responses)].headers =
                               merge_insert(@, make_name[line.raw], <<line.value>>)]
      <4>1. "header" # "blank" /\ "header" # "status" OBVIOUS
      <4> QED BY <1>4, <2>5, <4>1
    <3>2. /\ m_responses' \in Seq(Responses) /\ m_responses' # <<>>
          /\ LastResponse'.status = LastResponse.status
          /\ \A name \in Names_ :
               LastResponse'.headers[name] =
                 IF make_name[line.raw] = name
                 THEN LastResponse.headers[name] \o <<line.value>>
                 ELSE LastResponse.headers[name]
      BY <1>0, <1>2, <2>5, <3>1, HeaderMerged
    <3>3. ASSUME NEW k \in StatusLines, IsLast(k)'
          PROVE  /\ LastResponse'.status = heard'[k].status
                 /\ \A name \in Names_ : LastResponse'.headers[name] = ValuesAfter(k, name)'
      <4>1. /\ LastResponse.status = heard[k].status
            /\ \A name \in Names_ : LastResponse.headers[name] = ValuesAfter(k, name)
        BY <1>0, <2>2, <3>3 DEF HeadsInv
      <4>2. heard'[k] = heard[k] BY <1>5
      <4>3. \A name \in Names_ : LastResponse'.headers[name] = ValuesAfter(k, name)'
        BY <2>3, <2>5, <3>2, <4>1
      <4> QED BY <3>2, <4>1, <4>2, <4>3
    <3>4. HeadsInv' BY <1>0, <2>1, <2>2, <3>2, <3>3 DEF HeadsInv
    <3>5. HttpTyped' BY <1>2, <1>6, <1>7, <3>2 DEF HttpTyped
    <3> QED BY <1>9, <3>4, <3>5 DEF HttpInv
  <2> QED BY <1>11, <2>4, <2>5
<1> QED BY <1>3, <1>10, <1>11

----------------------------------------------------------------------------
(* Every reply is read from its own head *)

(* The invariant holds at first. *)
LEMMA HttpInvInit == HttpInit => HttpInv
<1> SUFFICES ASSUME HttpInit PROVE HttpInv OBVIOUS
<1>1. heard = <<>> /\ transfer = <<>> /\ m_responses = <<>> BY DEF HttpInit
<1>2. heard \in Seq(Lines) /\ transfer \in Seq(Lines) /\ m_responses \in Seq(Responses)
  BY <1>1
<1>3. Len(heard) = 0 /\ DOMAIN heard = {} BY <1>1
<1>4. HttpTyped BY <1>2, <1>3 DEF HttpTyped
<1>5. StatusLines = {} BY <1>3 DEF StatusLines
<1>6. reply.done = "none" BY DEF HttpInit, NoReply
<1>7. HeadsInv /\ ReplyInv BY <1>5, <1>6 DEF HeadsInv, ReplyInv
<1> QED BY <1>4, <1>7 DEF HttpInv

(* What a step that hears nothing keeps. *)
LEMMA HeadsKept ==
  ASSUME HttpInv, UNCHANGED <<m_responses, heard>>
  PROVE  HeadsInv'
<1>1. StatusLines' = StatusLines /\ LastResponse' = LastResponse
  BY DEF StatusLines, LastResponse
<1>2. \A k : IsLast(k)' <=> IsLast(k) BY <1>1 DEF IsLast
<1>3. \A k, name : ValuesAfter(k, name)' = ValuesAfter(k, name)
  BY DEF ValuesAfter, HeadersAfter
<1> QED BY <1>1, <1>2, <1>3 DEF HttpInv, HeadsInv

(* The invariant is kept by every step. *)
LEMMA HttpInvNext == HttpInv /\ [HttpNext]_httpVars => HttpInv'
<1> SUFFICES ASSUME HttpInv, [HttpNext]_httpVars PROVE HttpInv' OBVIOUS
<1>0. HttpTyped /\ HeadsInv /\ ReplyInv BY DEF HttpInv
<1>1. CASE UNCHANGED httpVars
  <2> USE <1>1 DEF httpVars
  <2>1. HttpTyped' BY <1>0 DEF HttpTyped
  <2>2. HeadsInv' BY HeadsKept
  <2>3. ReplyInv' BY <1>0 DEF ReplyInv, LastResponse
  <2> QED BY <2>1, <2>2, <2>3 DEF HttpInv
<1>2. ASSUME NEW how \in {"perform", "check_perform"}, NEW lines \in Transfers,
             Perform(how, lines)
      PROVE  HttpInv'
  <2>1. /\ transfer' = lines /\ heard' = <<>> /\ reply' = NoReply
        /\ m_responses' = m_responses
    BY <1>2 DEF Perform
  <2>2. lines \in Seq(Lines) BY TransfersAssumption
  <2>3. heard' \in Seq(Lines) /\ Len(heard') = 0 /\ DOMAIN heard' = {} BY <2>1
  <2>4. HttpTyped' BY <1>0, <2>1, <2>2, <2>3 DEF HttpTyped
  <2>5. StatusLines' = {} BY <2>3 DEF StatusLines
  <2>6. reply'.done = "none" BY <2>1 DEF NoReply
  <2>7. HeadsInv' /\ ReplyInv' BY <2>5, <2>6 DEF HeadsInv, ReplyInv
  <2> QED BY <2>4, <2>7 DEF HttpInv
<1>3. CASE parse_header_callback BY <1>3, LineHeard
<1>4. CASE Fails
  <2>1. /\ doing' = "idle" /\ transfer' = <<>> /\ heard' = heard
        /\ reply' = [done |-> "easy_error", status |-> NoStatus]
        /\ m_responses' = m_responses
    BY <1>4 DEF Fails
  <2>2. <<>> \in Seq(Lines) OBVIOUS
  <2>3. HttpTyped' BY <1>0, <2>1, <2>2 DEF HttpTyped
  <2>4. HeadsInv' BY <2>1, HeadsKept
  <2>5. reply'.done = "easy_error" BY <2>1
  <2>6. ReplyInv' BY <2>1, <2>5 DEF ReplyInv
  <2> QED BY <2>3, <2>4, <2>6 DEF HttpInv
<1>5. CASE Answered
  <2>1. doing' = "idle" /\ UNCHANGED <<m_responses, transfer, heard>>
    BY <1>5 DEF Answered
  <2>2. HttpTyped' BY <1>0, <2>1 DEF HttpTyped
  <2>3. HeadsInv' BY <2>1, HeadsKept
  <2>4. ReplyInv'
    <3>1. CASE m_responses = <<>>
      <4>1. reply' = [done |-> "aborted", status |-> NoStatus] BY <1>5, <3>1 DEF Answered
      <4>2. reply'.done = "aborted" BY <4>1
      <4> QED BY <2>1, <4>2 DEF ReplyInv
    <3>2. CASE m_responses # <<>>
      <4>1. reply'.status = LastResponse.status BY <1>5, <3>2 DEF Answered
      <4>2. LastResponse' = LastResponse BY <2>1 DEF LastResponse
      <4> QED BY <2>1, <3>2, <4>1, <4>2 DEF ReplyInv
    <3> QED BY <3>1, <3>2
  <2> QED BY <2>2, <2>3, <2>4 DEF HttpInv
<1> QED BY <1>1, <1>2, <1>3, <1>4, <1>5 DEF HttpNext

(* The invariant says what a reply is told by. *)
LEMMA HeardRight == HttpInv => HttpHeard
<1> SUFFICES ASSUME HttpInv, reply.done \in {"returned", "not_ok_status_error"},
                    StatusLines # {}
             PROVE  LET last == CHOOSE k \in StatusLines : \A j \in StatusLines : j <= k IN
                    /\ reply.status = heard[last].status
                    /\ \A name \in Names_ :
                         LastResponse.headers[name] = ValuesAfter(last, name)
                    /\ \A k \in DOMAIN heard : heard[k].kind # "bad"
  BY DEF HttpHeard
<1> DEFINE last == CHOOSE k \in StatusLines : \A j \in StatusLines : j <= k
<1>1. HttpTyped /\ HeadsInv /\ ReplyInv BY DEF HttpInv
<1>2. \E k \in StatusLines : \A j \in StatusLines : j <= k BY <1>1 DEF HeadsInv, IsLast
<1>3. last \in StatusLines /\ \A j \in StatusLines : j <= last BY <1>2
<1> HIDE DEF last
<1>4. IsLast(last) BY <1>3 DEF IsLast
<1>5. \A k \in DOMAIN heard : heard[k].kind # "bad"
  <2>1. DOMAIN heard = 1..Len(heard) BY <1>1 DEF HttpTyped
  <2>2. "bad" \notin {"status", "blank", "header"} OBVIOUS
  <2> QED BY <1>1, <2>1, <2>2 DEF HttpTyped
<1>6. /\ reply.status = heard[last].status
      /\ \A name \in Names_ : LastResponse.headers[name] = ValuesAfter(last, name)
  BY <1>1, <1>3, <1>4 DEF HeadsInv, ReplyInv
<1> QED BY <1>5, <1>6 DEF last

(* For any servers, redirects, errors and number of requests: the reply has  *)
(* the status of the last head of its own transfer, with all the headers     *)
(* after it, and nothing was passed over.                                    *)
(* (client.cpp:78-82, header_parser.cpp:36-46, header_set.cpp:5-12)          *)
THEOREM RepliesAreHeard == HttpSpec => []HttpHeard
<1>1. HttpSpec => []HttpInv BY HttpInvInit, HttpInvNext, PTL DEF HttpSpec
<1> QED BY <1>1, HeardRight, PTL

----------------------------------------------------------------------------
(* The handles and options of bunsan::curl::easy *)

(* An option of an easy sets the id that it is stored for. *)
Stores(values) ==
  /\ values \in [Ids -> Objects \cup {Unset}]
  /\ \A i \in Ids : values[i] # Unset => i \in values[i].ids

CurlHandles == [private : Easies \cup {NoHandle},
                opt : [Ids -> Objects \cup {Own, Unset}], live : BOOLEAN]

(* What libcurl points at is among the options stored, and sets the id. *)
PointsAt(opt, values) ==
  \A i \in Ids : opt[i] \in Objects =>
    i \in opt[i].ids /\ \E j \in Ids : values[j] = opt[i]

Serves(handle, e, values) ==
  handle.live /\ handle.private \in {e, NoHandle} /\ PointsAt(handle.opt, values)

EasyTyped ==
  /\ m_curl \in [Easies -> (1..Len(easy_handles)) \cup {NoHandle, Dead}]
  /\ DOMAIN m_options = Easies /\ \A e \in Easies : Stores(m_options[e])
  /\ easy_handles \in Seq(CurlHandles) /\ Len(easy_handles) <= MaxHandles

EasyServed ==
  \A e \in Easies : Valid(e) => Serves(easy_handles[m_curl[e]], e, m_options[e])
EasyAlone ==
  \A e, f \in Easies : Valid(e) /\ m_curl[e] = m_curl[f] => e = f

EasyInv == EasyTyped /\ EasyServed /\ EasyAlone

(* Neither Unset nor Own is an option object. *)
LEMMA Kinds ==
  /\ Unset \notin Objects /\ Own \notin Objects
  /\ \A o \in Objects : o.n \in 1..MaxObjects /\ o.ids \in ByWrapper
  /\ \A n \in 1..MaxObjects, ids \in ByWrapper : [n |-> n, ids |-> ids] \in Objects
  /\ \A ids \in ByWrapper : ids \in SUBSET Ids
<1>1. /\ Unset.n = 0 /\ Own.n = 0 /\ 0 \notin 1..MaxObjects BY EasyBounds DEF Unset, Own
<1>2. Ids = {"POSTFIELDS", "HTTPHEADER", "POSTFIELDSIZE"}
  <2>1. DOMAIN IdOrder = 1..3 /\ 1..3 = {1, 2, 3} BY DEF IdOrder
  <2>2. IdOrder[1] = "POSTFIELDS" /\ IdOrder[2] = "HTTPHEADER" /\ IdOrder[3] = "POSTFIELDSIZE"
    BY DEF IdOrder
  <2> QED BY <2>1, <2>2 DEF Ids
<1>3. \A ids \in ByWrapper : ids \in SUBSET Ids BY <1>2 DEF ByWrapper
<1>4. \A o \in Objects : o.n \in 1..MaxObjects /\ o.ids \in ByWrapper BY DEF Objects
<1>5. \A n \in 1..MaxObjects, ids \in ByWrapper : [n |-> n, ids |-> ids] \in Objects
  BY DEF Objects
<1> QED BY <1>1, <1>3, <1>4, <1>5

(* An easy is valid if it holds a handle, and it is not null. *)
LEMMA ValidIs ==
  ASSUME EasyTyped
  PROVE  /\ DOMAIN easy_handles = 1..Len(easy_handles) /\ Len(easy_handles) \in Nat
         /\ NoHandle \notin DOMAIN easy_handles /\ Dead \notin DOMAIN easy_handles
         /\ \A e \in Easies : Valid(e) <=> m_curl[e] \notin {NoHandle, Dead}
<1>1. PICK L \in Nat : L = Len(easy_handles) /\ DOMAIN easy_handles = 1..L BY DEF EasyTyped
<1>2. L <= MaxHandles BY <1>1 DEF EasyTyped
<1>3. 1..L \subseteq 1..MaxHandles BY <1>1, <1>2, EasyBounds
<1>4. NoHandle \notin 1..L /\ Dead \notin 1..L BY <1>3, NoHandleAssumption
<1> QED BY <1>1, <1>4 DEF EasyTyped, Valid

(* The same after a step. *)
LEMMA ValidIsThen ==
  ASSUME EasyTyped'
  PROVE  \A e \in Easies : Valid(e)' <=> m_curl'[e] \notin {NoHandle, Dead}
<1>1. PICK L \in Nat : L = Len(easy_handles') /\ DOMAIN easy_handles' = 1..L BY DEF EasyTyped
<1>2. L <= MaxHandles BY <1>1 DEF EasyTyped
<1>3. 1..L \subseteq 1..MaxHandles BY <1>1, <1>2, EasyBounds
<1>4. NoHandle \notin 1..L /\ Dead \notin 1..L BY <1>3, NoHandleAssumption
<1> QED BY <1>1, <1>4 DEF EasyTyped, Valid

(* What the invariant says of a valid easy. *)
LEMMA ServedHandle ==
  ASSUME EasyInv, NEW e \in Easies, Valid(e)
  PROVE  /\ m_curl[e] \in 1..Len(easy_handles)
         /\ easy_handles[m_curl[e]] \in CurlHandles
         /\ Serves(easy_handles[m_curl[e]], e, m_options[e])
         /\ \A g \in Easies \ {e} : m_curl[g] # m_curl[e]
<1>1. m_curl[e] \in 1..Len(easy_handles) BY ValidIs DEF EasyInv, Valid
<1>2. easy_handles[m_curl[e]] \in CurlHandles BY <1>1, ElementOfSeq DEF EasyInv, EasyTyped
<1> QED BY <1>1, <1>2 DEF EasyInv, EasyServed, EasyAlone

(* No option at all is stored, and nothing pointed at. *)
LEMMA NothingStored ==
  /\ Stores(NoOptions) /\ NoOptions \in [Ids -> Objects \cup {Own, Unset}]
  /\ \A values : PointsAt(NoOptions, values)
BY Kinds DEF Stores, PointsAt, NoOptions

(* One easy gets another handle and other options; the others keep theirs, *)
(* and their handles are as they were.                                     *)
LEMMA OthersServed ==
  ASSUME EasyInv, EasyTyped', NEW e \in Easies,
         \A g \in Easies \ {e} : m_curl'[g] = m_curl[g] /\ m_options'[g] = m_options[g],
         \A g \in Easies \ {e} : Valid(g) => easy_handles'[m_curl[g]] = easy_handles[m_curl[g]],
         Valid(e)' => /\ Serves(easy_handles'[m_curl'[e]], e, m_options'[e])
                      /\ \A g \in Easies \ {e} : m_curl[g] # m_curl'[e]
  PROVE  EasyInv'
<1>1. \A g \in Easies : Valid(g) <=> m_curl[g] \notin {NoHandle, Dead}
  BY ValidIs DEF EasyInv
<1>2. \A g \in Easies : Valid(g)' <=> m_curl'[g] \notin {NoHandle, Dead}
  BY ValidIsThen
<1>3. \A g \in Easies \ {e} : Valid(g)' <=> Valid(g) BY <1>1, <1>2
<1>4. ASSUME NEW g \in Easies, Valid(g)'
      PROVE  Serves(easy_handles'[m_curl'[g]], g, m_options'[g])
  <2>1. CASE g = e BY <1>4, <2>1
  <2>2. CASE g # e
    <3>1. Valid(g) BY <1>3, <1>4, <2>2
    <3>2. Serves(easy_handles[m_curl[g]], g, m_options[g]) BY <3>1 DEF EasyInv, EasyServed
    <3> QED BY <2>2, <3>1, <3>2
  <2> QED BY <2>1, <2>2
<1>5. ASSUME NEW g \in Easies, NEW f \in Easies, Valid(g)', m_curl'[g] = m_curl'[f]
      PROVE  g = f
  <2>1. Valid(f)' BY <1>2, <1>5
  <2>2. CASE g = e \/ f = e BY <1>5, <2>1, <2>2
  <2>3. CASE g # e /\ f # e
    <3>1. Valid(g) /\ m_curl[g] = m_curl[f] BY <1>3, <1>5, <2>3
    <3> QED BY <3>1 DEF EasyInv, EasyAlone
  <2> QED BY <2>2, <2>3
<1>6. EasyServed' BY <1>4 DEF EasyServed
<1>7. EasyAlone' BY <1>5, Zenon DEF EasyAlone
<1> QED BY <1>6, <1>7 DEF EasyInv

(* The easy handle h is another; the number of handles is the same. *)
LEMMA HandleSet ==
  ASSUME EasyInv, NEW h \in 1..Len(easy_handles), NEW new \in CurlHandles,
         easy_handles' = [easy_handles EXCEPT ![h] = new]
  PROVE  /\ easy_handles' \in Seq(CurlHandles) /\ Len(easy_handles') = Len(easy_handles)
         /\ easy_handles'[h] = new
         /\ \A k \in 1..Len(easy_handles) : k # h => easy_handles'[k] = easy_handles[k]
BY ExceptSeq DEF EasyInv, EasyTyped

----------------------------------------------------------------------------
(* Making, ending and resetting an easy *)

(* A new easy has a handle that points at nothing. *)
LEMMA ConstructKeeps ==
  ASSUME EasyInv, NEW e \in Easies, Construct(e)
  PROVE  EasyInv'
<1>1. PICK L \in Nat : L = Len(easy_handles) /\ easy_handles \in Seq(CurlHandles)
  BY DEF EasyInv, EasyTyped
<1>2. /\ L < MaxHandles /\ easy_handles' = Append(easy_handles, Fresh(e))
      /\ m_curl' = [m_curl EXCEPT ![e] = L + 1] /\ UNCHANGED m_options
      /\ m_curl[e] = Dead
  BY <1>1 DEF Construct, CanMake
<1>3. /\ Fresh(e) \in CurlHandles /\ Fresh(e).live /\ Fresh(e).private = e
      /\ Fresh(e).opt = NoOptions
  BY NothingStored DEF Fresh, CurlHandles
<1>4. /\ easy_handles' \in Seq(CurlHandles) /\ Len(easy_handles') = L + 1
      /\ easy_handles'[L + 1] = Fresh(e)
      /\ \A k \in 1..L : easy_handles'[k] = easy_handles[k]
  BY <1>1, <1>2, <1>3
<1>5. L + 1 <= MaxHandles BY <1>2, EasyBounds
<1>6. 1..L \subseteq 1..(L + 1) /\ L + 1 \in 1..(L + 1) /\ L + 1 \notin 1..L BY <1>1
<1>7. L + 1 # NoHandle /\ L + 1 # Dead BY <1>5, <1>1, EasyBounds, NoHandleAssumption
<1>8. /\ m_curl' \in [Easies -> (1..(L + 1)) \cup {NoHandle, Dead}] /\ m_curl'[e] = L + 1
      /\ \A g \in Easies \ {e} : m_curl'[g] = m_curl[g]
      /\ \A g \in Easies : m_curl[g] # L + 1
  BY <1>1, <1>2, <1>6, <1>7 DEF EasyInv, EasyTyped
<1>9. EasyTyped' BY <1>2, <1>4, <1>5, <1>8 DEF EasyInv, EasyTyped
<1>10. \A g \in Easies : Valid(g) => easy_handles'[m_curl[g]] = easy_handles[m_curl[g]]
  BY <1>1, <1>4, ServedHandle
<1>11. Serves(Fresh(e), e, m_options'[e]) BY <1>3, NothingStored DEF Serves
<1> QED BY <1>2, <1>4, <1>8, <1>9, <1>10, <1>11, OthersServed

(* A null easy has none. *)
LEMMA ConstructNullKeeps ==
  ASSUME EasyInv, NEW e \in Easies, ConstructNull(e)
  PROVE  EasyInv'
<1>1. m_curl' = [m_curl EXCEPT ![e] = NoHandle] /\ UNCHANGED <<m_options, easy_handles>>
  BY DEF ConstructNull
<1>2. m_curl'[e] = NoHandle /\ \A g \in Easies \ {e} : m_curl'[g] = m_curl[g]
  BY <1>1 DEF EasyInv, EasyTyped
<1>3. EasyTyped' BY <1>1 DEF EasyInv, EasyTyped
<1>4. ~Valid(e)' BY <1>2, <1>3, ValidIsThen
<1> QED BY <1>1, <1>2, <1>3, <1>4, OthersServed

(* curl_easy_reset() makes the handle point at nothing, as its easy holds *)
(* nothing.                                                               *)
LEMMA ResetKeeps ==
  ASSUME EasyInv, NEW e \in Easies, Reset(e)
  PROVE  EasyInv'
<1> DEFINE h == m_curl[e]
           new == [easy_handles[h] EXCEPT !.opt = NoOptions, !.private = NoHandle]
<1>1. /\ Valid(e) /\ UNCHANGED m_curl /\ m_options' = [m_options EXCEPT ![e] = NoOptions]
      /\ easy_handles' = [easy_handles EXCEPT ![h].opt = NoOptions, ![h].private = NoHandle]
  BY DEF Reset
<1>2. /\ h \in 1..Len(easy_handles) /\ easy_handles[h] \in CurlHandles
      /\ easy_handles[h].live /\ \A g \in Easies \ {e} : m_curl[g] # h
  BY <1>1, ServedHandle DEF Serves
<1>3. /\ new \in CurlHandles /\ new.live /\ new.private = NoHandle /\ new.opt = NoOptions
  BY <1>2, NothingStored DEF CurlHandles
<1>4. easy_handles' = [easy_handles EXCEPT ![h] = new] BY <1>1, <1>2 DEF EasyInv, EasyTyped
<1> HIDE DEF new
<1>5. /\ easy_handles' \in Seq(CurlHandles) /\ Len(easy_handles') = Len(easy_handles)
      /\ easy_handles'[h] = new
      /\ \A k \in 1..Len(easy_handles) : k # h => easy_handles'[k] = easy_handles[k]
  BY <1>2, <1>3, <1>4, HandleSet
<1>6. /\ DOMAIN m_options' = Easies /\ m_options'[e] = NoOptions
      /\ \A g \in Easies \ {e} : m_options'[g] = m_options[g]
  BY <1>1 DEF EasyInv, EasyTyped
<1>7. EasyTyped' BY <1>1, <1>5, <1>6, NothingStored DEF EasyInv, EasyTyped
<1>8. \A g \in Easies \ {e} : Valid(g) => easy_handles'[m_curl[g]] = easy_handles[m_curl[g]]
  BY <1>2, <1>5, ServedHandle
<1>9. Serves(new, e, NoOptions) BY <1>3, NothingStored DEF Serves
<1>10. Serves(easy_handles'[m_curl'[e]], e, m_options'[e]) BY <1>1, <1>5, <1>6, <1>9
<1>11. \A g \in Easies \ {e} : m_curl'[g] = m_curl[g] /\ m_curl[g] # m_curl'[e] BY <1>1, <1>2
<1> QED BY <1>6, <1>7, <1>8, <1>10, <1>11, OthersServed

(* The handle of an easy is cleaned up; no other easy has it. *)
LEMMA CleanupIs ==
  ASSUME EasyInv, NEW e \in Easies
  PROVE  /\ Cleanup(easy_handles, e) \in Seq(CurlHandles)
         /\ Len(Cleanup(easy_handles, e)) = Len(easy_handles)
         /\ \A g \in Easies \ {e} :
              Valid(g) => Cleanup(easy_handles, e)[m_curl[g]] = easy_handles[m_curl[g]]
<1>1. CASE ~Valid(e) BY <1>1 DEF Cleanup, EasyInv, EasyTyped
<1>2. CASE Valid(e)
  <2>1. m_curl[e] \in 1..Len(easy_handles) /\ \A g \in Easies \ {e} : m_curl[g] # m_curl[e]
    BY <1>2, ServedHandle
  <2>2. CleanedUp \in CurlHandles BY NothingStored DEF CleanedUp, CurlHandles
  <2>3. Cleanup(easy_handles, e) = [easy_handles EXCEPT ![m_curl[e]] = CleanedUp]
    BY <1>2 DEF Cleanup
  <2>4. \A g \in Easies : Valid(g) => m_curl[g] \in 1..Len(easy_handles) BY ServedHandle
  <2>5. easy_handles \in Seq(CurlHandles) BY DEF EasyInv, EasyTyped
  <2> QED BY <2>1, <2>2, <2>3, <2>4, <2>5, ExceptSeq
<1> QED BY <1>1, <1>2

(* The end of an easy, or its assignment of nullptr. *)
LEMMA EndEasyKeeps ==
  ASSUME EasyInv, NEW e \in Easies, NEW to \in {NoHandle, Dead}, EndEasy(e, to)
  PROVE  EasyInv'
<1>1. /\ easy_handles' = Cleanup(easy_handles, e)
      /\ m_curl' = [m_curl EXCEPT ![e] = to] /\ m_options' = [m_options EXCEPT ![e] = NoOptions]
  BY DEF EndEasy
<1>2. /\ DOMAIN m_options' = Easies /\ m_options'[e] = NoOptions
      /\ \A g \in Easies \ {e} : m_options'[g] = m_options[g]
  BY <1>1 DEF EasyInv, EasyTyped
<1>3. /\ easy_handles' \in Seq(CurlHandles) /\ Len(easy_handles') = Len(easy_handles)
      /\ \A g \in Easies \ {e} : Valid(g) => easy_handles'[m_curl[g]] = easy_handles[m_curl[g]]
  BY <1>1, CleanupIs
<1>4. /\ m_curl' \in [Easies -> (1..Len(easy_handles)) \cup {NoHandle, Dead}]
      /\ m_curl'[e] = to /\ \A g \in Easies \ {e} : m_curl'[g] = m_curl[g]
  BY <1>1 DEF EasyInv, EasyTyped
<1>5. EasyTyped' BY <1>2, <1>3, <1>4, NothingStored DEF EasyInv, EasyTyped
<1>6. ~Valid(e)' BY <1>4, <1>5, ValidIsThen
<1> QED BY <1>2, <1>3, <1>4, <1>5, <1>6, OthersServed

----------------------------------------------------------------------------
(* Moves and swaps *)

(* The handle and the options of f become those of e. *)
LEMMA MovedKeeps ==
  ASSUME EasyInv, NEW e \in Easies, NEW f \in Easies, e # f,
         m_curl' = [m_curl EXCEPT ![e] = m_curl[f], ![f] = NoHandle],
         m_options' = [m_options EXCEPT ![e] = m_options[f], ![f] = NoOptions],
         easy_handles' = Captured(e, m_curl[f])
  PROVE  EasyInv'
<1> DEFINE h == m_curl[f]
           new == [easy_handles[h] EXCEPT !.private = e]
<1>1. /\ m_curl' \in [Easies -> (1..Len(easy_handles)) \cup {NoHandle, Dead}]
      /\ m_curl'[e] = h /\ m_curl'[f] = NoHandle
      /\ \A g \in Easies \ {e, f} : m_curl'[g] = m_curl[g]
  BY DEF EasyInv, EasyTyped
<1>2. /\ DOMAIN m_options' = Easies
      /\ m_options'[e] = m_options[f] /\ m_options'[f] = NoOptions
      /\ \A g \in Easies \ {e, f} : m_options'[g] = m_options[g]
  BY DEF EasyInv, EasyTyped
<1>3. \A g \in Easies : Stores(m_options'[g])
  BY <1>2, NothingStored DEF EasyInv, EasyTyped
<1>4. Valid(f) =>
        /\ h \in 1..Len(easy_handles) /\ easy_handles[h] \in CurlHandles
        /\ Serves(easy_handles[h], f, m_options[f]) /\ \A g \in Easies \ {f} : m_curl[g] # h
  BY ServedHandle
<1>5. Valid(f) => /\ new \in CurlHandles /\ new.live = easy_handles[h].live
                  /\ new.private = e /\ new.opt = easy_handles[h].opt
  BY <1>4 DEF CurlHandles
<1>6. /\ easy_handles \in Seq(CurlHandles) /\ DOMAIN easy_handles = 1..Len(easy_handles)
      /\ \A g \in Easies : Valid(g) <=> m_curl[g] \notin {NoHandle, Dead}
  BY ValidIs DEF EasyInv, EasyTyped
<1>7. IF Valid(f) THEN easy_handles' = [easy_handles EXCEPT ![h] = new]
                  ELSE UNCHANGED easy_handles
  BY <1>6 DEF Captured, Valid
<1> HIDE DEF new
<1>8. /\ easy_handles' \in Seq(CurlHandles) /\ Len(easy_handles') = Len(easy_handles)
      /\ Valid(f) => easy_handles'[h] = new
      /\ \A k \in 1..Len(easy_handles) :
           ~Valid(f) \/ k # h => easy_handles'[k] = easy_handles[k]
  <2>1. CASE Valid(f) BY <1>4, <1>5, <1>7, <2>1, HandleSet
  <2>2. CASE ~Valid(f) BY <1>6, <1>7, <2>2
  <2> QED BY <2>1, <2>2
<1> HIDE DEF h
<1>9. EasyTyped' BY <1>1, <1>2, <1>3, <1>8 DEF EasyInv, EasyTyped
<1>10. \A g \in Easies : Valid(g)' <=> m_curl'[g] \notin {NoHandle, Dead}
  BY <1>9, ValidIsThen
<1>11. ~Valid(f)' BY <1>1, <1>10
<1>12. Valid(e)' <=> Valid(f) BY <1>1, <1>6, <1>10 DEF h
<1>13. \A g \in Easies \ {e, f} : Valid(g)' <=> Valid(g) BY <1>1, <1>6, <1>10
<1>14. ASSUME NEW g \in Easies, Valid(g)'
       PROVE  Serves(easy_handles'[m_curl'[g]], g, m_options'[g])
  <2>1. CASE g = e
    <3>1. Valid(f) BY <1>12, <1>14, <2>1
    <3>2. Serves(new, e, m_options[f]) BY <1>4, <1>5, <3>1 DEF Serves
    <3> QED BY <1>1, <1>2, <1>8, <2>1, <3>1, <3>2
  <2>2. CASE g # e
    <3>1. g # f /\ Valid(g) BY <1>11, <1>13, <1>14, <2>2
    <3>2. Valid(f) => m_curl[g] # h BY <1>4, <3>1
    <3>3. m_curl[g] \in 1..Len(easy_handles) /\ Serves(easy_handles[m_curl[g]], g, m_options[g])
      BY <3>1, ServedHandle
    <3> QED BY <1>1, <1>2, <1>8, <2>2, <3>1, <3>2, <3>3
  <2> QED BY <2>1, <2>2
<1>15. ASSUME NEW g \in Easies, NEW k \in Easies, Valid(g)', m_curl'[g] = m_curl'[k]
       PROVE  g = k
  <2>1. Valid(k)' BY <1>10, <1>15
  <2>2. g # f /\ k # f BY <1>11, <1>15, <2>1
  <2>3. SUFFICES ASSUME g # k PROVE FALSE OBVIOUS
  <2>4. CASE g # e /\ k # e
    <3>1. Valid(g) /\ m_curl[g] = m_curl[k] BY <1>1, <1>13, <1>15, <2>2, <2>4
    <3> QED BY <2>3, <3>1 DEF EasyInv, EasyAlone
  <2>5. CASE g = e \/ k = e
    <3>1. Valid(f) BY <1>12, <1>15, <2>1, <2>5
    <3> QED BY <1>1, <1>4, <1>15, <2>2, <2>3, <2>5, <3>1
  <2> QED BY <2>4, <2>5
<1>16. EasyServed' BY <1>14 DEF EasyServed
<1>17. EasyAlone' BY <1>15, Zenon DEF EasyAlone
<1> QED BY <1>9, <1>16, <1>17 DEF EasyInv

(* Move assignment, to another easy or to itself. *)
LEMMA MoveAssignKeeps ==
  ASSUME EasyInv, NEW e \in Easies, NEW f \in Easies, MoveAssign(e, f)
  PROVE  EasyInv'
<1>1. CASE e # f BY <1>1, MovedKeeps DEF MoveAssign
<1>2. CASE e = f
  <2>1. m_curl' = [m_curl EXCEPT ![e] = NoHandle] /\ UNCHANGED <<m_options, easy_handles>>
    BY <1>2 DEF MoveAssign
  <2>2. m_curl'[e] = NoHandle /\ \A g \in Easies \ {e} : m_curl'[g] = m_curl[g]
    BY <2>1 DEF EasyInv, EasyTyped
  <2>3. EasyTyped' BY <2>1 DEF EasyInv, EasyTyped
  <2>4. ~Valid(e)' BY <2>2, <2>3, ValidIsThen
  <2> QED BY <2>1, <2>2, <2>3, <2>4, OthersServed
<1> QED BY <1>1, <1>2

(* Move construction. *)
LEMMA ConstructMovedKeeps ==
  ASSUME EasyInv, NEW e \in Easies, NEW f \in Easies, ConstructMoved(e, f)
  PROVE  EasyInv'
BY MovedKeeps DEF ConstructMoved

(* A swap exchanges handles and options, and who they are of. *)
LEMMA SwapKeeps ==
  ASSUME EasyInv, NEW e \in Easies, NEW f \in Easies, Swap(e, f)
  PROVE  EasyInv'
<1>1. /\ e # f
      /\ m_curl' = [m_curl EXCEPT ![e] = m_curl[f], ![f] = m_curl[e]]
      /\ m_options' = [m_options EXCEPT ![e] = m_options[f], ![f] = m_options[e]]
      /\ easy_handles' = [h \in DOMAIN easy_handles |->
           CASE h = m_curl[e] -> [easy_handles[h] EXCEPT !.private = f]
             [] h = m_curl[f] -> [easy_handles[h] EXCEPT !.private = e]
             [] OTHER -> easy_handles[h]]
  BY DEF Swap
<1>2. /\ m_curl' \in [Easies -> (1..Len(easy_handles)) \cup {NoHandle, Dead}]
      /\ m_curl'[e] = m_curl[f] /\ m_curl'[f] = m_curl[e]
      /\ \A g \in Easies \ {e, f} : m_curl'[g] = m_curl[g]
  BY <1>1 DEF EasyInv, EasyTyped
<1>3. /\ DOMAIN m_options' = Easies
      /\ m_options'[e] = m_options[f] /\ m_options'[f] = m_options[e]
      /\ \A g \in Easies \ {e, f} : m_options'[g] = m_options[g]
  BY <1>1 DEF EasyInv, EasyTyped
<1>4. PICK L \in Nat : L = Len(easy_handles) /\ easy_handles \in Seq(CurlHandles)
                       /\ DOMAIN easy_handles = 1..L
  BY ValidIs DEF EasyInv, EasyTyped
<1>5. ASSUME NEW h \in 1..L
      PROVE  /\ h = m_curl[e] => easy_handles'[h] = [easy_handles[h] EXCEPT !.private = f]
             /\ h = m_curl[f] /\ h # m_curl[e] =>
                  easy_handles'[h] = [easy_handles[h] EXCEPT !.private = e]
             /\ h # m_curl[f] /\ h # m_curl[e] => easy_handles'[h] = easy_handles[h]
  <2>1. easy_handles'[h] =
          CASE h = m_curl[e] -> [easy_handles[h] EXCEPT !.private = f]
            [] h = m_curl[f] -> [easy_handles[h] EXCEPT !.private = e]
            [] OTHER -> easy_handles[h]
    BY <1>1, <1>4
  <2>2. CASE h = m_curl[e] /\ h # m_curl[f] BY <2>1, <2>2, Zenon
  <2>3. CASE h = m_curl[f] /\ h # m_curl[e] BY <2>1, <2>3, Zenon
  <2>4. CASE h # m_curl[f] /\ h # m_curl[e] BY <2>1, <2>4, Zenon
  <2>5. ~(h = m_curl[f] /\ h = m_curl[e])
    <3>1. h = m_curl[e] => Valid(e) BY <1>4 DEF Valid
    <3> QED BY <1>1, <3>1 DEF EasyInv, EasyAlone
  <2> QED BY <2>2, <2>3, <2>4, <2>5
<1>6. ASSUME NEW h \in 1..L
      PROVE  easy_handles'[h] \in CurlHandles
  <2>1. easy_handles[h] \in CurlHandles BY <1>4, ElementOfSeq
  <2>2. /\ [easy_handles[h] EXCEPT !.private = f] \in CurlHandles
        /\ [easy_handles[h] EXCEPT !.private = e] \in CurlHandles
    BY <2>1 DEF CurlHandles
  <2> QED BY <1>5, <2>1, <2>2
<1>7. easy_handles' \in Seq(CurlHandles) /\ Len(easy_handles') = L
  <2>1. DOMAIN easy_handles' = 1..L /\ easy_handles' \in [1..L -> CurlHandles]
    BY <1>1, <1>4, <1>6
  <2> QED BY <2>1, SeqMade
<1>8. EasyTyped' BY <1>2, <1>3, <1>4, <1>7 DEF EasyInv, EasyTyped
<1>9. \A g \in Easies : Valid(g)' <=> m_curl'[g] \notin {NoHandle, Dead}
  BY <1>8, ValidIsThen
<1>10. \A g \in Easies : Valid(g) <=> m_curl[g] \notin {NoHandle, Dead}
  BY ValidIs DEF EasyInv
<1>11. ASSUME NEW a \in Easies, NEW b \in Easies, Valid(b), <<a, b>> \in {<<e, f>>, <<f, e>>}
       PROVE  Serves(easy_handles'[m_curl[b]], a, m_options[b])
  <2>1. /\ m_curl[b] \in 1..L /\ easy_handles[m_curl[b]] \in CurlHandles
        /\ Serves(easy_handles[m_curl[b]], b, m_options[b])
        /\ \A g \in Easies \ {b} : m_curl[g] # m_curl[b]
    BY <1>4, <1>11, ServedHandle
  <2>2. m_curl[a] # m_curl[b] BY <1>1, <1>11, <2>1
  <2>3. easy_handles'[m_curl[b]] = [easy_handles[m_curl[b]] EXCEPT !.private = a]
    BY <1>5, <1>11, <2>1, <2>2
  <2> QED BY <2>1, <2>3 DEF Serves, CurlHandles
<1>12. ASSUME NEW g \in Easies, Valid(g)'
       PROVE  Serves(easy_handles'[m_curl'[g]], g, m_options'[g])
  <2>1. CASE g = e
    <3>1. Valid(f) BY <1>2, <1>9, <1>10, <1>12, <2>1
    <3> QED BY <1>2, <1>3, <1>11, <2>1, <3>1
  <2>2. CASE g = f
    <3>1. Valid(e) BY <1>2, <1>9, <1>10, <1>12, <2>2
    <3> QED BY <1>2, <1>3, <1>11, <2>2, <3>1
  <2>3. CASE g # e /\ g # f
    <3>1. Valid(g) BY <1>2, <1>9, <1>10, <1>12, <2>3
    <3>2. /\ m_curl[g] \in 1..L /\ Serves(easy_handles[m_curl[g]], g, m_options[g])
          /\ m_curl[e] # m_curl[g] /\ m_curl[f] # m_curl[g]
      BY <1>4, <2>3, <3>1, ServedHandle
    <3> QED BY <1>2, <1>3, <1>5, <2>3, <3>2
  <2> QED BY <2>1, <2>2, <2>3
<1>13. EasyAlone'
  <2> DEFINE of(g) == IF g = e THEN f ELSE IF g = f THEN e ELSE g
  <2>1. \A g \in Easies : of(g) \in Easies /\ m_curl'[g] = m_curl[of(g)] BY <1>1, <1>2
  <2>2. \A g, k \in Easies : of(g) = of(k) => g = k BY <1>1
  <2> HIDE DEF of
  <2>3. ASSUME NEW g \in Easies, NEW k \in Easies, Valid(g)', m_curl'[g] = m_curl'[k]
        PROVE  g = k
    <3>1. Valid(of(g)) BY <1>9, <1>10, <2>1, <2>3
    <3>2. m_curl[of(g)] = m_curl[of(k)] BY <2>1, <2>3
    <3>3. of(g) = of(k) BY <2>1, <3>1, <3>2 DEF EasyInv, EasyAlone
    <3> QED BY <2>2, <3>3
  <2> QED BY <2>3, Zenon DEF EasyAlone
<1>14. EasyServed' BY <1>12 DEF EasyServed
<1> QED BY <1>8, <1>13, <1>14 DEF EasyInv


----------------------------------------------------------------------------
(* Setting and copying options *)

(* The numbers for new objects are within the bound. *)
LEMMA NewNumberIs ==
  /\ Cardinality(Unused) \in Nat /\ (Unused # {} => 1 \in 1..Cardinality(Unused))
  /\ \A k \in 1..Cardinality(Unused) : NewNumber(k) \in 1..MaxObjects
<1>1. IsFiniteSet(1..MaxObjects) BY FS_Interval, EasyBounds
<1>2. Unused \subseteq 1..MaxObjects BY DEF Unused
<1>3. IsFiniteSet(Unused) BY <1>1, <1>2, FS_Subset
<1>4. Unused \in SUBSET Nat BY <1>2, EasyBounds
<1>5. Cardinality(Unused) \in Nat /\ (Cardinality(Unused) = 0 <=> Unused = {})
  BY <1>3, FS_CardinalityType, FS_EmptySet
<1>6. \A k \in 1..Cardinality(Unused) : NewNumber(k) \in Unused
  BY <1>3, <1>4, NthFound DEF NewNumber
<1>7. \A k \in 1..Cardinality(Unused) : NewNumber(k) \in 1..MaxObjects BY <1>2, <1>6
<1>8. Unused # {} => 1 \in 1..Cardinality(Unused) BY <1>5
<1> QED BY <1>5, <1>7, <1>8

(* What set() takes away is not pointed at any more, and what stays pointed *)
(* at is stored under ids that it does not take.                            *)
LEMMA SetOptionKeeps ==
  ASSUME EasyInv, NEW e \in Easies, NEW ids \in Settable, SetOption(e, ids)
  PROVE  EasyInv'
<1> DEFINE h == m_curl[e]
           old == m_options[e]
           value == IF ids \in ByWrapper THEN [n |-> NewNumber(1), ids |-> ids] ELSE Own
           gone == Displaced(e, ids)
           kept == NowUnset(old, gone)
           stored == IF ids \in ByWrapper THEN With_(kept, ids, value) ELSE kept
           unset == NowUnset(easy_handles[h].opt, gone)
<1>1. /\ Valid(e) /\ SharesWhole(e, ids) /\ UNCHANGED m_curl
      /\ ids \in ByWrapper => Unused # {}
      /\ m_options' = [m_options EXCEPT ![e] = stored]
  BY DEF SetOption
<1>2. PICK accepted \in BOOLEAN :
        easy_handles' = [easy_handles EXCEPT ![h].opt =
            LET unset_ == NowUnset(@, gone) IN
            IF accepted THEN With_(unset_, ids, value)
            ELSE IF ids \in ByWrapper THEN NowUnset(unset_, ids) ELSE unset_]
  BY DEF SetOption
<1> DEFINE opt == IF accepted THEN With_(unset, ids, value)
                  ELSE IF ids \in ByWrapper THEN NowUnset(unset, ids) ELSE unset
           new == [easy_handles[h] EXCEPT !.opt = opt]
<1>3. easy_handles' = [easy_handles EXCEPT ![h] = new]
  BY <1>2 DEF EasyInv, EasyTyped
<1>4. /\ h \in 1..Len(easy_handles) /\ easy_handles[h] \in CurlHandles
      /\ Serves(easy_handles[h], e, old) /\ \A g \in Easies \ {e} : m_curl[g] # h
  BY <1>1, ServedHandle
<1>5. Stores(old) BY DEF EasyInv, EasyTyped
<1>6. /\ ids \in ByWrapper => value \in Objects /\ value.ids = ids /\ ids \in SUBSET Ids
      /\ ids \notin ByWrapper => value = Own
      /\ value \in Objects \cup {Own} /\ value # Unset
  <2>1. CASE ids \in ByWrapper
    <3>1. NewNumber(1) \in 1..MaxObjects BY <1>1, <2>1, NewNumberIs
    <3>2. value = [n |-> NewNumber(1), ids |-> ids] BY <2>1
    <3> QED BY <2>1, <3>1, <3>2, Kinds
  <2>2. CASE ids \notin ByWrapper
    <3>1. Own # Unset BY DEF Own, Unset, Ids, IdOrder
    <3> QED BY <2>2, <3>1
  <2> QED BY <2>1, <2>2
<1> HIDE DEF value, gone
<1>7. \A i \in Ids : kept[i] = IF i \in gone THEN Unset ELSE old[i] BY DEF NowUnset
<1>8. \A i \in Ids : stored[i] = IF ids \in ByWrapper /\ i \in ids THEN value
                                 ELSE IF i \in gone THEN Unset ELSE old[i]
  BY DEF NowUnset, With_
<1>9. Stores(stored)
  <2>1. \A i \in Ids : stored[i] \in Objects \cup {Unset} BY <1>5, <1>6, <1>8 DEF Stores
  <2>2. \A i \in Ids : stored[i] # Unset => i \in stored[i].ids
    BY <1>5, <1>6, <1>8 DEF Stores
  <2>3. stored \in [Ids -> Objects \cup {Unset}] BY <2>1 DEF With_, NowUnset
  <2> QED BY <2>2, <2>3 DEF Stores
<1>10. /\ \A i \in Ids : opt[i] = IF accepted /\ i \in ids THEN value
                                  ELSE IF ids \in ByWrapper /\ i \in ids THEN Unset
                                  ELSE IF i \in gone THEN Unset ELSE easy_handles[h].opt[i]
       /\ opt = [i \in Ids |-> opt[i]]
  BY DEF NowUnset, With_
<1>11. \A i \in Ids : easy_handles[h].opt[i] \in Objects \cup {Own, Unset}
  BY <1>4 DEF CurlHandles
<1> HIDE DEF kept, stored, unset, opt
<1>12. opt \in [Ids -> Objects \cup {Own, Unset}]
  <2>1. \A i \in Ids : opt[i] \in Objects \cup {Own, Unset} BY <1>6, <1>10, <1>11
  <2> QED BY <1>10, <2>1
<1>13. PointsAt(opt, stored)
  <2> SUFFICES ASSUME NEW i \in Ids, opt[i] \in Objects
               PROVE  i \in opt[i].ids /\ \E j \in Ids : stored[j] = opt[i]
    BY DEF PointsAt
  <2>1. CASE accepted /\ i \in ids
    <3>1. opt[i] = value BY <1>10, <2>1
    <3>2. ids \in ByWrapper BY <1>6, <3>1, Kinds
    <3> QED BY <1>6, <1>8, <2>1, <3>1, <3>2
  <2>2. CASE ~(accepted /\ i \in ids)
    <3>1. ~(ids \in ByWrapper /\ i \in ids) /\ i \notin gone
          /\ opt[i] = easy_handles[h].opt[i]
      BY <1>10, <2>2, Kinds
    <3>2. PICK j \in Ids : old[j] = opt[i] BY <1>4, <3>1 DEF Serves, PointsAt
    <3>3. i \in old[j].ids BY <1>4, <3>1, <3>2 DEF Serves, PointsAt
    <3>4. old[j] # Unset BY <3>2, Kinds
    <3>5. j \notin ids
      <4> SUFFICES ASSUME j \in ids PROVE FALSE OBVIOUS
      <4>1. old[j] \in Stored(e, ids) BY <3>4 DEF Stored
      <4> QED BY <3>1, <3>3, <4>1 DEF gone, Displaced
    <3>6. j \notin gone
      <4> SUFFICES ASSUME j \in gone PROVE FALSE OBVIOUS
      <4>1. PICK o \in Stored(e, ids) : j \in o.ids BY DEF gone, Displaced
      <4>2. old[j] = o BY <1>1, <4>1 DEF SharesWhole
      <4> QED BY <3>1, <3>3, <4>1, <4>2 DEF gone, Displaced
    <3>7. stored[j] = opt[i] BY <1>8, <3>2, <3>5, <3>6
    <3> QED BY <3>2, <3>3, <3>7
  <2> QED BY <2>1, <2>2
<1>14. /\ new \in CurlHandles /\ new.live = easy_handles[h].live
       /\ new.private = easy_handles[h].private /\ new.opt = opt
  BY <1>4, <1>12 DEF CurlHandles
<1>15. Serves(new, e, stored) BY <1>4, <1>13, <1>14 DEF Serves
<1> HIDE DEF new, h
<1>16. /\ easy_handles' \in Seq(CurlHandles) /\ Len(easy_handles') = Len(easy_handles)
       /\ easy_handles'[h] = new
       /\ \A k \in 1..Len(easy_handles) : k # h => easy_handles'[k] = easy_handles[k]
  BY <1>3, <1>4, <1>14, HandleSet
<1>17. /\ DOMAIN m_options' = Easies /\ m_options'[e] = stored
       /\ \A g \in Easies \ {e} : m_options'[g] = m_options[g]
  BY <1>1 DEF EasyInv, EasyTyped
<1>18. EasyTyped' BY <1>1, <1>9, <1>16, <1>17 DEF EasyInv, EasyTyped
<1>19. \A g \in Easies \ {e} : Valid(g) => easy_handles'[m_curl[g]] = easy_handles[m_curl[g]]
  BY <1>4, <1>16, ServedHandle
<1>20. Serves(easy_handles'[m_curl'[e]], e, m_options'[e]) BY <1>1, <1>15, <1>16, <1>17 DEF h
<1>21. \A g \in Easies \ {e} : m_curl'[g] = m_curl[g] /\ m_curl[g] # m_curl'[e]
  BY <1>1, <1>4 DEF h
<1> QED BY <1>17, <1>18, <1>19, <1>20, <1>21, OthersServed

(* The ids that an easy has set, in their order. *)
LEMMA SetIdsAre ==
  ASSUME EasyTyped, NEW f \in Easies
  PROVE  /\ Cardinality(SetPlaces(f)) \in 0..3 /\ DOMAIN SetIds(f) = 1..Cardinality(SetPlaces(f))
         /\ Len(SetIds(f)) = Cardinality(SetPlaces(f))
         /\ \A k \in DOMAIN SetIds(f) : SetIds(f)[k] \in Ids /\ m_options[f][SetIds(f)[k]] # Unset
         /\ \A i \in Ids : m_options[f][i] # Unset => \E k \in DOMAIN SetIds(f) : SetIds(f)[k] = i
<1> DEFINE P == SetPlaces(f)  c == Cardinality(P)
<1>1. DOMAIN IdOrder = 1..3 BY DEF IdOrder
<1>2. P \subseteq 1..3 /\ \A p \in P : IdOrder[p] \in Ids /\ m_options[f][IdOrder[p]] # Unset
  BY <1>1 DEF SetPlaces, Ids
<1>3. IsFiniteSet(P) /\ Cardinality(P) \in 0..3
  <2>1. IsFiniteSet(1..3) /\ Cardinality(1..3) = 3
    <3>1. 1 \in Int /\ 3 \in Int /\ 3 - 1 + 1 = 3 /\ ~(1 > 3) OBVIOUS
    <3> QED BY <3>1, FS_Interval
  <2>2. IsFiniteSet(P) /\ c <= 3 BY <1>2, <2>1, FS_Subset
  <2>3. c \in Nat BY <2>2, FS_CardinalityType
  <2> QED BY <2>2, <2>3
<1>4. P \in SUBSET Nat BY <1>2
<1>5. \A k \in 1..c : Nth(P, k) \in P BY <1>3, <1>4, NthFound
<1>6. \A p \in P : Rank(P, p) \in 1..c /\ Nth(P, Rank(P, p)) = p
  BY <1>3, <1>4, RankBounded, NthOfRank
<1>7. \A i \in Ids : m_options[f][i] # Unset => \E p \in P : IdOrder[p] = i
  BY DEF Ids, SetPlaces
<1> HIDE DEF P, c
<1>8. SetIds(f) = [k \in 1..c |-> IdOrder[Nth(P, k)]] BY DEF SetIds, P, c
<1>9. DOMAIN SetIds(f) = 1..c /\ \A k \in 1..c : SetIds(f)[k] = IdOrder[Nth(P, k)] BY <1>8
<1>10. c \in 0..3 BY <1>3 DEF c
<1>11. Len(SetIds(f)) = c
  <2>1. c \in Nat BY <1>10
  <2>2. SetIds(f) \in [1..c -> Ids] BY <1>2, <1>5, <1>8
  <2> QED BY <2>1, <2>2, SeqMade
<1>12. \A k \in 1..c : SetIds(f)[k] \in Ids /\ m_options[f][SetIds(f)[k]] # Unset
  BY <1>2, <1>5, <1>9
<1>13. \A i \in Ids : m_options[f][i] # Unset => \E k \in 1..c : SetIds(f)[k] = i
  BY <1>6, <1>7, <1>9
<1> QED BY <1>9, <1>10, <1>11, <1>12, <1>13 DEF P, c

(* The clones are stored as the options were. *)
LEMMA CloneIs ==
  ASSUME EasyTyped, NEW f \in Easies, Len(SetIds(f)) <= Cardinality(Unused)
  PROVE  /\ Stores(Clone(f))
         /\ \A i \in Ids : m_options[f][i] # Unset =>
              Clone(f)[i] \in Objects /\ Clone(f)[i].ids = m_options[f][i].ids
<1> DEFINE place(i) == CHOOSE k \in DOMAIN SetIds(f) : SetIds(f)[k] = i
<1>1. Stores(m_options[f]) BY DEF EasyTyped
<1>2. ASSUME NEW i \in Ids, m_options[f][i] # Unset
      PROVE  /\ Clone(f)[i] \in Objects /\ Clone(f)[i].ids = m_options[f][i].ids
             /\ i \in Clone(f)[i].ids
  <2>1. place(i) \in DOMAIN SetIds(f) BY <1>2, SetIdsAre
  <2>2. place(i) \in 1..Cardinality(Unused) BY <2>1, SetIdsAre, NewNumberIs
  <2>3. NewNumber(place(i)) \in 1..MaxObjects BY <2>2, NewNumberIs
  <2>4. m_options[f][i] \in Objects /\ i \in m_options[f][i].ids BY <1>1, <1>2 DEF Stores
  <2>5. Clone(f)[i] = [m_options[f][i] EXCEPT !.n = NewNumber(place(i))]
    BY <1>2 DEF Clone
  <2> HIDE DEF place
  <2> QED BY <2>3, <2>4, <2>5 DEF Objects
<1>3. \A i \in Ids : m_options[f][i] = Unset => Clone(f)[i] = Unset BY DEF Clone
<1>4. \A i \in Ids : Clone(f)[i] \in Objects \cup {Unset} BY <1>2, <1>3
<1>5. Clone(f) \in [Ids -> Objects \cup {Unset}] BY <1>4 DEF Clone
<1>6. \A i \in Ids : Clone(f)[i] # Unset => i \in Clone(f)[i].ids BY <1>2, <1>3
<1> QED BY <1>2, <1>5, <1>6 DEF Stores


(* Of at most three places one is the last. *)
LEMMA GreatestIs ==
  ASSUME NEW S \in SUBSET (1..3), S # {}
  PROVE  \E k \in S : \A j \in S : j <= k
<1>1. 1..3 = {1, 2, 3} OBVIOUS
<1>2. CASE 3 \in S BY <1>2
<1>3. CASE 3 \notin S /\ 2 \in S BY <1>3
<1>4. CASE 3 \notin S /\ 2 \notin S
  <2>1. S = {1} BY <1>1, <1>4
  <2> QED BY <2>1
<1> QED BY <1>2, <1>3, <1>4

(* Of each option that the copied handle points at, the clones have taken *)
(* the place.                                                             *)
LEMMA ClonesServe ==
  ASSUME EasyInv, NEW e \in Easies, NEW f \in Easies, Valid(f), CanCopy(f)
  PROVE  Copied(e, f) \in CurlHandles /\ Serves(Copied(e, f), e, Clone(f))
<1> DEFINE opt == easy_handles[m_curl[f]].opt  old == m_options[f]
           clones == SetClones(f, opt)
           setters(i) == {k \in DOMAIN SetIds(f) : i \in old[SetIds(f)[k]].ids}
           last(i) == CHOOSE k \in setters(i) : \A j \in setters(i) : j <= k
<1>1. /\ easy_handles[m_curl[f]] \in CurlHandles
      /\ easy_handles[m_curl[f]].live /\ PointsAt(opt, old)
  BY ServedHandle DEF Serves
<1>2. EasyTyped /\ Len(SetIds(f)) <= Cardinality(Unused) BY DEF EasyInv, CanCopy
<1>3. /\ DOMAIN SetIds(f) \subseteq 1..3
      /\ \A k \in DOMAIN SetIds(f) : SetIds(f)[k] \in Ids /\ old[SetIds(f)[k]] # Unset
      /\ \A i \in Ids : old[i] # Unset => \E k \in DOMAIN SetIds(f) : SetIds(f)[k] = i
  BY <1>2, SetIdsAre
<1>4. \A i \in Ids : clones[i] = IF setters(i) = {} THEN opt[i] ELSE Clone(f)[SetIds(f)[last(i)]]
  BY DEF SetClones
<1>5. clones = [i \in Ids |-> clones[i]] BY DEF SetClones
<1>6. \A i \in Ids : setters(i) # {} =>
        /\ last(i) \in DOMAIN SetIds(f) /\ i \in old[SetIds(f)[last(i)]].ids
  <2> SUFFICES ASSUME NEW i \in Ids, setters(i) # {}
               PROVE  last(i) \in setters(i)
    OBVIOUS
  <2>1. setters(i) \in SUBSET (1..3) BY <1>3
  <2> HIDE DEF setters
  <2>2. \E k \in setters(i) : \A j \in setters(i) : j <= k BY <2>1, GreatestIs
  <2> QED BY <2>2
<1> HIDE DEF last
<1>7. ASSUME NEW i \in Ids, setters(i) # {}
      PROVE  \E j \in Ids : Clone(f)[j] = clones[i] /\ clones[i] \in Objects /\ i \in clones[i].ids
  <2>1. PICK j \in Ids : j = SetIds(f)[last(i)] /\ old[j] # Unset /\ i \in old[j].ids
    BY <1>3, <1>6, <1>7
  <2>2. clones[i] = Clone(f)[j] BY <1>4, <1>7, <2>1
  <2>3. Clone(f)[j] \in Objects /\ Clone(f)[j].ids = old[j].ids BY <1>2, <2>1, CloneIs
  <2> QED BY <2>1, <2>2, <2>3
<1>8. ASSUME NEW i \in Ids, setters(i) = {}
      PROVE  clones[i] = opt[i] /\ opt[i] \notin Objects
  <2>1. clones[i] = opt[i] BY <1>4, <1>8
  <2>2. SUFFICES ASSUME opt[i] \in Objects PROVE FALSE BY <2>1
  <2>3. PICK j \in Ids : old[j] = opt[i] /\ i \in old[j].ids BY <1>1, <2>2 DEF PointsAt
  <2>4. old[j] # Unset BY <2>2, <2>3, Kinds
  <2>5. PICK k \in DOMAIN SetIds(f) : SetIds(f)[k] = j BY <1>3, <2>4
  <2>6. k \in setters(i) BY <2>3, <2>5
  <2> QED BY <1>8, <2>6
<1>9. \A i \in Ids : opt[i] \in Objects \cup {Own, Unset} BY <1>1 DEF CurlHandles
<1> HIDE DEF setters, clones
<1>10. clones \in [Ids -> Objects \cup {Own, Unset}]
  <2>1. \A i \in Ids : clones[i] \in Objects \cup {Own, Unset} BY <1>7, <1>8, <1>9
  <2> QED BY <1>5, <2>1
<1>11. PointsAt(clones, Clone(f))
  <2> SUFFICES ASSUME NEW i \in Ids, clones[i] \in Objects
               PROVE  i \in clones[i].ids /\ \E j \in Ids : Clone(f)[j] = clones[i]
    BY DEF PointsAt
  <2>1. setters(i) # {} BY <1>8
  <2> QED BY <1>7, <2>1
<1>12. /\ Copied(e, f) \in CurlHandles /\ Copied(e, f).live /\ Copied(e, f).private = e
       /\ Copied(e, f).opt = clones
  BY <1>1, <1>10 DEF Copied, CurlHandles, clones
<1> QED BY <1>11, <1>12 DEF Serves

(* The copy of f becomes e, and what e had is cleaned up in hs. *)
LEMMA CopyIntoKeeps ==
  ASSUME EasyInv, NEW e \in Easies, NEW f \in Easies, CanCopy(f),
         NEW hs \in Seq(CurlHandles), Len(hs) = Len(easy_handles),
         \A g \in Easies \ {e} : Valid(g) => hs[m_curl[g]] = easy_handles[m_curl[g]],
         m_options' = [m_options EXCEPT ![e] = Clone(f)],
         IF Valid(f)
         THEN /\ easy_handles' = Append(hs, Copied(e, f))
              /\ m_curl' = [m_curl EXCEPT ![e] = Len(easy_handles) + 1]
         ELSE m_curl' = [m_curl EXCEPT ![e] = NoHandle] /\ easy_handles' = hs
  PROVE  EasyInv'
<1>1. EasyTyped /\ Stores(Clone(f)) BY CloneIs DEF EasyInv, CanCopy
<1>2. /\ DOMAIN m_options' = Easies /\ m_options'[e] = Clone(f)
      /\ \A g \in Easies \ {e} : m_options'[g] = m_options[g]
  BY <1>1 DEF EasyTyped
<1>3. \A g \in Easies : Stores(m_options'[g]) BY <1>1, <1>2 DEF EasyTyped
<1>4. CASE ~Valid(f)
  <2>1. /\ m_curl' \in [Easies -> (1..Len(easy_handles)) \cup {NoHandle, Dead}]
        /\ m_curl'[e] = NoHandle /\ \A g \in Easies \ {e} : m_curl'[g] = m_curl[g]
        /\ easy_handles' = hs
    BY <1>1, <1>4 DEF EasyTyped
  <2>2. EasyTyped' BY <1>1, <1>2, <1>3, <2>1 DEF EasyTyped
  <2>3. ~Valid(e)' BY <2>1, <2>2, ValidIsThen
  <2> QED BY <1>2, <2>1, <2>2, <2>3, OthersServed
<1>5. CASE Valid(f)
  <2>1. PICK L \in Nat : L = Len(easy_handles) /\ easy_handles \in Seq(CurlHandles)
    BY <1>1 DEF EasyTyped
  <2>2. /\ easy_handles' = Append(hs, Copied(e, f)) /\ L < MaxHandles
        /\ m_curl' = [m_curl EXCEPT ![e] = L + 1]
    BY <1>5, <2>1 DEF CanCopy, CanMake
  <2>3. Copied(e, f) \in CurlHandles /\ Serves(Copied(e, f), e, Clone(f))
    BY <1>5, ClonesServe
  <2>4. /\ easy_handles' \in Seq(CurlHandles) /\ Len(easy_handles') = L + 1
        /\ easy_handles'[L + 1] = Copied(e, f)
        /\ \A k \in 1..L : easy_handles'[k] = hs[k]
    BY <2>1, <2>2, <2>3
  <2>5. L + 1 <= MaxHandles BY <2>2, EasyBounds
  <2>6. 1..L \subseteq 1..(L + 1) /\ L + 1 \in 1..(L + 1) /\ L + 1 \notin 1..L BY <2>1
  <2>7. L + 1 # NoHandle /\ L + 1 # Dead BY <2>5, <2>1, EasyBounds, NoHandleAssumption
  <2>8. /\ m_curl' \in [Easies -> (1..(L + 1)) \cup {NoHandle, Dead}] /\ m_curl'[e] = L + 1
        /\ \A g \in Easies \ {e} : m_curl'[g] = m_curl[g]
        /\ \A g \in Easies : m_curl[g] # L + 1
    BY <1>1, <2>1, <2>2, <2>6, <2>7 DEF EasyTyped
  <2>9. EasyTyped' BY <1>2, <1>3, <2>4, <2>5, <2>8 DEF EasyTyped
  <2>10. \A g \in Easies \ {e} : Valid(g) => easy_handles'[m_curl[g]] = easy_handles[m_curl[g]]
    BY <2>1, <2>4, ServedHandle
  <2>11. Serves(easy_handles'[m_curl'[e]], e, m_options'[e]) BY <1>2, <2>3, <2>4, <2>8
  <2>12. \A g \in Easies \ {e} : m_curl[g] # m_curl'[e] BY <2>8
  <2> QED BY <1>2, <2>8, <2>9, <2>10, <2>11, <2>12, OthersServed
<1> QED BY <1>4, <1>5

(* Copy assignment. *)
LEMMA CopyAssignKeeps ==
  ASSUME EasyInv, NEW e \in Easies, NEW f \in Easies, CopyAssign(e, f)
  PROVE  EasyInv'
BY CopyIntoKeeps, CleanupIs DEF CopyAssign

(* Copy construction. *)
LEMMA CopyConstructKeeps ==
  ASSUME EasyInv, NEW e \in Easies, NEW f \in Easies, CopyConstruct(e, f)
  PROVE  EasyInv'
<1>1. easy_handles \in Seq(CurlHandles) BY DEF EasyInv, EasyTyped
<1> QED BY <1>1, CopyIntoKeeps DEF CopyConstruct

(* The handle that nothing owns takes nothing from the others. *)
LEMMA CopyThrowsKeeps ==
  ASSUME EasyInv, NEW e \in Easies, NEW f \in Easies, CopyThrows(e, f)
  PROVE  EasyInv'
<1>1. PICK L \in Nat : L = Len(easy_handles) /\ easy_handles \in Seq(CurlHandles)
  BY DEF EasyInv, EasyTyped
<1>2. /\ Valid(f) /\ L < MaxHandles /\ UNCHANGED <<m_curl, m_options>>
      /\ easy_handles' = Append(easy_handles, CopiedAsIs(e, f)) /\ m_curl[e] = Dead
  BY <1>1 DEF CopyThrows, CanMake
<1>3. CopiedAsIs(e, f) \in CurlHandles BY <1>2, ServedHandle DEF CopiedAsIs, CurlHandles
<1>4. /\ easy_handles' \in Seq(CurlHandles) /\ Len(easy_handles') = L + 1
      /\ \A k \in 1..L : easy_handles'[k] = easy_handles[k]
  BY <1>1, <1>2, <1>3
<1>5. L + 1 <= MaxHandles /\ 1..L \subseteq 1..(L + 1) BY <1>1, <1>2, EasyBounds
<1>6. EasyTyped' BY <1>1, <1>2, <1>4, <1>5 DEF EasyInv, EasyTyped
<1>7. \A g \in Easies : Valid(g) => easy_handles'[m_curl[g]] = easy_handles[m_curl[g]]
  BY <1>1, <1>4, ServedHandle
<1>8. ~Valid(e)' BY <1>2, <1>6, ValidIsThen
<1> QED BY <1>2, <1>6, <1>7, <1>8, OthersServed

----------------------------------------------------------------------------
(* The invariant of the easy handles *)

(* The invariant holds at first. *)
LEMMA EasyInvInit ==
  ASSUME EasyInit
  PROVE  EasyInv
<1>1. /\ m_curl = [e \in Easies |-> Dead] /\ m_options = [e \in Easies |-> NoOptions]
      /\ easy_handles = <<>>
  BY DEF EasyInit
<1>2. Len(easy_handles) = 0 /\ Len(easy_handles) <= MaxHandles BY <1>1, EasyBounds
<1>3. EasyTyped BY <1>1, <1>2, NothingStored DEF EasyTyped
<1>4. \A e \in Easies : ~Valid(e) BY <1>1, <1>3, ValidIs
<1> QED BY <1>3, <1>4 DEF EasyInv, EasyServed, EasyAlone

(* The invariant is kept by every step. *)
LEMMA EasyInvNext ==
  ASSUME EasyInv, [EasyNext]_easyVars
  PROVE  EasyInv'
<1>1. ASSUME UNCHANGED <<m_curl, m_options, easy_handles>>
      PROVE  EasyInv'
  <2>1. EasyTyped' BY <1>1 DEF EasyInv, EasyTyped
  <2>2. EasyServed' BY <1>1 DEF EasyInv, EasyServed, Valid
  <2>3. EasyAlone' BY <1>1, Zenon DEF EasyInv, EasyAlone, Valid
  <2> QED BY <2>1, <2>2, <2>3 DEF EasyInv
<1>2. ASSUME NEW e \in Easies, NEW ids \in Settable, SetAborts(e, ids)
      PROVE  EasyInv'
  BY <1>1, <1>2 DEF SetAborts
<1>3. ASSUME NEW e \in Easies,
             \/ Construct(e) \/ ConstructNull(e) \/ Reset(e)
             \/ EndEasy(e, NoHandle) \/ EndEasy(e, Dead)
      PROVE  EasyInv'
  BY <1>3, ConstructKeeps, ConstructNullKeeps, ResetKeeps, EndEasyKeeps
<1>4. ASSUME NEW e \in Easies, NEW ids \in Settable, SetOption(e, ids) \/ SetAborts(e, ids)
      PROVE  EasyInv'
  BY <1>2, <1>4, SetOptionKeeps
<1>5. ASSUME NEW e \in Easies, NEW f \in Easies,
             \/ CopyConstruct(e, f) \/ CopyThrows(e, f) \/ CopyAssign(e, f)
             \/ ConstructMoved(e, f) \/ MoveAssign(e, f) \/ Swap(e, f)
      PROVE  EasyInv'
  BY <1>5, CopyConstructKeeps, CopyThrowsKeeps, CopyAssignKeeps, ConstructMovedKeeps,
     MoveAssignKeeps, SwapKeeps
<1>6. CASE EasyNext BY <1>3, <1>4, <1>5, <1>6, Zenon DEF EasyNext
<1>7. CASE UNCHANGED easyVars BY <1>1, <1>7 DEF easyVars
<1> QED BY <1>6, <1>7

(* EasyInv holds of every program: each easy is served by its own handle. *)
THEOREM HandlesServe == EasySpec => []EasyInv
<1>1. EasyInit => EasyInv BY EasyInvInit
<1>2. EasyInv /\ [EasyNext]_easyVars => EasyInv' BY EasyInvNext
<1> QED BY <1>1, <1>2, PTL DEF EasySpec

(* The invariant says what is checked of handles and options. *)
LEMMA EasyInvShows ==
  ASSUME EasyInv
  PROVE  OptionsOutlive
<1> SUFFICES ASSUME NEW e \in Easies, Valid(e)
             PROVE  /\ easy_handles[m_curl[e]].live
                    /\ \A f \in Easies \ {e} : m_curl[f] # m_curl[e]
                    /\ \A i \in Ids : easy_handles[m_curl[e]].opt[i] \in Objects =>
                         \E j \in Ids : m_options[e][j] = easy_handles[m_curl[e]].opt[i]
                    /\ easy_handles[m_curl[e]].private \in {e, NoHandle}
  BY Zenon DEF OptionsOutlive
<1> QED BY ServedHandle DEF Serves, PointsAt

----------------------------------------------------------------------------
(* Names, global states and applications *)

Places == {"idle", "lock", "build", "hold", "drop"}
Registries == [states : Seq(Units), wanted : Seq(Units)]

AppTyped ==
  /\ units \in Seq(Units) /\ state_factories \in Seq(Units)
  /\ factories \in [ClassNames -> Units \cup {Unset_}]
  /\ app_at \in [Starters -> Places \cup Units]
  /\ registries \in Seq(Registries) /\ Len(registries) <= MaxRegistries
  /\ app_registry \in [Starters -> (1..Len(registries)) \cup {NoRegistry}]
  /\ instance \in (1..Len(registries)) \cup {NoRegistry}

Named(n) == {k \in DOMAIN units : NameOf[units[k]] = n}
IsFirst(k, n) == k \in Named(n) /\ \A j \in Named(n) : k <= j
NamesInv ==
  \A n \in ClassNames :
    /\ Named(n) = {} => factories[n] = Unset_
    /\ Named(n) # {} => \E k \in Named(n) : IsFirst(k, n)
    /\ \A k \in Named(n) : IsFirst(k, n) => factories[n] = units[k]

Registered(u) == \E k \in DOMAIN state_factories : state_factories[k] = u
StatesInv ==
  /\ \A t \in Starters : app_at[t] \in Units => StateOf[app_at[t]] /\ IsLoaded(app_at[t])
  /\ \A s, t \in Starters : app_at[s] \in Units /\ app_at[t] \in Units => s = t
  /\ \A u \in Units :
       Registered(u) <=> StateOf[u] /\ IsLoaded(u) /\ \A t \in Starters : app_at[t] # u

(* Before the storage is initialized nothing is in it. *)
OnceInv ==
  m_once # "done" => /\ state_factories = <<>> /\ instance = NoRegistry
                     /\ \A t \in Starters : app_at[t] \notin {"build", "hold", "drop"}

Builds(t) ==
  /\ lock_ = t /\ Mine(t).wanted = state_factories
  /\ Len(Mine(t).states) <= Len(state_factories)
  /\ \A k \in 1..Len(Mine(t).states) : Mine(t).states[k] = state_factories[k]

RegistriesInv ==
  /\ \A t \in Starters : app_at[t] \in {"build", "hold", "drop"} => app_registry[t] # NoRegistry
  /\ \A t \in Starters : app_at[t] = "build" => Builds(t)
  /\ \A t \in Starters : app_at[t] = "hold" =>
       app_registry[t] = instance /\ Mine(t).states = Mine(t).wanted
  /\ \A s, t \in Starters : app_at[t] = "build" => app_at[s] # "hold"
  /\ \A s, t \in Starters : app_at[t] = "drop" /\ app_at[s] \in {"build", "hold"} =>
       app_registry[s] # app_registry[t]

AppInv == AppTyped /\ NamesInv /\ StatesInv /\ OnceInv /\ RegistriesInv

----------------------------------------------------------------------------
(* Of places and registries *)

(* Units, places and threads are not mistaken for one another. *)
LEMMA PlacesApart ==
  /\ \A u \in Units : u \notin Places
  /\ "idle" \in Places /\ "lock" \in Places /\ "build" \in Places
  /\ "hold" \in Places /\ "drop" \in Places
  /\ \A t \in Starters : t # "new" /\ t # "done" /\ t # NoOne
BY NamesAssumption DEF Places

(* A thread that goes somewhere, and the others, which stay. *)
LEMMA AppWent ==
  ASSUME AppTyped, NEW t \in Starters, NEW from \in Places \cup Units, NEW to \in Places \cup Units,
         AppGoes(t, from, to)
  PROVE  /\ app_at' \in [Starters -> Places \cup Units]
         /\ app_at[t] = from /\ app_at'[t] = to
         /\ \A s \in Starters \ {t} : app_at'[s] = app_at[s]
BY DEF AppTyped, AppGoes

(* Who builds, holds or drops a registry has one. *)
LEMMA RegistryIs ==
  ASSUME AppInv, NEW t \in Starters, app_at[t] \in {"build", "hold", "drop"}
  PROVE  /\ app_registry[t] \in 1..Len(registries)
         /\ Mine(t) \in Registries
         /\ Mine(t).states \in Seq(Units) /\ Mine(t).wanted \in Seq(Units)
<1>1. app_registry[t] \in 1..Len(registries) BY DEF AppInv, AppTyped, RegistriesInv
<1>2. registries \in Seq(Registries) BY DEF AppInv, AppTyped
<1>3. registries[app_registry[t]] \in Registries BY <1>1, <1>2, ElementOfSeq
<1> QED BY <1>1, <1>3 DEF Mine, Registries

(* The states of one registry change. *)
LEMMA StatesSet ==
  ASSUME AppInv, NEW r \in 1..Len(registries), NEW states \in Seq(Units),
         registries' = [registries EXCEPT ![r].states = states]
  PROVE  /\ registries' \in Seq(Registries) /\ Len(registries') = Len(registries)
         /\ registries'[r].states = states /\ registries'[r].wanted = registries[r].wanted
         /\ \A q \in 1..Len(registries) : q # r => registries'[q] = registries[q]
<1> DEFINE new == [registries[r] EXCEPT !.states = states]
<1>1. registries \in Seq(Registries) BY DEF AppInv, AppTyped
<1>2. registries[r] \in Registries BY <1>1, ElementOfSeq
<1>3. new \in Registries /\ new.states = states /\ new.wanted = registries[r].wanted
  BY <1>2 DEF Registries
<1>4. registries' = [registries EXCEPT ![r] = new] OBVIOUS
<1> HIDE DEF new
<1>5. /\ [registries EXCEPT ![r] = new] \in Seq(Registries)
      /\ Len([registries EXCEPT ![r] = new]) = Len(registries)
      /\ \A j \in 1..Len(registries) :
           [registries EXCEPT ![r] = new][j] = IF j = r THEN new ELSE registries[j]
  BY <1>1, <1>3, ExceptSeq
<1> QED BY <1>3, <1>4, <1>5

(* Nothing is registered or named anew. *)
LEMMA NamesKept ==
  ASSUME AppInv, UNCHANGED <<units, factories>>
  PROVE  NamesInv'
<1>1. \A n : Named(n)' = Named(n) BY DEF Named
<1>2. \A k, n : IsFirst(k, n)' <=> IsFirst(k, n) BY <1>1 DEF IsFirst
<1> QED BY <1>1, <1>2 DEF AppInv, NamesInv

(* No thread gets to a unit, or away from one. *)
LEMMA StatesKept ==
  ASSUME AppInv, UNCHANGED <<units, state_factories>>,
         NEW t \in Starters, \A s \in Starters \ {t} : app_at'[s] = app_at[s],
         app_at[t] \notin Units /\ app_at'[t] \notin Units
  PROVE  StatesInv'
<1>1. \A u : IsLoaded(u)' <=> IsLoaded(u) BY DEF IsLoaded
<1>2. \A u : Registered(u)' <=> Registered(u) BY DEF Registered
<1>3. \A s \in Starters : app_at'[s] \in Units => app_at[s] = app_at'[s] OBVIOUS
<1>4. \A u \in Units : (\A s \in Starters : app_at'[s] # u) <=> (\A s \in Starters : app_at[s] # u)
  OBVIOUS
<1>5. ASSUME NEW s \in Starters, app_at'[s] \in Units
      PROVE  StateOf[app_at'[s]] /\ IsLoaded(app_at[s])'
  <2>1. app_at'[s] = app_at[s] /\ app_at[s] \in Units BY <1>3, <1>5
  <2>2. StateOf[app_at[s]] /\ IsLoaded(app_at[s]) BY <2>1 DEF AppInv, StatesInv
  <2> QED BY <2>1, <2>2 DEF IsLoaded
<1>6. \A r, s \in Starters : app_at'[r] \in Units /\ app_at'[s] \in Units => r = s
  BY <1>3 DEF AppInv, StatesInv
<1>7. ASSUME NEW u \in Units
      PROVE  Registered(u)' <=> StateOf[u] /\ IsLoaded(u)' /\ \A s \in Starters : app_at'[s] # u
  <2>1. Registered(u) <=> StateOf[u] /\ IsLoaded(u) /\ \A s \in Starters : app_at[s] # u
    BY DEF AppInv, StatesInv
  <2> QED BY <1>1, <1>2, <1>4, <2>1
<1> QED BY <1>5, <1>6, <1>7, Zenon DEF StatesInv

(* The registries and the threads' are as they were. *)
LEMMA RegistriesKept ==
  ASSUME AppInv, UNCHANGED <<registries, app_registry, instance, lock_>>,
         lock_ = NoOne \/ UNCHANGED state_factories,
         NEW t \in Starters, \A s \in Starters \ {t} : app_at'[s] = app_at[s],
         app_at[t] \notin {"build", "hold", "drop"},
         app_at'[t] \notin {"build", "hold", "drop"}
  PROVE  RegistriesInv'
<1>1. \A s \in Starters : app_at'[s] \in {"build", "hold", "drop"} =>
        app_at'[s] = app_at[s] /\ app_at[s] \in {"build", "hold", "drop"}
  OBVIOUS
<1>2. \A s : Mine(s)' = Mine(s) BY DEF Mine
<1>3. ASSUME NEW s \in Starters, app_at'[s] = "build"
      PROVE  Builds(s)'
  <2>1. Builds(s) BY <1>1, <1>3 DEF AppInv, RegistriesInv
  <2>2. lock_ # NoOne BY <2>1, PlacesApart DEF Builds
  <2> QED BY <1>2, <2>1, <2>2 DEF Builds
<1>4. \A s \in Starters : app_at'[s] = "build" => Builds(s)' BY <1>3
<1>5. \A s \in Starters : app_at'[s] = "hold" =>
        app_registry'[s] = instance' /\ Mine(s)'.states = Mine(s)'.wanted
  BY <1>1, <1>2 DEF AppInv, RegistriesInv
<1>6. \A s \in Starters : app_at'[s] \in {"build", "hold", "drop"} => app_registry'[s] # NoRegistry
  BY <1>1 DEF AppInv, RegistriesInv
<1>7. \A r, s \in Starters : app_at'[s] = "build" => app_at'[r] # "hold"
  BY <1>1 DEF AppInv, RegistriesInv
<1>8. \A r, s \in Starters : app_at'[s] = "drop" /\ app_at'[r] \in {"build", "hold"} =>
        app_registry'[r] # app_registry'[s]
  BY <1>1 DEF AppInv, RegistriesInv
<1> QED BY <1>4, <1>5, <1>6, <1>7, <1>8, Zenon DEF RegistriesInv

----------------------------------------------------------------------------
(* One lemma per action *)

(* A unit that is initialized is loaded from then on, and the class it names *)
(* is its own if it is the first.                                            *)
LEMMA NamesGrow ==
  ASSUME AppInv, NEW u \in Units, register_new(u), units' = Append(units, u)
  PROVE  /\ NamesInv'
         /\ units' \in Seq(Units) /\ factories' \in [ClassNames -> Units \cup {Unset_}]
         /\ \A v : IsLoaded(v)' <=> IsLoaded(v) \/ v = u
<1>1. PICK L \in Nat : units \in Seq(Units) /\ L = Len(units) BY DEF AppInv, AppTyped
<1>2. /\ units' \in Seq(Units) /\ DOMAIN units = 1..L /\ DOMAIN units' = 1..(L + 1)
      /\ units'[L + 1] = u /\ \A k \in 1..L : units'[k] = units[k] /\ units[k] \in Units
  BY <1>1
<1>3. NameOf[u] \in ClassNames BY DEF ClassNames
<1>4. factories' \in [ClassNames -> Units \cup {Unset_}]
  BY <1>3 DEF AppInv, AppTyped, register_new
<1>5. \A v : IsLoaded(v)' <=> IsLoaded(v) \/ v = u BY <1>1, <1>2 DEF IsLoaded
<1>6. ASSUME NEW n \in ClassNames
      PROVE  /\ Named(n)' = {} => factories'[n] = Unset_
             /\ Named(n)' # {} => \E k \in Named(n)' : IsFirst(k, n)'
             /\ \A k \in Named(n)' : IsFirst(k, n)' => factories'[n] = units'[k]
  <2>1. /\ Named(n) = {} => factories[n] = Unset_
        /\ Named(n) # {} => \E k \in Named(n) : IsFirst(k, n)
        /\ \A k \in Named(n) : IsFirst(k, n) => factories[n] = units[k]
    BY DEF AppInv, NamesInv
  <2>2. Named(n) \subseteq 1..L BY <1>2 DEF Named
  <2>3. CASE NameOf[u] # n
    <3>1. Named(n)' = Named(n) BY <1>1, <1>2, <2>3 DEF Named
    <3>2. \A k : IsFirst(k, n)' <=> IsFirst(k, n) BY <3>1 DEF IsFirst
    <3>3. factories'[n] = factories[n] BY <2>3, <1>3 DEF register_new, AppInv, AppTyped
    <3> QED BY <1>2, <2>1, <2>2, <3>1, <3>2, <3>3
  <2>4. CASE NameOf[u] = n
    <3>1. Named(n)' = Named(n) \cup {L + 1} BY <1>1, <1>2, <2>4 DEF Named
    <3>2. factories'[n] = IF factories[n] = Unset_ THEN u ELSE factories[n]
      BY <2>4, <1>3 DEF register_new, AppInv, AppTyped
    <3>3. CASE Named(n) = {}
      <4>1. Named(n)' = {L + 1} BY <3>1, <3>3
      <4>2. IsFirst(L + 1, n)' BY <4>1, <1>1 DEF IsFirst
      <4>3. factories'[n] = u BY <2>1, <3>2, <3>3
      <4> QED BY <1>2, <4>1, <4>2, <4>3
    <3>4. CASE Named(n) # {}
      <4>1. PICK k \in Named(n) : IsFirst(k, n) BY <2>1, <3>4
      <4>2. k \in 1..L BY <2>2, <4>1
      <4>3. factories[n] = units[k] /\ units[k] # Unset_
        BY <1>2, <2>1, <4>1, <4>2, NamesAssumption
      <4>4. factories'[n] = units[k] /\ units'[k] = units[k] BY <1>2, <3>2, <4>2, <4>3
      <4>7. \A j \in Named(n) : k <= j BY <4>1 DEF IsFirst
      <4>8. k <= L + 1 BY <1>1, <4>2
      <4>5. k \in Named(n)' /\ \A j \in Named(n)' : k <= j
        BY <3>1, <4>1, <4>7, <4>8
      <4>6. IsFirst(k, n)' BY <4>5 DEF IsFirst
      <4>9. ASSUME NEW j \in Named(n)', IsFirst(j, n)'
            PROVE  j = k
        <5>1. j <= k /\ k <= j BY <4>5, <4>9 DEF IsFirst
        <5>2. j \in 1..(L + 1) BY <2>2, <3>1, <1>1
        <5> QED BY <5>1, <5>2, <4>2, <1>1
      <4> QED BY <4>4, <4>5, <4>6, <4>9
    <3> QED BY <3>3, <3>4
  <2> QED BY <2>3, <2>4
<1>7. NamesInv' BY <1>6 DEF NamesInv
<1> QED BY <1>2, <1>4, <1>5, <1>7

(* Loading a unit: a thread that will register its state is the only one. *)
LEMMA LoadUnitKeeps ==
  ASSUME AppInv, NEW t \in Starters, NEW u \in Units, LoadUnit(t, u)
  PROVE  AppInv'
<1> DEFINE to == IF StateOf[u] THEN u ELSE "idle"
<1>1. /\ ~IsLoaded(u) /\ AppGoes(t, "idle", to) /\ register_new(u) /\ units' = Append(units, u)
      /\ \A s \in Starters : app_at[s] \notin Units
      /\ UNCHANGED <<m_once, state_factories, instance, lock_, registries, app_registry>>
  BY DEF LoadUnit
<1>2. to \in Places \cup Units /\ to \in {"idle", u} BY PlacesApart
<1> HIDE DEF to
<1>3. /\ app_at' \in [Starters -> Places \cup Units] /\ app_at[t] = "idle" /\ app_at'[t] = to
      /\ \A s \in Starters \ {t} : app_at'[s] = app_at[s]
  BY <1>1, <1>2, PlacesApart, AppWent DEF AppInv
<1>4. /\ NamesInv' /\ units' \in Seq(Units) /\ factories' \in [ClassNames -> Units \cup {Unset_}]
      /\ \A v : IsLoaded(v)' <=> IsLoaded(v) \/ v = u
  BY <1>1, NamesGrow
<1>5. AppTyped' BY <1>1, <1>3, <1>4 DEF AppInv, AppTyped
<1>6. to \notin {"build", "hold", "drop"} BY <1>2, PlacesApart DEF Places
<1>7. RegistriesInv' BY <1>1, <1>3, <1>6, RegistriesKept, PlacesApart DEF Places
<1>8. OnceInv' BY <1>1, <1>3, <1>6 DEF AppInv, OnceInv
<1>9. \A s \in Starters : app_at'[s] \in Units => s = t /\ app_at'[s] = u /\ StateOf[u]
  BY <1>1, <1>2, <1>3, PlacesApart DEF to
<1>10. ASSUME NEW s \in Starters, app_at'[s] \in Units
       PROVE  StateOf[app_at'[s]] /\ IsLoaded(app_at[s])'
  <2>1. app_at'[s] = u /\ StateOf[u] BY <1>9, <1>10
  <2>2. IsLoaded(u)' BY <1>4
  <2> QED BY <2>1, <2>2 DEF IsLoaded
<1>11. ASSUME NEW v \in Units
       PROVE  Registered(v)' <=> StateOf[v] /\ IsLoaded(v)' /\ \A s \in Starters : app_at'[s] # v
  <2>1. Registered(v)' <=> Registered(v) BY <1>1 DEF Registered
  <2>2. Registered(v) <=> StateOf[v] /\ IsLoaded(v)
    BY <1>1 DEF AppInv, StatesInv
  <2>3. CASE v = u
    <3>1. StateOf[u] => app_at'[t] = u BY <1>3 DEF to
    <3>2. ~Registered(v)' BY <1>1, <2>1, <2>2, <2>3
    <3> QED BY <3>1, <3>2, <2>3
  <2>4. CASE v # u
    <3>1. \A s \in Starters : app_at'[s] # v BY <1>9, <2>4
    <3>2. IsLoaded(v)' <=> IsLoaded(v) BY <1>4, <2>4
    <3> QED BY <2>1, <2>2, <3>1, <3>2
  <2> QED BY <2>3, <2>4
<1>12. \A r, s \in Starters : app_at'[r] \in Units /\ app_at'[s] \in Units => r = s BY <1>9
<1>13. StatesInv' BY <1>10, <1>11, <1>12, Zenon DEF StatesInv
<1> QED BY <1>4, <1>5, <1>7, <1>8, <1>13 DEF AppInv

(* Beginning to initialize the storage. *)
LEMMA InitializeKeeps ==
  ASSUME AppInv, NEW t \in Starters, Initialize(t)
  PROVE  AppInv'
<1>1. /\ m_once = "new" /\ UNCHANGED <<units, factories, state_factories, instance, lock_,
                 registries, app_at, app_registry>>
  BY DEF Initialize
<1>2. AppTyped' BY <1>1 DEF AppInv, AppTyped
<1>3. NamesInv' BY <1>1, NamesKept
<1>4. OnceInv' BY <1>1 DEF AppInv, OnceInv
<1>5. StatesInv' BY <1>1, Zenon DEF AppInv, StatesInv, IsLoaded, Registered
<1>6. RegistriesInv' BY <1>1, Zenon DEF AppInv, RegistriesInv, Builds, Mine
<1> QED BY <1>2, <1>3, <1>4, <1>5, <1>6 DEF AppInv

(* Initializing the storage loses nothing: there was nothing in it. *)
LEMMA InitializedKeeps ==
  ASSUME AppInv, NEW t \in Starters, Initialized(t)
  PROVE  AppInv'
<1>1. /\ m_once = t /\ state_factories' = <<>> /\ instance' = NoRegistry
      /\ UNCHANGED <<units, factories, lock_, registries, app_at, app_registry>>
      /\ m_once' = "done"
  BY DEF Initialized
<1>2. UNCHANGED <<units, factories, lock_, registries, app_at, app_registry,
                  state_factories, instance>>
  BY <1>1, PlacesApart DEF AppInv, OnceInv
<1>3. AppTyped' BY <1>2 DEF AppInv, AppTyped
<1>4. NamesInv' BY <1>1, NamesKept
<1>5. OnceInv' BY <1>1 DEF OnceInv
<1>6. StatesInv' BY <1>2, Zenon DEF AppInv, StatesInv, IsLoaded, Registered
<1>7. RegistriesInv' BY <1>2, Zenon DEF AppInv, RegistriesInv, Builds, Mine
<1> QED BY <1>3, <1>4, <1>5, <1>6, <1>7 DEF AppInv


(* A unit whose factory is registered is waited for no more. *)
LEMMA RegisterKeeps ==
  ASSUME AppInv, NEW t \in Starters, register_state_factory(t)
  PROVE  AppInv'
<1>1. /\ m_once = "done" /\ lock_ = NoOne /\ app_at[t] \in Units
      /\ state_factories' = Append(state_factories, app_at[t])
      /\ app_at' = [app_at EXCEPT ![t] = "idle"]
      /\ UNCHANGED <<units, factories, m_once, instance, lock_, registries, app_registry>>
  BY DEF register_state_factory, CanLock
<1>2. /\ app_at' \in [Starters -> Places \cup Units] /\ app_at'[t] = "idle"
      /\ \A s \in Starters \ {t} : app_at'[s] = app_at[s]
  BY <1>1, PlacesApart, AppWent DEF AppInv, AppGoes
<1>3. PICK u \in Units : u = app_at[t] BY <1>1
<1>4. PICK L \in Nat : state_factories \in Seq(Units) /\ L = Len(state_factories)
  BY DEF AppInv, AppTyped
<1>5. /\ state_factories' \in Seq(Units) /\ DOMAIN state_factories = 1..L
      /\ DOMAIN state_factories' = 1..(L + 1) /\ state_factories'[L + 1] = u
      /\ \A k \in 1..L : state_factories'[k] = state_factories[k]
  BY <1>1, <1>3, <1>4
<1>6. AppTyped' BY <1>1, <1>2, <1>5 DEF AppInv, AppTyped
<1>7. NamesInv' BY <1>1, NamesKept
<1>8. OnceInv' BY <1>1 DEF OnceInv
<1>9. RegistriesInv' BY <1>1, <1>2, PlacesApart, RegistriesKept DEF Places
<1>10. \A v : Registered(v)' <=> Registered(v) \/ v = u BY <1>4, <1>5 DEF Registered
<1>11. \A v : IsLoaded(v)' <=> IsLoaded(v) BY <1>1 DEF IsLoaded
<1>12. \A s \in Starters : app_at'[s] \notin Units
  BY <1>1, <1>2, PlacesApart DEF AppInv, StatesInv
<1>13. ASSUME NEW v \in Units
       PROVE  Registered(v)' <=> StateOf[v] /\ IsLoaded(v)' /\ \A s \in Starters : app_at'[s] # v
  <2>1. Registered(v) <=> StateOf[v] /\ IsLoaded(v) /\ \A s \in Starters : app_at[s] # v
    BY DEF AppInv, StatesInv
  <2>2. CASE v = u
    <3>1. StateOf[u] /\ IsLoaded(u) BY <1>3 DEF AppInv, StatesInv
    <3> QED BY <1>10, <1>11, <1>12, <2>2, <3>1
  <2>3. CASE v # u
    <3>1. \A s \in Starters : app_at[s] # v BY <1>3, <2>3 DEF AppInv, StatesInv
    <3> QED BY <1>10, <1>11, <1>12, <2>1, <2>3, <3>1
  <2> QED BY <2>2, <2>3
<1>14. StatesInv' BY <1>12, <1>13, Zenon DEF StatesInv
<1> QED BY <1>6, <1>7, <1>8, <1>9, <1>14 DEF AppInv

(* Waiting for the mutex. *)
LEMMA BeginKeeps ==
  ASSUME AppInv, NEW t \in Starters, Begin(t)
  PROVE  AppInv'
<1>1. /\ AppGoes(t, "idle", "lock")
      /\ UNCHANGED <<units, factories, m_once, state_factories, instance, lock_,
                     registries, app_registry>>
  BY DEF Begin
<1>2. /\ app_at' \in [Starters -> Places \cup Units] /\ app_at[t] = "idle" /\ app_at'[t] = "lock"
      /\ \A s \in Starters \ {t} : app_at'[s] = app_at[s]
  BY <1>1, PlacesApart, AppWent DEF AppInv
<1>3. AppTyped' BY <1>1, <1>2 DEF AppInv, AppTyped
<1>4. NamesInv' BY <1>1, NamesKept
<1>5. OnceInv' BY <1>1, <1>2 DEF AppInv, OnceInv
<1>6. StatesInv' BY <1>1, <1>2, PlacesApart, StatesKept
<1>7. RegistriesInv' BY <1>1, <1>2, RegistriesKept
<1> QED BY <1>3, <1>4, <1>5, <1>6, <1>7 DEF AppInv

(* Who builds has the mutex. *)
LEMMA BuilderLocks ==
  ASSUME AppInv, NEW s \in Starters, app_at[s] = "build"
  PROVE  lock_ = s /\ lock_ # NoOne
BY PlacesApart DEF AppInv, RegistriesInv, Builds

(* Sharing the registry that another thread holds. *)
LEMMA ShareKeeps ==
  ASSUME AppInv, NEW t \in Starters, Share(t)
  PROVE  AppInv'
<1>1. /\ m_once = "done" /\ lock_ = NoOne /\ AppGoes(t, "lock", "hold") /\ InstanceAlive
      /\ app_registry' = [app_registry EXCEPT ![t] = instance]
      /\ UNCHANGED <<units, factories, m_once, state_factories, instance, lock_, registries>>
  BY DEF Share, CanLock
<1>2. /\ app_at' \in [Starters -> Places \cup Units] /\ app_at[t] = "lock" /\ app_at'[t] = "hold"
      /\ \A s \in Starters \ {t} : app_at'[s] = app_at[s]
  BY <1>1, PlacesApart, AppWent DEF AppInv
<1>3. PICK h \in Starters : app_registry[h] = instance /\ app_at[h] = "hold"
  BY <1>1 DEF InstanceAlive, Holders
<1>4. instance # NoRegistry BY <1>1 DEF InstanceAlive
<1>5. /\ app_registry' \in [Starters -> (1..Len(registries)) \cup {NoRegistry}]
      /\ app_registry'[t] = instance
      /\ \A s \in Starters \ {t} : app_registry'[s] = app_registry[s]
  BY <1>1 DEF AppInv, AppTyped
<1>6. AppTyped' BY <1>1, <1>2, <1>5 DEF AppInv, AppTyped
<1>7. NamesInv' BY <1>1, NamesKept
<1>8. OnceInv' BY <1>1 DEF OnceInv
<1>9. StatesInv' BY <1>1, <1>2, PlacesApart, StatesKept
<1>10. \A s \in Starters : app_at[s] # "build" BY <1>1, BuilderLocks
<1>11. \A s \in Starters : app_at'[s] # "build" BY <1>2, <1>10
<1>12. ASSUME NEW s \in Starters, app_at'[s] = "hold"
       PROVE  app_registry'[s] = instance' /\ Mine(s)'.states = Mine(s)'.wanted
  <2>1. CASE s = t
    <3>1. Mine(t)' = Mine(h) BY <1>1, <1>3, <1>5 DEF Mine
    <3>2. Mine(h).states = Mine(h).wanted BY <1>3 DEF AppInv, RegistriesInv
    <3> QED BY <1>1, <1>5, <2>1, <3>1, <3>2
  <2>2. CASE s # t
    <3>1. app_at[s] = "hold" /\ app_registry'[s] = app_registry[s] BY <1>2, <1>5, <1>12, <2>2
    <3>2. Mine(s)' = Mine(s) BY <1>1, <3>1 DEF Mine
    <3>3. app_registry[s] = instance /\ Mine(s).states = Mine(s).wanted
      BY <3>1 DEF AppInv, RegistriesInv
    <3> QED BY <1>1, <3>1, <3>2, <3>3
  <2> QED BY <2>1, <2>2
<1>13. \A s \in Starters : app_at'[s] \in {"build", "hold", "drop"} => app_registry'[s] # NoRegistry
  BY <1>2, <1>4, <1>5 DEF AppInv, RegistriesInv
<1>14. ASSUME NEW r \in Starters, NEW s \in Starters,
              app_at'[s] = "drop", app_at'[r] \in {"build", "hold"}
       PROVE  app_registry'[r] # app_registry'[s]
  <2>1. s # t /\ app_at[s] = "drop" /\ app_registry'[s] = app_registry[s]
    BY <1>2, <1>5, <1>14
  <2>2. CASE r = t
    BY <1>3, <1>5, <2>1, <2>2 DEF AppInv, RegistriesInv
  <2>3. CASE r # t
    BY <1>2, <1>5, <1>14, <2>1, <2>3 DEF AppInv, RegistriesInv
  <2> QED BY <2>2, <2>3
<1>15. RegistriesInv' BY <1>11, <1>12, <1>13, <1>14, Zenon DEF RegistriesInv
<1> QED BY <1>6, <1>7, <1>8, <1>9, <1>15 DEF AppInv

(* While nobody holds a registry and the mutex is free, one is begun. *)
LEMMA BuildRegistryKeeps ==
  ASSUME AppInv, NEW t \in Starters, BuildRegistry(t)
  PROVE  AppInv'
<1> DEFINE new == [states |-> <<>>, wanted |-> state_factories]
<1>1. /\ m_once = "done" /\ lock_ = NoOne /\ AppGoes(t, "lock", "build") /\ ~InstanceAlive
      /\ Len(registries) < MaxRegistries /\ lock_' = t
      /\ registries' = Append(registries, new)
      /\ app_registry' = [app_registry EXCEPT ![t] = Len(registries) + 1]
      /\ UNCHANGED <<units, factories, m_once, state_factories, instance>>
  BY DEF BuildRegistry, CanLock
<1>2. /\ app_at' \in [Starters -> Places \cup Units] /\ app_at[t] = "lock" /\ app_at'[t] = "build"
      /\ \A s \in Starters \ {t} : app_at'[s] = app_at[s]
  BY <1>1, PlacesApart, AppWent DEF AppInv
<1>3. PICK L \in Nat : L = Len(registries) /\ registries \in Seq(Registries)
  BY DEF AppInv, AppTyped
<1>4. new \in Registries BY DEF AppInv, AppTyped, Registries
<1>5. new.states = <<>> /\ new.wanted = state_factories OBVIOUS
<1> HIDE DEF new
<1>6. /\ registries' \in Seq(Registries) /\ Len(registries') = L + 1
      /\ registries'[L + 1] = new
      /\ \A k \in 1..L : registries'[k] = registries[k]
  BY <1>1, <1>3, <1>4
<1>7. L + 1 <= MaxRegistries BY <1>1, <1>3, RegistryBound
<1>8. L + 1 # NoRegistry BY <1>7, <1>3, NamesAssumption, RegistryBound
<1>9. 1..L \subseteq 1..(L + 1) /\ L + 1 \in 1..(L + 1) /\ L + 1 \notin 1..L BY <1>3
<1>10. /\ app_registry' \in [Starters -> (1..(L + 1)) \cup {NoRegistry}]
       /\ app_registry'[t] = L + 1
       /\ \A s \in Starters \ {t} : app_registry'[s] = app_registry[s]
  BY <1>1, <1>3, <1>9 DEF AppInv, AppTyped
<1>11. instance' \in (1..(L + 1)) \cup {NoRegistry} BY <1>1, <1>3, <1>9 DEF AppInv, AppTyped
<1>12. AppTyped' BY <1>1, <1>2, <1>6, <1>7, <1>10, <1>11 DEF AppInv, AppTyped
<1>13. NamesInv' BY <1>1, NamesKept
<1>14. OnceInv' BY <1>1 DEF OnceInv
<1>15. StatesInv' BY <1>1, <1>2, PlacesApart, StatesKept
<1>16. ASSUME NEW s \in Starters
       PROVE  app_at[s] \notin {"build", "hold"}
  <2>1. app_at[s] # "build" BY <1>1, BuilderLocks
  <2>2. SUFFICES ASSUME app_at[s] = "hold" PROVE FALSE BY <2>1
  <2>3. app_registry[s] = instance /\ instance # NoRegistry
    BY <2>2 DEF AppInv, RegistriesInv
  <2> QED BY <1>1, <2>2, <2>3 DEF InstanceAlive, Holders
<1>17. \A s \in Starters : app_at'[s] # "hold" /\ (app_at'[s] = "build" => s = t)
  BY <1>2, <1>16
<1>18. Mine(t)' = new BY <1>6, <1>10 DEF Mine
<1>19. Builds(t)'
  <2>1. Mine(t)'.wanted = state_factories' /\ Mine(t)'.states = <<>> BY <1>1, <1>5, <1>18
  <2>2. Len(Mine(t)'.states) = 0 /\ 1..0 = {} BY <2>1
  <2>3. 0 <= Len(state_factories') BY <1>1 DEF AppInv, AppTyped
  <2> QED BY <1>1, <2>1, <2>2, <2>3 DEF Builds
<1>20. \A s \in Starters : app_at'[s] \in {"build", "hold", "drop"} => app_registry'[s] # NoRegistry
  BY <1>2, <1>8, <1>10 DEF AppInv, RegistriesInv
<1>21. ASSUME NEW r \in Starters, NEW s \in Starters,
              app_at'[s] = "drop", app_at'[r] \in {"build", "hold"}
       PROVE  app_registry'[r] # app_registry'[s]
  <2>1. r = t /\ s # t /\ app_registry'[s] = app_registry[s] /\ app_at[s] = "drop"
    BY <1>2, <1>10, <1>17, <1>21
  <2>2. app_registry[s] \in 1..L BY <1>3, <2>1, RegistryIs
  <2> QED BY <1>9, <1>10, <2>1, <2>2
<1>22. RegistriesInv' BY <1>17, <1>19, <1>20, <1>21, Zenon DEF RegistriesInv
<1> QED BY <1>12, <1>13, <1>14, <1>15, <1>22 DEF AppInv


(* While a thread builds, no other does, and none holds a registry. *)
LEMMA BuilderAlone ==
  ASSUME AppInv, NEW t \in Starters, app_at[t] = "build"
  PROVE  \A s \in Starters \ {t} : app_at[s] \notin {"build", "hold"}
<1>1. \A s \in Starters : app_at[s] # "hold" BY DEF AppInv, RegistriesInv
<1>2. \A s \in Starters : app_at[s] = "build" => s = t BY BuilderLocks
<1> QED BY <1>1, <1>2

(* The states built are the first of those registered. *)
LEMMA BuildStateKeeps ==
  ASSUME AppInv, NEW t \in Starters, BuildState(t)
  PROVE  AppInv'
<1> DEFINE r == app_registry[t]
           old == registries[r].states
           new == Append(old, state_factories[Len(old) + 1])
<1>1. /\ app_at[t] = "build" /\ Len(old) < Len(state_factories)
      /\ registries' = [registries EXCEPT ![r].states = new]
      /\ UNCHANGED <<units, factories, m_once, state_factories, instance, lock_,
                     app_at, app_registry>>
  BY DEF BuildState, Mine
<1>2. /\ r \in 1..Len(registries) /\ old \in Seq(Units) BY <1>1, RegistryIs DEF Mine
<1>3. /\ lock_ = t /\ registries[r].wanted = state_factories
      /\ \A k \in 1..Len(old) : old[k] = state_factories[k]
  BY <1>1 DEF AppInv, RegistriesInv, Builds, Mine
<1>4. state_factories \in Seq(Units) BY DEF AppInv, AppTyped
<1> HIDE DEF old
<1>5. /\ new \in Seq(Units) /\ Len(new) = Len(old) + 1 /\ Len(new) <= Len(state_factories)
      /\ \A k \in 1..Len(new) : new[k] = state_factories[k]
  <2>1. PICK L \in Nat : L = Len(old) /\ L < Len(state_factories) BY <1>1, <1>2
  <2>2. L + 1 \in 1..Len(state_factories) BY <1>4, <2>1
  <2>3. state_factories[L + 1] \in Units BY <1>4, <2>2, ElementOfSeq
  <2>4. /\ new \in Seq(Units) /\ Len(new) = L + 1 /\ new[L + 1] = state_factories[L + 1]
        /\ \A k \in 1..L : new[k] = old[k]
    BY <1>2, <2>1, <2>3
  <2>5. L + 1 <= Len(state_factories) BY <2>2, <1>4
  <2> QED BY <1>3, <2>1, <2>4, <2>5
<1> HIDE DEF new, r
<1>6. /\ registries' \in Seq(Registries) /\ Len(registries') = Len(registries)
      /\ registries'[r].states = new /\ registries'[r].wanted = registries[r].wanted
      /\ \A q \in 1..Len(registries) : q # r => registries'[q] = registries[q]
  BY <1>1, <1>2, <1>5, StatesSet
<1>7. AppTyped' BY <1>1, <1>6 DEF AppInv, AppTyped
<1>8. NamesInv' BY <1>1, NamesKept
<1>9. OnceInv' BY <1>1 DEF AppInv, OnceInv
<1>10. StatesInv' BY <1>1, Zenon DEF AppInv, StatesInv, IsLoaded, Registered
<1>11. \A s \in Starters \ {t} : app_at[s] \notin {"build", "hold"} BY <1>1, BuilderAlone
<1>12. Builds(t)'
  <2>1. Mine(t)' = registries'[r] BY <1>1 DEF Mine, r
  <2> QED BY <1>1, <1>3, <1>5, <1>6, <2>1 DEF Builds
<1>13. \A s \in Starters : app_at'[s] # "hold" /\ (app_at'[s] = "build" => s = t)
  BY <1>1, <1>11
<1>14. /\ \A s \in Starters : app_at'[s] \in {"build", "hold", "drop"} =>
            app_registry'[s] # NoRegistry
       /\ \A q, s \in Starters : app_at'[s] = "drop" /\ app_at'[q] \in {"build", "hold"} =>
            app_registry'[q] # app_registry'[s]
  BY <1>1 DEF AppInv, RegistriesInv
<1>15. RegistriesInv' BY <1>12, <1>13, <1>14, Zenon DEF RegistriesInv
<1> QED BY <1>7, <1>8, <1>9, <1>10, <1>15 DEF AppInv

(* A factory that throws leaves nobody who builds or holds. *)
LEMMA FactoryThrowsKeeps ==
  ASSUME AppInv, NEW t \in Starters, FactoryThrows(t)
  PROVE  AppInv'
<1> DEFINE r == app_registry[t]
<1>1. /\ AppGoes(t, "build", "idle")
      /\ registries' = [registries EXCEPT ![r].states = <<>>]
      /\ app_registry' = [app_registry EXCEPT ![t] = NoRegistry]
      /\ UNCHANGED <<units, factories, m_once, state_factories, instance>>
  BY DEF FactoryThrows
<1>2. /\ app_at' \in [Starters -> Places \cup Units] /\ app_at[t] = "build" /\ app_at'[t] = "idle"
      /\ \A s \in Starters \ {t} : app_at'[s] = app_at[s]
  BY <1>1, PlacesApart, AppWent DEF AppInv
<1>3. r \in 1..Len(registries) BY <1>2, RegistryIs
<1> HIDE DEF r
<1>4. registries' \in Seq(Registries) /\ Len(registries') = Len(registries)
  <2>1. <<>> \in Seq(Units) OBVIOUS
  <2> QED BY <1>1, <1>3, <2>1, StatesSet
<1>5. /\ app_registry' \in [Starters -> (1..Len(registries)) \cup {NoRegistry}]
      /\ \A s \in Starters \ {t} : app_registry'[s] = app_registry[s]
  BY <1>1 DEF AppInv, AppTyped
<1>6. AppTyped' BY <1>1, <1>2, <1>4, <1>5 DEF AppInv, AppTyped
<1>7. NamesInv' BY <1>1, NamesKept
<1>8. OnceInv' BY <1>1, <1>2 DEF AppInv, OnceInv
<1>9. StatesInv' BY <1>1, <1>2, PlacesApart, StatesKept
<1>10. \A s \in Starters \ {t} : app_at[s] \notin {"build", "hold"} BY <1>2, BuilderAlone
<1>11. \A s \in Starters : app_at'[s] \notin {"build", "hold"} BY <1>2, <1>10
<1>12. \A s \in Starters : app_at'[s] \in {"build", "hold", "drop"} => app_registry'[s] # NoRegistry
  BY <1>2, <1>5 DEF AppInv, RegistriesInv
<1>13. RegistriesInv' BY <1>11, <1>12, Zenon DEF RegistriesInv
<1> QED BY <1>6, <1>7, <1>8, <1>9, <1>13 DEF AppInv

(* With as many states as factories, all are built. *)
LEMMA BuiltKeeps ==
  ASSUME AppInv, NEW t \in Starters, Built_(t)
  PROVE  AppInv'
<1>1. /\ AppGoes(t, "build", "hold") /\ Len(Mine(t).states) = Len(state_factories)
      /\ instance' = app_registry[t]
      /\ UNCHANGED <<units, factories, m_once, state_factories, registries, app_registry>>
  BY DEF Built_
<1>2. /\ app_at' \in [Starters -> Places \cup Units] /\ app_at[t] = "build" /\ app_at'[t] = "hold"
      /\ \A s \in Starters \ {t} : app_at'[s] = app_at[s]
  BY <1>1, PlacesApart, AppWent DEF AppInv
<1>3. /\ app_registry[t] \in 1..Len(registries) /\ Mine(t).states \in Seq(Units)
  BY <1>2, RegistryIs
<1>4. Mine(t).states = Mine(t).wanted
  <2>1. state_factories \in Seq(Units) BY DEF AppInv, AppTyped
  <2>2. /\ Mine(t).wanted = state_factories
        /\ \A k \in 1..Len(Mine(t).states) : Mine(t).states[k] = state_factories[k]
    BY <1>2 DEF AppInv, RegistriesInv, Builds
  <2> QED BY <1>1, <1>3, <2>1, <2>2, SeqEqual
<1>5. AppTyped' BY <1>1, <1>2, <1>3 DEF AppInv, AppTyped
<1>6. NamesInv' BY <1>1, NamesKept
<1>7. OnceInv'
  <2>1. m_once = "done" BY <1>2 DEF AppInv, OnceInv
  <2> QED BY <1>1, <2>1 DEF OnceInv
<1>8. StatesInv' BY <1>1, <1>2, PlacesApart, StatesKept
<1>9. \A s \in Starters \ {t} : app_at[s] \notin {"build", "hold"} BY <1>2, BuilderAlone
<1>10. \A s \in Starters : app_at'[s] # "build" /\ (app_at'[s] = "hold" => s = t)
  BY <1>2, <1>9
<1>11. app_registry'[t] = instance' /\ Mine(t)'.states = Mine(t)'.wanted
  BY <1>1, <1>4 DEF Mine
<1>12. \A s \in Starters : app_at'[s] \in {"build", "hold", "drop"} => app_registry'[s] # NoRegistry
  BY <1>1, <1>2 DEF AppInv, RegistriesInv
<1>13. \A q, s \in Starters : app_at'[s] = "drop" /\ app_at'[q] \in {"build", "hold"} =>
         app_registry'[q] # app_registry'[s]
  <2>1. SUFFICES ASSUME NEW s \in Starters, app_at'[s] = "drop"
                 PROVE  app_registry'[t] # app_registry'[s]
    BY <1>10
  <2>2. app_at[s] = "drop" BY <1>2, <2>1
  <2> QED BY <1>1, <1>2, <2>2 DEF AppInv, RegistriesInv
<1>14. RegistriesInv' BY <1>10, <1>11, <1>12, <1>13, Zenon DEF RegistriesInv
<1> QED BY <1>5, <1>6, <1>7, <1>8, <1>14 DEF AppInv

(* exec() touches no state. *)
LEMMA ExecKeeps ==
  ASSUME AppInv, NEW t \in Starters, exec(t)
  PROVE  AppInv'
<1>1. UNCHANGED <<units, factories, m_once, state_factories, instance, lock_, registries,
                  app_at, app_registry>>
  BY DEF exec
<1>2. AppTyped' BY <1>1 DEF AppInv, AppTyped
<1>3. NamesInv' BY <1>1, NamesKept
<1>4. OnceInv' BY <1>1 DEF AppInv, OnceInv
<1>5. StatesInv' BY <1>1, Zenon DEF AppInv, StatesInv, IsLoaded, Registered
<1>6. RegistriesInv' BY <1>1, Zenon DEF AppInv, RegistriesInv, Builds, Mine
<1> QED BY <1>2, <1>3, <1>4, <1>5, <1>6 DEF AppInv

(* The others keep their registry when t lets its own go or begins to drop *)
(* it as the last one.                                                     *)
LEMMA DropApplicationKeeps ==
  ASSUME AppInv, NEW t \in Starters, DropApplication(t)
  PROVE  AppInv'
<1> DEFINE last == Holders(app_registry[t]) = {t}
           to == IF last THEN "drop" ELSE "idle"
<1>1. /\ AppGoes(t, "hold", to)
      /\ app_registry' = [app_registry EXCEPT ![t] = IF last THEN app_registry[t] ELSE NoRegistry]
      /\ UNCHANGED <<units, factories, m_once, state_factories, instance, lock_, registries>>
  BY DEF DropApplication
<1>2. to \in {"drop", "idle"} /\ (to = "drop" => last) OBVIOUS
<1>3. app_registry' \in [Starters -> (1..Len(registries)) \cup {NoRegistry}]
  BY <1>1 DEF AppInv, AppTyped
<1>4. \A s \in Starters \ {t} : app_registry'[s] = app_registry[s]
  BY <1>1 DEF AppInv, AppTyped
<1>5. to = "drop" => app_registry'[t] = app_registry[t]
  BY <1>1, <1>2 DEF AppInv, AppTyped
<1> HIDE DEF to
<1>6. /\ app_at' \in [Starters -> Places \cup Units] /\ app_at[t] = "hold" /\ app_at'[t] = to
      /\ \A s \in Starters \ {t} : app_at'[s] = app_at[s]
  BY <1>1, <1>2, PlacesApart, AppWent DEF AppInv
<1>7. AppTyped' BY <1>1, <1>3, <1>6 DEF AppInv, AppTyped
<1>8. NamesInv' BY <1>1, NamesKept
<1>9. OnceInv' BY <1>1, <1>6 DEF AppInv, OnceInv
<1>10. StatesInv' BY <1>1, <1>2, <1>6, PlacesApart, StatesKept
<1>11. \A s \in Starters : app_at[s] # "build" BY <1>6 DEF AppInv, RegistriesInv
<1>12. \A s \in Starters : app_at'[s] # "build" BY <1>2, <1>6, <1>11
<1>13. ASSUME NEW s \in Starters, app_at'[s] = "hold"
       PROVE  /\ s # t /\ app_at[s] = "hold" /\ app_registry'[s] = app_registry[s]
              /\ app_registry'[s] = instance' /\ Mine(s)'.states = Mine(s)'.wanted
  <2>1. s # t BY <1>2, <1>6, <1>13
  <2>2. app_at[s] = "hold" /\ app_registry'[s] = app_registry[s] BY <1>4, <1>6, <1>13, <2>1
  <2>3. Mine(s)' = Mine(s) BY <1>1, <2>2 DEF Mine
  <2>4. app_registry[s] = instance /\ Mine(s).states = Mine(s).wanted
    BY <2>2 DEF AppInv, RegistriesInv
  <2> QED BY <1>1, <2>1, <2>2, <2>3, <2>4
<1>14. \A s \in Starters : app_at'[s] \in {"build", "hold", "drop"} => app_registry'[s] # NoRegistry
  BY <1>2, <1>4, <1>5, <1>6 DEF AppInv, RegistriesInv
<1>15. ASSUME NEW q \in Starters, NEW s \in Starters,
              app_at'[s] = "drop", app_at'[q] \in {"build", "hold"}
       PROVE  app_registry'[q] # app_registry'[s]
  <2>1. q # t /\ app_at[q] = "hold" /\ app_registry'[q] = app_registry[q]
    BY <1>12, <1>13, <1>15
  <2>2. CASE s = t
    <3>1. last BY <1>2, <1>6, <1>15, <2>2
    <3>2. app_registry[q] = instance /\ app_registry[t] = instance
      BY <1>6, <2>1 DEF AppInv, RegistriesInv
    <3>3. q \in Holders(app_registry[t]) BY <2>1, <3>2 DEF Holders
    <3> QED BY <2>1, <3>1, <3>3
  <2>3. CASE s # t
    <3>1. app_at[s] = "drop" /\ app_registry'[s] = app_registry[s] BY <1>4, <1>6, <1>15, <2>3
    <3> QED BY <2>1, <3>1 DEF AppInv, RegistriesInv
  <2> QED BY <2>2, <2>3
<1>16. RegistriesInv' BY <1>12, <1>13, <1>14, <1>15, Zenon DEF RegistriesInv
<1> QED BY <1>7, <1>8, <1>9, <1>10, <1>16 DEF AppInv

(* Nobody who builds or holds a registry has the one that is dropped. *)
LEMMA DestroyStateKeeps ==
  ASSUME AppInv, NEW t \in Starters, DestroyState(t)
  PROVE  AppInv'
<1> DEFINE r == app_registry[t]
           left == Tail(registries[r].states)
<1>1. /\ app_at[t] = "drop" /\ Mine(t).states # <<>>
      /\ registries' = [registries EXCEPT ![r].states = left]
      /\ UNCHANGED <<units, factories, m_once, state_factories, instance, lock_,
                     app_at, app_registry>>
  BY DEF DestroyState
<1>2. r \in 1..Len(registries) /\ left \in Seq(Units) BY <1>1, RegistryIs DEF Mine
<1> HIDE DEF r, left
<1>3. /\ registries' \in Seq(Registries) /\ Len(registries') = Len(registries)
      /\ \A q \in 1..Len(registries) : q # r => registries'[q] = registries[q]
  BY <1>1, <1>2, StatesSet
<1>4. AppTyped' BY <1>1, <1>3 DEF AppInv, AppTyped
<1>5. NamesInv' BY <1>1, NamesKept
<1>6. OnceInv' BY <1>1 DEF AppInv, OnceInv
<1>7. StatesInv' BY <1>1, Zenon DEF AppInv, StatesInv, IsLoaded, Registered
<1>8. ASSUME NEW s \in Starters, app_at[s] \in {"build", "hold"}
      PROVE  Mine(s)' = Mine(s)
  <2>1. app_registry[s] # r BY <1>1, <1>8 DEF AppInv, RegistriesInv, r
  <2>2. app_registry[s] \in 1..Len(registries) BY <1>8, RegistryIs
  <2> QED BY <1>1, <1>3, <2>1, <2>2 DEF Mine
<1>9. ASSUME NEW s \in Starters, app_at'[s] = "build"
      PROVE  Builds(s)'
  <2>1. Builds(s) BY <1>1, <1>9 DEF AppInv, RegistriesInv
  <2>2. Mine(s)' = Mine(s) BY <1>1, <1>8, <1>9
  <2> QED BY <1>1, <2>1, <2>2 DEF Builds
<1>10. ASSUME NEW s \in Starters, app_at'[s] = "hold"
       PROVE  app_registry'[s] = instance' /\ Mine(s)'.states = Mine(s)'.wanted
  <2>1. app_registry[s] = instance /\ Mine(s).states = Mine(s).wanted
    BY <1>1, <1>10 DEF AppInv, RegistriesInv
  <2>2. Mine(s)' = Mine(s) BY <1>1, <1>8, <1>10
  <2> QED BY <1>1, <2>1, <2>2
<1>11. /\ \A s \in Starters : app_at'[s] \in {"build", "hold", "drop"} =>
            app_registry'[s] # NoRegistry
       /\ \A q, s \in Starters : app_at'[s] = "build" => app_at'[q] # "hold"
       /\ \A q, s \in Starters : app_at'[s] = "drop" /\ app_at'[q] \in {"build", "hold"} =>
            app_registry'[q] # app_registry'[s]
  BY <1>1 DEF AppInv, RegistriesInv
<1>12. RegistriesInv' BY <1>9, <1>10, <1>11, Zenon DEF RegistriesInv
<1> QED BY <1>4, <1>5, <1>6, <1>7, <1>12 DEF AppInv

(* The end of the last application. *)
LEMMA DestroyedKeeps ==
  ASSUME AppInv, NEW t \in Starters, Destroyed(t)
  PROVE  AppInv'
<1>1. /\ AppGoes(t, "drop", "idle")
      /\ app_registry' = [app_registry EXCEPT ![t] = NoRegistry]
      /\ UNCHANGED <<units, factories, m_once, state_factories, instance, lock_, registries>>
  BY DEF Destroyed
<1>2. /\ app_at' \in [Starters -> Places \cup Units] /\ app_at[t] = "drop" /\ app_at'[t] = "idle"
      /\ \A s \in Starters \ {t} : app_at'[s] = app_at[s]
  BY <1>1, PlacesApart, AppWent DEF AppInv
<1>3. /\ app_registry' \in [Starters -> (1..Len(registries)) \cup {NoRegistry}]
      /\ \A s \in Starters \ {t} : app_registry'[s] = app_registry[s]
  BY <1>1 DEF AppInv, AppTyped
<1>4. AppTyped' BY <1>1, <1>2, <1>3 DEF AppInv, AppTyped
<1>5. NamesInv' BY <1>1, NamesKept
<1>6. OnceInv' BY <1>1, <1>2 DEF AppInv, OnceInv
<1>7. StatesInv' BY <1>1, <1>2, PlacesApart, StatesKept
<1>8. \A s \in Starters : app_at'[s] \in {"build", "hold", "drop"} =>
        s # t /\ app_at'[s] = app_at[s] /\ app_registry'[s] = app_registry[s]
  BY <1>2, <1>3
<1>9. ASSUME NEW s \in Starters, app_at'[s] = "build"
      PROVE  Builds(s)'
  <2>1. Builds(s) BY <1>8, <1>9 DEF AppInv, RegistriesInv
  <2>2. Mine(s)' = Mine(s) BY <1>1, <1>8, <1>9 DEF Mine
  <2> QED BY <1>1, <2>1, <2>2 DEF Builds
<1>10. ASSUME NEW s \in Starters, app_at'[s] = "hold"
       PROVE  app_registry'[s] = instance' /\ Mine(s)'.states = Mine(s)'.wanted
  <2>1. app_registry[s] = instance /\ Mine(s).states = Mine(s).wanted
    BY <1>8, <1>10 DEF AppInv, RegistriesInv
  <2>2. Mine(s)' = Mine(s) BY <1>1, <1>8, <1>10 DEF Mine
  <2> QED BY <1>1, <1>8, <1>10, <2>1, <2>2
<1>11. \A s \in Starters : app_at'[s] \in {"build", "hold", "drop"} => app_registry'[s] # NoRegistry
  BY <1>8 DEF AppInv, RegistriesInv
<1>12. \A q, s \in Starters : app_at'[s] = "build" => app_at'[q] # "hold"
  BY <1>8 DEF AppInv, RegistriesInv
<1>13. \A q, s \in Starters : app_at'[s] = "drop" /\ app_at'[q] \in {"build", "hold"} =>
         app_registry'[q] # app_registry'[s]
  BY <1>8 DEF AppInv, RegistriesInv
<1>14. RegistriesInv' BY <1>9, <1>10, <1>11, <1>12, <1>13, Zenon DEF RegistriesInv
<1> QED BY <1>4, <1>5, <1>6, <1>7, <1>14 DEF AppInv

----------------------------------------------------------------------------
(* The invariant of a program's start, applications and end *)

(* The invariant holds at first. *)
LEMMA AppInvInit ==
  ASSUME AppInit
  PROVE  AppInv
<1>1. /\ units = <<>> /\ state_factories = <<>> /\ registries = <<>> /\ instance = NoRegistry
      /\ factories = [n \in ClassNames |-> Unset_]
      /\ \A t \in Starters : app_at[t] = "idle"
      /\ app_at = [t \in Starters |-> "idle"]
      /\ app_registry = [t \in Starters |-> NoRegistry]
  BY DEF AppInit
<1>2. Len(registries) = 0 /\ Len(registries) <= MaxRegistries BY <1>1, RegistryBound
<1>3. AppTyped BY <1>1, <1>2 DEF AppTyped, Places
<1>4. \A n : Named(n) = {} BY <1>1 DEF Named
<1>5. NamesInv BY <1>1, <1>4 DEF NamesInv
<1>6. \A u : ~Registered(u) /\ ~IsLoaded(u) BY <1>1 DEF Registered, IsLoaded
<1>7. \A t \in Starters : app_at[t] \notin Units BY <1>1, PlacesApart
<1>8. StatesInv BY <1>6, <1>7 DEF StatesInv
<1>9. OnceInv BY <1>1 DEF OnceInv
<1>10. RegistriesInv BY <1>1 DEF RegistriesInv
<1> QED BY <1>3, <1>5, <1>8, <1>9, <1>10 DEF AppInv

(* The invariant is kept by every step. *)
LEMMA AppInvNext ==
  ASSUME AppInv, [AppNext]_appVars
  PROVE  AppInv'
<1>1. CASE UNCHANGED appVars
  <2>1. UNCHANGED <<units, factories, m_once, state_factories, instance, lock_, registries,
                    app_at, app_registry>>
    BY <1>1 DEF appVars
  <2>2. AppTyped' BY <2>1 DEF AppInv, AppTyped
  <2>3. NamesInv' BY <2>1, NamesKept
  <2>4. OnceInv' BY <2>1 DEF AppInv, OnceInv
  <2>5. StatesInv' BY <2>1, Zenon DEF AppInv, StatesInv, IsLoaded, Registered
  <2>6. RegistriesInv' BY <2>1, Zenon DEF AppInv, RegistriesInv, Builds, Mine
  <2> QED BY <2>2, <2>3, <2>4, <2>5, <2>6 DEF AppInv
<1>2. ASSUME NEW t \in Starters,
             \/ \E u \in Units : LoadUnit(t, u)
             \/ Initialize(t) \/ Initialized(t) \/ register_state_factory(t)
             \/ Begin(t) \/ Share(t) \/ BuildRegistry(t) \/ BuildState(t)
             \/ FactoryThrows(t) \/ Built_(t)
             \/ exec(t) \/ DropApplication(t) \/ DestroyState(t) \/ Destroyed(t)
      PROVE  AppInv'
  BY <1>2, LoadUnitKeeps, InitializeKeeps, InitializedKeeps, RegisterKeeps, BeginKeeps,
     ShareKeeps, BuildRegistryKeeps, BuildStateKeeps, FactoryThrowsKeeps, BuiltKeeps,
     ExecKeeps, DropApplicationKeeps, DestroyStateKeeps, DestroyedKeeps
<1>3. CASE AppNext BY <1>2, <1>3, Zenon DEF AppNext
<1> QED BY <1>1, <1>3

(* The invariant says what is checked; the first unit of a name is the one *)
(* that the property chooses.                                              *)
LEMMA AppInvShows ==
  ASSUME AppInv
  PROVE  StatesOutlive /\ RegistrationsKept
<1>1. StatesOutlive BY DEF AppInv, RegistriesInv, StatesOutlive
<1>2. ASSUME NEW n \in ClassNames
      PROVE  factories[n] = IF Named(n) = {} THEN Unset_
                            ELSE units[CHOOSE k \in Named(n) : \A j \in Named(n) : k <= j]
  <2>1. CASE Named(n) = {} BY <2>1 DEF AppInv, NamesInv
  <2>2. CASE Named(n) # {}
    <3>1. PICK k \in Named(n) : \A j \in Named(n) : k <= j
      BY <2>2 DEF AppInv, NamesInv, IsFirst
    <3>2. PICK c : c = CHOOSE k_1 \in Named(n) : \A j \in Named(n) : k_1 <= j OBVIOUS
    <3>3. c \in Named(n) /\ \A j \in Named(n) : c <= j BY <3>1, <3>2
    <3>4. factories[n] = units[c] BY <3>3 DEF AppInv, NamesInv, IsFirst
    <3> QED BY <2>2, <3>2, <3>4
  <2> QED BY <2>1, <2>2
<1>3. \A u \in Units : Registered(u) <=> StateOf[u] /\ IsLoaded(u) /\ \A t \in Starters : app_at[t] # u
  BY DEF AppInv, StatesInv
<1>4. RegistrationsKept BY <1>2, <1>3, Zenon DEF RegistrationsKept, Named, Registered
<1> QED BY <1>1, <1>4

(* AppInv holds of every program: its names, registries and threads agree. *)
THEOREM ApplicationInvariant == AppSpec => []AppInv
<1>1. AppInit => AppInv BY AppInvInit
<1>2. AppInv /\ [AppNext]_appVars => AppInv' BY AppInvNext
<1> QED BY <1>1, <1>2, PTL DEF AppSpec

----------------------------------------------------------------------------
(* What a program shares *)

(* The objects of libcurl's options, the global states and the names that  *)
(* were registered outlive who relies on them, whatever is copied, moved,  *)
(* swapped, refused, built or dropped by however many threads.             *)
(* (easy.cpp:22, global_registry.cpp:18)                                   *)
THEOREM LifetimesHold == EasySpec /\ AppSpec => []LifetimesKept
<1>1. EasyInv /\ AppInv => LifetimesKept BY EasyInvShows, AppInvShows DEF LifetimesKept
<1> QED BY <1>1, HandlesServe, ApplicationInvariant, PTL

=============================================================================
