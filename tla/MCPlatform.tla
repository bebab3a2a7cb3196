----------------------------- MODULE MCPlatform -----------------------------
(***************************************************************************)
(* Model checking of the platform libraries.  They share no state, so each *)
(* behaviour exercises the one that "library" names; the others stay in    *)
(* an initial state, which is one state for all their choices in Init.     *)
(***************************************************************************)
EXTENDS FileLock, OwnedFiles, Connections, ProcessExecutor, WorkerPool,
        UtilityTools, ConfigArchive, Lifetimes, HttpClient, TLC

CONSTANTS d1, d2, t1, t2, u1, h1, h2, h3, v1, v2
VARIABLE library

MCProcessOf == t1 :> d1 @@ t2 :> d1 @@ u1 :> d2
MCOwnerOf == h1 :> d1 @@ h2 :> d1 @@ h3 :> d2

(* Arguments of the calls: every action of a stream, with and without a      *)
(* search of PATH, and some that throw.                                      *)
Call_(executable, arguments, use_path, with_output, in, out, err) ==
  [executable |-> executable, arguments |-> arguments, use_path |-> use_path,
   with_output |-> with_output, stdin |-> in, stdout |-> out, stderr |-> err]
MCContexts ==
  {Call_("none", 1, -1, TRUE, "default", "default", "default"),
   Call_("relative", 0, -1, FALSE, "data", "suppress", "redirect"),
   Call_("absolute", 1, 1, FALSE, "inherit", "path", "path"),
   Call_("relative", 1, 1, FALSE, "path", "inherit", "inherit"),
   Call_("none", 0, 0, FALSE, "suppress", "default", "suppress")}

(* Requests of the tools: every tool, with paths of both kinds. *)
Rel(n) == [abs |-> FALSE, names |-> <<n>>]
Abs(n) == [abs |-> TRUE, names |-> <<"srv", n>>]
Build_(tool, bin, archiver, generator) ==
  [op |-> "build", tool |-> tool, from |-> Rel("src"), to |-> Rel("out"),
   bin |-> bin, archiver |-> archiver, generator |-> generator]
Move_(op, tool, from, to) == [op |-> op, tool |-> tool, from |-> from, to |-> to]
MCToolTasks ==
  {Build_("cmake", Rel("tmp"), "tar", "Makefiles"),
   Build_("cmake", Abs("tmp"), "7z", "Ninja"),
   Build_("meson", Rel("tmp"), "7z", "none"),
   Build_("meson", Abs("tmp"), "7z", "none"),
   Move_("pack", "7z", Rel("src"), Rel("out")),
   Move_("pack", "tar", Rel("src"), Abs("url")),
   Move_("unpack", "7z", Rel("out"), Rel("tmp")),
   Move_("unpack", "tar", Abs("url"), Rel("tmp")),
   Move_("fetch", "curl", Abs("void"), Rel("out")),
   Move_("fetch", "wget", Abs("url"), Rel("tmp")),
   Move_("fetch", "copy", Abs("url"), Rel("out"))}
MCSources ==
  <<"cwd", "src">> :> "s" @@ <<"cwd", "out">> :> "old"
    @@ <<"srv", "url">> :> "u" @@ <<"srv", "void">> :> Empty
MCResolvers ==
  {[alias |-> "cmake" :> "cmake3", absolute |-> {"cmake3", "make"},
    path |-> {"tar", "7z", "ninja", "meson", "curl", "wget"}],
   [alias |-> "cmake" :> "a" @@ "a" :> "cmake" @@ "7z" :> "7za",
    absolute |-> {"tar"}, path |-> {"7za", "wget"}],
   [alias |-> <<>>, absolute |-> {"cmake"}, path |-> {}]}

(* Values of every kind the archives know. *)
Import_(path, package) == <<Word(path), package>>
Index_(imports, more) ==
  << <<<< <<Word("src"), Word("main")>> >>, imports, <<>>>>, <<<<>>, <<>>, more>> >>
Config_(what, type, value) == [what |-> what, type |-> type, value |-> value]
MCCache ==   \* shaped as pm::cache_config
  Record(<<Field(<<"root">>, Type("path")),
           Field(<<"lock">>, Of("optional", Type("path"))),
           Field(<<"name">>, Record(<<Field(<<"suffix", "archive">>, Type("string"))>>))>>)
MCResolverType ==
  Record(<<Field(<<"alias">>, [kind |-> "map", key |-> "path", of |-> Type("path")]),
           Field(<<"path">>, Of("set", Type("path")))>>)
MCVariant ==
  Record(<<Field(<<"a">>, Type("int")), Field(<<"t">>, Type("duration")),
           Field(<<"d">>, Of("variant", <<[key |-> "string", type |-> Type("string")],
                                          [key |-> "int", type |-> Type("int")]>>)),
           Field(<<"e">>, Type("tree"))>>)
MCConfigs ==
  <<Config_("index", index,
      Index_(<<Import_("x", <<".", "a">>), Import_("y", <<"..", "b">>)>>,
             <<Import_("z", <<"b", ".", "a">>)>>)),
    Config_("index", index, Index_(<<Import_("x", <<"..", "..">>)>>, <<>>)),
    Config_("index", index, Index_(<<>>, <<Import_("x", <<"a", "..", "..", "b">>)>>)),
    Config_("snapshot", snapshot,
      <<"a", "b">> :> (Word("main") :> Word("s1")) @@ <<"b">> :> <<>>),
    Config_("cache", MCCache, <<Word("/r"), <<Word("/l")>>, <<Word(".7z")>>>>),
    Config_("cache", MCCache, <<Word("/r"), <<>>, <<Word("")>>>>),
    Config_("resolver", MCResolverType,
            <<Word("a") :> Word("b") @@ Word("b") :> Word("c"), {Word("a"), Word("c")}>>),
    Config_("variant", MCVariant,
            <<5, 3, <<"int", 7>>, Node(Word("x"), <<<<Word("y"), EmptyTree>>>>)>>),
    Config_("variant", MCVariant, <<0, 0, <<"string", Word("s")>>, EmptyTree>>)>>
MCRoots == {<<"a", "b">>, <<"c">>}

(* Responses: repeated headers, a redirect, an error, a file without a status *)
(* line, and a line that is none.                                            *)
Status_(s) == [kind |-> "status", status |-> s]
Header_(raw, v) == [kind |-> "header", raw |-> raw, value |-> v]
Blank_ == [kind |-> "blank"]
MCmake_name ==
  "Set-Cookie" :> "set-cookie" @@ "SET-COOKIE" :> "set-cookie" @@ "Location" :> "location"
MCTransfers ==
  {<<Status_(200), Header_("Set-Cookie", 1), Header_("SET-COOKIE", 2), Blank_>>,
   <<Status_(302), Header_("Location", 1), Blank_,
     Status_(200), Header_("SET-COOKIE", 1), Blank_>>,
   <<Status_(404), Blank_>>,
   <<Header_("Location", 2)>>,
   <<Status_(200), [kind |-> "bad"], Blank_>>}

(* Two units that want the same name, both with a state. *)
MCNameOf == v1 :> "tar" @@ v2 :> "tar"
MCStateOf == v1 :> TRUE @@ v2 :> TRUE

allVars == <<library, fileLockVars, guardVars, tempVars, writerVars, relayVars,
                 execVars, poolVars, toolVars, configVars, easyVars, httpVars,
                 appVars>>

Libraries == {"file_lock", "file_guard", "tempfile", "queued_writer",
              "buffer_connection", "process", "worker_pool", "utility",
              "config", "curl", "http", "application"}

PlatformInit ==
  /\ library \in Libraries
  /\ LockInit /\ GuardInit /\ TempInit /\ WriterInit /\ RelayInit /\ ExecInit
  /\ PoolInit /\ ToolInit /\ ConfigInit /\ EasyInit /\ HttpInit /\ AppInit
  /\ library # "queued_writer" => framing = "block"
  /\ library # "buffer_connection" => m_close_sink_on_eof /\ m_discard_on_sink_error

Lock_ ==
  /\ library = "file_lock" /\ LockNext
  /\ UNCHANGED <<library, guardVars, tempVars, writerVars, relayVars, execVars,
                 poolVars, toolVars, configVars, easyVars, httpVars, appVars>>
Guard_ ==
  /\ library = "file_guard" /\ GuardNext
  /\ UNCHANGED <<library, fileLockVars, tempVars, writerVars, relayVars, execVars,
                 poolVars, toolVars, configVars, easyVars, httpVars, appVars>>
Temp_ ==
  /\ library = "tempfile" /\ TempNext
  /\ UNCHANGED <<library, fileLockVars, guardVars, writerVars, relayVars, execVars,
                 poolVars, toolVars, configVars, easyVars, httpVars, appVars>>
Writer_ ==
  /\ library = "queued_writer" /\ WriterNext
  /\ UNCHANGED <<library, fileLockVars, guardVars, tempVars, relayVars, execVars,
                 poolVars, toolVars, configVars, easyVars, httpVars, appVars>>
Relay_ ==
  /\ library = "buffer_connection" /\ RelayNext
  /\ UNCHANGED <<library, fileLockVars, guardVars, tempVars, writerVars, execVars,
                 poolVars, toolVars, configVars, easyVars, httpVars, appVars>>
Exec_ ==
  /\ library = "process" /\ ExecNext
  /\ UNCHANGED <<library, fileLockVars, guardVars, tempVars, writerVars, relayVars,
                 poolVars, toolVars, configVars, easyVars, httpVars, appVars>>
Pool_ ==
  /\ library = "worker_pool" /\ PoolNext
  /\ UNCHANGED <<library, fileLockVars, guardVars, tempVars, writerVars, relayVars,
                 execVars, toolVars, configVars, easyVars, httpVars, appVars>>
Tools_ ==
  /\ library = "utility" /\ ToolNext
  /\ UNCHANGED <<library, fileLockVars, guardVars, tempVars, writerVars, relayVars,
                 execVars, poolVars, configVars, easyVars, httpVars, appVars>>
Configs_ ==
  /\ library = "config" /\ ConfigNext
  /\ UNCHANGED <<library, fileLockVars, guardVars, tempVars, writerVars, relayVars,
                 execVars, poolVars, toolVars, easyVars, httpVars, appVars>>
Easy_ ==
  /\ library = "curl" /\ EasyNext
  /\ UNCHANGED <<library, fileLockVars, guardVars, tempVars, writerVars, relayVars,
                 execVars, poolVars, toolVars, configVars, httpVars, appVars>>
Http_ ==
  /\ library = "http" /\ HttpNext
  /\ UNCHANGED <<library, fileLockVars, guardVars, tempVars, writerVars, relayVars,
                 execVars, poolVars, toolVars, configVars, easyVars, appVars>>
App_ ==
  /\ library = "application" /\ AppNext
  /\ UNCHANGED <<library, fileLockVars, guardVars, tempVars, writerVars, relayVars,
                 execVars, poolVars, toolVars, configVars, easyVars, httpVars>>

PlatformNext == Lock_ \/ Guard_ \/ Temp_ \/ Writer_ \/ Relay_ \/ Exec_ \/ Pool_
                \/ Tools_ \/ Configs_ \/ Easy_ \/ Http_ \/ App_

PlatformSpec ==
  /\ PlatformInit /\ [][PlatformNext]_allVars
  /\ LockFairness /\ WriterFairness /\ RelayFairness /\ PoolFairness

----------------------------------------------------------------------------
(* Properties *)

(* Every variable of the libraries keeps its type. *)
PlatformTypeOK ==
  /\ library \in Libraries
  /\ LockTypeOK /\ GuardTypeOK /\ TempTypeOK /\ WriterTypeOK /\ RelayTypeOK
  /\ ExecTypeOK /\ PoolTypeOK /\ ToolTypeOK /\ ConfigTypeOK
  /\ EasyTypeOK /\ HttpTypeOK /\ AppTypeOK

(* Configurations survive being saved and loaded, and so do the names of     *)
(* packages in them. (input_archive.hpp:45, output_archive.hpp:48,           *)
(* entry.cpp:80)                                                             *)
ConfigsKept == ConfigKept /\ NamesResolve

(* Whoever waits for a file lock that is given back, or for a pool that is   *)
(* over, stops waiting. (file_lock.cpp:111, worker_pool.go:116)              *)
WaitsEnd == LockReturns /\ DoAllReturns

=============================================================================
