------------------------------ MODULE Archive ------------------------------
(***************************************************************************)
(* The problem archive server, bacs::archive::repository.                  *)
(*                                                                         *)
(* On disk the archive keeps for every problem a directory with the packed *)
(* data, a revision (a hash of the data), the result of the last import    *)
(* and a set of flags; importing a problem writes a package of it into the *)
(* bunsan::pm repository.  Client threads (gRPC and web handlers) upload   *)
(* problems, edit flags, schedule imports and import synchronously; one    *)
(* executor thread runs the imports posted to m_io_service.                *)
(*                                                                         *)
(* Everything a handler does while it holds m_lock exclusively is one      *)
(* action: no other thread sees the states in between.  An exception or a  *)
(* crash in the middle of it is an action of its own, which leaves on disk *)
(* what the statements executed so far have done.  What import does        *)
(* outside of m_lock is split into steps.                                  *)
(***************************************************************************)
EXTENDS Naturals, Sequences, FiniteSets

CONSTANTS
  Problems,       \* problem ids
  Contents,       \* packed problem archives
  Broken,         \* those of them that the archiver cannot unpack (half-written)
  Revisions,      \* values of the hash
  Hash,           \* compute_hash_revision: contents to revisions
  Clients,        \* threads that serve client calls
  Executor,       \* the thread that runs m_io_service
  Pollers,        \* clients that poll status_all_if_changed
  CustomFlag,     \* a flag that is not reserved
  FlagSets,       \* arguments of set_flags and unset_flags
  FlagArgs,       \* arguments of set_flag
  UnsetFlagArgs,  \* arguments of unset_flag
  MayFail,        \* may packing or hashing an uploaded problem throw?
  MayCrash,       \* may the server process be killed?
  MaxCalls,       \* bound on the number of client calls
  NoData, NoRevision, NoResult, NoPackage, Torn, Stale, NoThread

Threads == Clients \cup {Executor}

IGNORE == "IGNORE"
LOCKED == "LOCKED"
READ_ONLY == "READ_ONLY"
PENDING_IMPORT == "PENDING_IMPORT"

Flags == {IGNORE, LOCKED, READ_ONLY, PENDING_IMPORT, CustomFlag}

ASSUME ThreadsAssumption == Executor \notin Clients /\ NoThread \notin Threads
ASSUME ProblemsAssumption == IsFiniteSet(Problems)
ASSUME HashAssumption == /\ Broken \subseteq Contents
                         /\ Hash \in [Contents -> Revisions]
ASSUME FlagsAssumption ==
  /\ CustomFlag \notin {"IGNORE", "LOCKED", "READ_ONLY", "PENDING_IMPORT"}
  /\ FlagSets \subseteq SUBSET Flags
  /\ FlagArgs \subseteq Flags
  /\ UnsetFlagArgs \subseteq Flags
ASSUME AbsentAssumption ==
  /\ NoData \notin Contents
  /\ NoRevision \notin Revisions
  /\ {NoPackage, Torn} \cap Revisions = {}
  /\ NoResult \notin [revision : Revisions, ok : BOOLEAN]
ASSUME BoundsAssumption ==
  MaxCalls \in Nat /\ MayFail \in BOOLEAN /\ MayCrash \in BOOLEAN

VARIABLES
  dirs,          \* problems that have a directory under repository_root
  data,          \* per problem: its packed data on disk
  revision,      \* per problem: its revision file
  result,        \* per problem: its import_result file
  flags,         \* per problem: the files of its flags directory
  package,       \* per problem: what the bunsan::pm repository holds
  posted,        \* imports posted to m_io_service, in order
  call,          \* per thread: the call it is executing
  m_import_lock, \* the thread that holds the import mutex
  up,            \* is the server process running?
  seen,          \* per poller: the status map it got with the current m_revision
  calls          \* number of client calls so far

disk == <<dirs, data, revision, result, flags>>
vars == <<dirs, data, revision, result, flags, package, posted, call,
          m_import_lock, up, seen, calls>>

-----------------------------------------------------------------------------
(* State *)

Results == [revision : Revisions, ok : BOOLEAN]

Idle == [op |-> "idle"]
UploadCalls == [op : {"upload"}, id : Problems, data : Contents]
ScheduleCalls ==
  [op : {"schedule"}, todo : SUBSET Problems, scheduled : SUBSET Problems]
ImportCalls == [op : {"import"}, id : Problems]
ConvertCalls == [op : {"convert", "build"}, id : Problems, revision : Revisions]
FinishCalls ==
  [op : {"finish"}, id : Problems, revision : Revisions, ok : BOOLEAN]

Status(p) == [revision |-> revision[p], flags |-> flags[p]]
Statuses == [revision : Revisions \cup {NoRevision}, flags : SUBSET Flags]

TypeOK ==
  /\ dirs \subseteq Problems
  /\ data \in [Problems -> Contents \cup {NoData}]
  /\ revision \in [Problems -> Revisions \cup {NoRevision}]
  /\ result \in [Problems -> Results \cup {NoResult}]
  /\ flags \in [Problems -> SUBSET Flags]
  /\ package \in [Problems -> Revisions \cup {NoPackage, Torn}]
  /\ posted \in Seq(Problems)
  /\ call \in [Threads -> {Idle} \cup UploadCalls \cup ScheduleCalls
                          \cup ImportCalls \cup ConvertCalls \cup FinishCalls]
  /\ call[Executor].op \notin {"upload", "schedule"}
  /\ m_import_lock \in Threads \cup {NoThread}
  /\ up \in BOOLEAN
  /\ seen \in [Pollers -> {Stale} \cup [Problems -> Statuses]]
  /\ calls \in 0..MaxCalls

Init ==
  /\ dirs = {}
  /\ data = [p \in Problems |-> NoData]
  /\ revision = [p \in Problems |-> NoRevision]
  /\ result = [p \in Problems |-> NoResult]
  /\ flags = [p \in Problems |-> {}]
  /\ package = [p \in Problems |-> NoPackage]
  /\ posted = <<>>
  /\ call = [t \in Threads |-> Idle]
  /\ m_import_lock = NoThread
  /\ up = TRUE
  /\ seen = [t \in Pollers |-> Stale]
  /\ calls = 0

-----------------------------------------------------------------------------
(* Helpers *)

has_flag(p, flag) == flag \in flags[p]
is_read_only(p) == has_flag(p, READ_ONLY)
is_locked(p) == has_flag(p, LOCKED) \/ has_flag(p, READ_ONLY)
with_flag(flag) == {p \in dirs : has_flag(p, flag)}

\* status_() throws when the revision file cannot be read.
status_throws(ids) == \E p \in ids \cap dirs : revision[p] = NoRevision

StatusMap == [p \in Problems |-> Status(p)]

\* A client makes a new call to a running server.
NewCall == up /\ calls < MaxCalls /\ calls' = calls + 1

\* The process is gone: memory is lost, disk and package repository stay.
Down ==
  /\ up' = FALSE
  /\ posted' = <<>>
  /\ call' = [t \in Threads |-> Idle]
  /\ m_import_lock' = NoThread
  /\ seen' = [t \in Pollers |-> Stale]
  /\ UNCHANGED calls

Return(t) == call' = [call EXCEPT ![t] = Idle]

-----------------------------------------------------------------------------
(* upload: the lock flags are tested without and again with m_lock held *)

Upload(t, p, c) ==
  /\ NewCall
  /\ call[t] = Idle
  /\ ~is_locked(p)
  /\ call' = [call EXCEPT ![t] = [op |-> "upload", id |-> p, data |-> c]]
  /\ UNCHANGED <<disk, package, posted, m_import_lock, up, seen>>

UploadRefused(t) ==
  /\ call[t].op = "upload"
  /\ is_locked(call[t].id)
  /\ Return(t)
  /\ UNCHANGED <<disk, package, posted, m_import_lock, up, seen, calls>>

\* Mutants of UploadStore: nothing is posted; the old import result is kept;
\* the flags are not tested again under the lock.
UploadStoreVariant(t, recheck, res, post) ==
  /\ call[t].op = "upload"
  /\ LET p == call[t].id
         c == call[t].data
     IN  /\ recheck => ~is_locked(p)
         /\ dirs' = dirs \cup {p}
         /\ data' = [data EXCEPT ![p] = c]
         /\ revision' = [revision EXCEPT ![p] = Hash[c]]
         /\ result' = [result EXCEPT ![p] = IF res = "keep" THEN @ ELSE NoResult]
         /\ flags' = [flags EXCEPT ![p] = @ \cup {PENDING_IMPORT}]
         /\ posted' = IF post THEN Append(posted, p) ELSE posted
  /\ Return(t)
  /\ UNCHANGED <<package, m_import_lock, up, seen, calls>>
UploadStoreUnposted(t) == UploadStoreVariant(t, TRUE, "none", FALSE)
UploadStoreOldResult(t) == UploadStoreVariant(t, TRUE, "keep", TRUE)
UploadStoreUnchecked(t) == UploadStoreVariant(t, FALSE, "none", TRUE)

UploadStore(t) ==
  /\ call[t].op = "upload"
  /\ LET p == call[t].id
         c == call[t].data
     IN  /\ ~is_locked(p)
         /\ dirs' = dirs \cup {p}
         /\ data' = [data EXCEPT ![p] = c]
         /\ revision' = [revision EXCEPT ![p] = Hash[c]]
         /\ result' = [result EXCEPT ![p] = NoResult]
         /\ flags' = [flags EXCEPT ![p] = @ \cup {PENDING_IMPORT}]
         /\ posted' = Append(posted, p)
  /\ Return(t)
  /\ UNCHANGED <<package, m_import_lock, up, seen, calls>>

\* Mutant of the failure stages: packing starts before the revision is removed.
FailedStagesPackFirst(p, c) ==
  {[data |-> d, revision |-> revision[p], result |-> NoResult] :
      d \in {NoData, c} \cup Broken}

\* What is on disk after each statement of the exclusive section, up to
\* prepare_import_: old files removed one by one, data packed, revision
\* written.  The first set is what an exception of the archiver or of
\* compute_hash_revision leaves behind.
FailedStages(p, c) ==
  {[data |-> d, revision |-> NoRevision, result |-> NoResult] :
      d \in {NoData, c} \cup Broken}
UploadStages(p, c) ==
  FailedStages(p, c)
    \cup {[data |-> NoData, revision |-> revision[p], result |-> result[p]],
          [data |-> NoData, revision |-> NoRevision, result |-> result[p]],
          [data |-> c, revision |-> Hash[c], result |-> NoResult]}

LeaveStage(p, stage) ==
  /\ dirs' = dirs \cup {p}
  /\ data' = [data EXCEPT ![p] = stage.data]
  /\ revision' = [revision EXCEPT ![p] = stage.revision]
  /\ result' = [result EXCEPT ![p] = stage.result]

UploadThrow(t) ==
  /\ MayFail
  /\ call[t].op = "upload"
  /\ ~is_locked(call[t].id)
  /\ \E stage \in FailedStages(call[t].id, call[t].data) :
        LeaveStage(call[t].id, stage)
  /\ Return(t)
  /\ UNCHANGED <<flags, package, posted, m_import_lock, up, seen, calls>>

UploadCrash(t) ==
  /\ MayCrash
  /\ call[t].op = "upload"
  /\ ~is_locked(call[t].id)
  /\ \E stage \in UploadStages(call[t].id, call[t].data) :
        LeaveStage(call[t].id, stage)
  /\ Down
  /\ UNCHANGED <<flags, package>>

-----------------------------------------------------------------------------
(* Flags: every call works under m_lock and refuses read-only problems *)

EditFlags(p, new) ==
  /\ NewCall
  /\ p \in dirs
  /\ ~is_read_only(p)
  /\ flags' = [flags EXCEPT ![p] = new]
  /\ UNCHANGED <<dirs, data, revision, result, package, posted, call,
                 m_import_lock, up, seen>>

set_flag(p, flag) ==
  /\ flag # PENDING_IMPORT
  /\ EditFlags(p, flags[p] \cup {flag})

set_flags(p, set) == EditFlags(p, flags[p] \cup set)

unset_flag(p, flag) ==
  EditFlags(p, IF flag = IGNORE THEN flags[p] \ {flag} ELSE flags[p])

unset_flags(p, set) ==
  EditFlags(p, flags[p] \ (set \ {IGNORE, PENDING_IMPORT}))

clear_flags(p) == EditFlags(p, flags[p] \cap {IGNORE, PENDING_IMPORT})

-----------------------------------------------------------------------------
(* schedule_import and schedule_import_all: mark every problem, then post. *)
(* m_lock is taken for each mark and released before posting.              *)

Schedule(t, ids) ==
  /\ NewCall
  /\ call[t] = Idle
  /\ call' = [call EXCEPT ![t] =
                [op |-> "schedule", todo |-> ids, scheduled |-> {}]]
  /\ UNCHANGED <<disk, package, posted, m_import_lock, up, seen>>

\* Mutant of SchedulePrepare: the problem is marked but not remembered.
SchedulePrepareForgets(t, p) ==
  /\ call[t].op = "schedule"
  /\ p \in call[t].todo
  /\ flags' = IF p \in dirs
                THEN [flags EXCEPT ![p] = @ \cup {PENDING_IMPORT}] ELSE flags
  /\ call' = [call EXCEPT ![t].todo = @ \ {p}]
  /\ UNCHANGED <<dirs, data, revision, result, package, posted, m_import_lock,
                 up, seen, calls>>

SchedulePrepare(t, p) ==
  /\ call[t].op = "schedule"
  /\ p \in call[t].todo
  /\ IF p \in dirs
       THEN /\ flags' = [flags EXCEPT ![p] = @ \cup {PENDING_IMPORT}]
            /\ call' = [call EXCEPT ![t].todo = @ \ {p},
                                    ![t].scheduled = @ \cup {p}]
       ELSE /\ call' = [call EXCEPT ![t].todo = @ \ {p}]
            /\ UNCHANGED flags
  /\ UNCHANGED <<dirs, data, revision, result, package, posted, m_import_lock,
                 up, seen, calls>>

\* Posting happens at scope exit, whether or not status_all has thrown.
SchedulePost(t, p) ==
  /\ call[t].op = "schedule"
  /\ call[t].todo = {}
  /\ p \in call[t].scheduled
  /\ posted' = Append(posted, p)
  /\ call' = [call EXCEPT ![t].scheduled = @ \ {p}]
  /\ UNCHANGED <<disk, package, m_import_lock, up, seen, calls>>

ScheduleReturn(t) ==
  /\ call[t].op = "schedule"
  /\ call[t].todo = {} /\ call[t].scheduled = {}
  /\ Return(t)
  /\ UNCHANGED <<disk, package, posted, m_import_lock, up, seen, calls>>

-----------------------------------------------------------------------------
(* import *)

Import(t, p) ==
  /\ NewCall
  /\ call[t] = Idle
  /\ call' = [call EXCEPT ![t] = [op |-> "import", id |-> p]]
  /\ UNCHANGED <<disk, package, posted, m_import_lock, up, seen>>

RunPosted ==
  /\ call[Executor] = Idle
  /\ posted # <<>>
  /\ call' = [call EXCEPT ![Executor] = [op |-> "import", id |-> Head(posted)]]
  /\ posted' = Tail(posted)
  /\ UNCHANGED <<disk, package, m_import_lock, up, seen, calls>>

\* Mutant of StartsImport: imports run in parallel.
StartsImportUnlocked(t) == call[t].op = "import"

\* Thread t has the import mutex for the problem it was asked to import.
StartsImport(t) == call[t].op = "import" /\ m_import_lock = NoThread

ImportMissing(t) ==
  /\ StartsImport(t)
  /\ call[t].id \notin dirs
  /\ Return(t)
  /\ UNCHANGED <<disk, package, posted, m_import_lock, up, seen, calls>>

\* Mutant of regenerated: an unreadable revision stays unreadable.
regenerated_never(p) == revision

\* The revision read from disk, regenerated from the data if there is none.
regenerated(p) ==
  IF revision[p] = NoRevision /\ data[p] # NoData
    THEN [revision EXCEPT ![p] = Hash[data[p]]]
    ELSE revision

\* Under an upgrade lock: revision read and data unpacked into a tmpdir.
ImportBegin(t) ==
  /\ StartsImport(t)
  /\ call[t].id \in dirs
  /\ data[call[t].id] \in Contents \ Broken
  /\ revision' = regenerated(call[t].id)
  /\ call' = [call EXCEPT ![t] = [op |-> "convert", id |-> @.id,
                                  revision |-> revision'[@.id]]]
  /\ m_import_lock' = t
  /\ UNCHANGED <<dirs, data, result, flags, package, posted, up, seen, calls>>

\* An exception of import() reaches the caller of a client thread as an
\* error; on the executor nothing catches it and the process terminates.
Escapes(t) ==
  IF t = Executor
    THEN Down
    ELSE /\ Return(t)
         /\ m_import_lock' = NoThread
         /\ UNCHANGED <<posted, up, seen, calls>>

ImportThrow(t) ==
  /\ StartsImport(t)
  /\ call[t].id \in dirs
  /\ data[call[t].id] \notin Contents \ Broken
  /\ revision' = regenerated(call[t].id)
  /\ Escapes(t)
  /\ UNCHANGED <<dirs, data, result, flags, package>>

\* Without m_lock: the importer and the package distributor rewrite the
\* package, or fail before (ConvertReject) or after (ConvertEnd) they touch it.
ConvertReject(t) ==
  /\ call[t].op = "convert"
  /\ call' = [call EXCEPT ![t] = [op |-> "finish", id |-> @.id,
                                  revision |-> @.revision, ok |-> FALSE]]
  /\ UNCHANGED <<disk, package, posted, m_import_lock, up, seen, calls>>

ConvertStart(t) ==
  /\ call[t].op = "convert"
  /\ package' = [package EXCEPT ![call[t].id] = Torn]
  /\ call' = [call EXCEPT ![t].op = "build"]
  /\ UNCHANGED <<disk, posted, m_import_lock, up, seen, calls>>

ConvertEnd(t, ok) ==
  /\ call[t].op = "build"
  /\ package' = IF ok THEN [package EXCEPT ![call[t].id] = call[t].revision]
                      ELSE package
  /\ call' = [call EXCEPT ![t] = [op |-> "finish", id |-> @.id,
                                  revision |-> @.revision, ok |-> ok]]
  /\ UNCHANGED <<disk, posted, m_import_lock, up, seen, calls>>

\* Mutants of ImportChanged: the overtaken import clears PENDING_IMPORT, or
\* returns with the import mutex held.
ImportChangedClears(t) ==
  /\ call[t].op = "finish"
  /\ revision[call[t].id] \notin {NoRevision, call[t].revision}
  /\ flags' = [flags EXCEPT ![call[t].id] = @ \ {PENDING_IMPORT}]
  /\ Return(t)
  /\ m_import_lock' = NoThread
  /\ UNCHANGED <<dirs, data, revision, result, package, posted, up, seen, calls>>
ImportChangedHolds(t) ==
  /\ call[t].op = "finish"
  /\ revision[call[t].id] \notin {NoRevision, call[t].revision}
  /\ Return(t)
  /\ UNCHANGED <<m_import_lock, disk, package, posted, up, seen, calls>>

\* The exclusive section of import_.
ImportChanged(t) ==
  /\ call[t].op = "finish"
  /\ revision[call[t].id] \notin {NoRevision, call[t].revision}
  /\ Return(t)
  /\ m_import_lock' = NoThread
  /\ UNCHANGED <<disk, package, posted, up, seen, calls>>

ImportUnreadable(t) ==
  /\ call[t].op = "finish"
  /\ revision[call[t].id] = NoRevision
  /\ Escapes(t)
  /\ UNCHANGED <<disk, package>>

\* Mutant of WriteResult: the revision is not compared.
WriteResultUncompared(t) ==
  /\ call[t].op = "finish"
  /\ result' = [result EXCEPT ![call[t].id] =
                  [revision |-> call[t].revision, ok |-> call[t].ok]]

WriteResult(t) ==
  /\ call[t].op = "finish"
  /\ revision[call[t].id] = call[t].revision
  /\ result' = [result EXCEPT ![call[t].id] =
                  [revision |-> call[t].revision, ok |-> call[t].ok]]

\* Mutant of ImportFinish: PENDING_IMPORT is left set.
ImportFinishPending(t) ==
  /\ WriteResult(t)
  /\ flags' = [flags EXCEPT ![call[t].id] =
                 IF call[t].ok THEN @ \ {IGNORE} ELSE @ \cup {IGNORE}]
  /\ seen' = [s \in Pollers |-> Stale]
  /\ Return(t)
  /\ m_import_lock' = NoThread
  /\ UNCHANGED <<dirs, data, revision, package, posted, up, calls>>

ImportFinish(t) ==
  /\ WriteResult(t)
  /\ flags' = [flags EXCEPT ![call[t].id] =
                 (IF call[t].ok THEN @ \ {IGNORE} ELSE @ \cup {IGNORE})
                    \ {PENDING_IMPORT}]
  /\ seen' = [s \in Pollers |-> Stale]
  /\ Return(t)
  /\ m_import_lock' = NoThread
  /\ UNCHANGED <<dirs, data, revision, package, posted, up, calls>>

\* Killed after the result file is written, before or after IGNORE is edited.
FinishCrash(t) ==
  /\ MayCrash
  /\ WriteResult(t)
  /\ \/ UNCHANGED flags
     \/ flags' = [flags EXCEPT ![call[t].id] =
                    IF call[t].ok THEN @ \ {IGNORE} ELSE @ \cup {IGNORE}]
  /\ Down
  /\ UNCHANGED <<dirs, data, revision, package>>

-----------------------------------------------------------------------------
(* The process *)

Crash == MayCrash /\ up /\ Down /\ UNCHANGED <<disk, package>>

\* Mutant of Restart: pending imports are not scheduled again.
RestartIdle ==
  /\ ~up
  /\ up' = TRUE
  /\ UNCHANGED <<disk, package, posted, call, m_import_lock, seen, calls>>

\* The constructor schedules all pending imports; status_all at the end of
\* schedule_import_all must not throw.  The lock file that a killed server
\* leaves behind is assumed to have been removed by the operator.
Restart ==
  /\ ~up
  /\ ~status_throws(with_flag(PENDING_IMPORT))
  /\ up' = TRUE
  /\ \E order \in [1..Cardinality(with_flag(PENDING_IMPORT))
                      -> with_flag(PENDING_IMPORT)] :
        /\ \A p \in with_flag(PENDING_IMPORT) : \E i \in DOMAIN order : order[i] = p
        /\ posted' = order
  /\ UNCHANGED <<disk, package, call, m_import_lock, seen, calls>>

\* status_all_if_changed: with the current revision in hand a client gets
\* no statuses and keeps the ones it has.
status_all_if_changed(c) ==
  /\ up
  /\ IF seen[c] = Stale
       THEN /\ ~status_throws(dirs)
            /\ seen' = [seen EXCEPT ![c] = StatusMap]
       ELSE UNCHANGED seen
  /\ UNCHANGED <<disk, package, posted, call, m_import_lock, up, calls>>

-----------------------------------------------------------------------------
ClientCall(t) ==
  \/ \E p \in Problems, c \in Contents \ Broken : Upload(t, p, c)
  \/ \E ids \in SUBSET Problems : Schedule(t, ids)
  \/ \E p \in Problems : Import(t, p)

FlagCall(p) ==
  \/ \E flag \in FlagArgs : set_flag(p, flag)
  \/ \E set \in FlagSets : set_flags(p, set)
  \/ \E flag \in UnsetFlagArgs : unset_flag(p, flag)
  \/ \E set \in FlagSets : unset_flags(p, set)
  \/ clear_flags(p)

\* The steps a client thread takes inside a call.
ClientStep(t) ==
  \/ UploadRefused(t)
  \/ UploadStore(t)
  \/ UploadThrow(t)
  \/ \E p \in Problems : SchedulePrepare(t, p)
  \/ \E p \in Problems : SchedulePost(t, p)
  \/ ScheduleReturn(t)

ImportStep(t) ==
  \/ ImportMissing(t)
  \/ ImportBegin(t)
  \/ ImportThrow(t)
  \/ ConvertReject(t)
  \/ ConvertStart(t)
  \/ \E ok \in BOOLEAN : ConvertEnd(t, ok)
  \/ ImportChanged(t)
  \/ ImportUnreadable(t)
  \/ ImportFinish(t)

Next ==
  \/ \E t \in Clients : ClientCall(t) \/ ClientStep(t) \/ UploadCrash(t)
  \/ \E p \in Problems : FlagCall(p)
  \/ RunPosted
  \/ \E t \in Threads : ImportStep(t) \/ FinishCrash(t)
  \/ \E c \in Pollers : status_all_if_changed(c)
  \/ Crash
  \/ Restart

Spec == Init /\ [][Next]_vars

\* Threads inside a call keep running; clients need not call.
Fairness ==
  /\ WF_vars(RunPosted)
  /\ \A t \in Threads : WF_vars(ImportStep(t))
  /\ \A t \in Clients : WF_vars(ClientStep(t))

FairSpec == Spec /\ Fairness

-----------------------------------------------------------------------------
(* Properties *)

Converting == {"convert", "build", "finish"}

\* The executor or a scheduling client is still going to import p as it is.
Planned(p) ==
  \/ \E i \in DOMAIN posted : posted[i] = p
  \/ \E t \in Clients : call[t].op = "schedule" /\ p \in call[t].scheduled
  \/ call[Executor].op = "import" /\ call[Executor].id = p
  \/ /\ call[Executor].op \in Converting
     /\ call[Executor].id = p
     /\ revision[p] \in {NoRevision, call[Executor].revision}

\* A problem marked PENDING_IMPORT has an import coming: posted, about to be
\* posted, or running on the executor and not overtaken by another revision
\* (if a failed upload has removed the revision, the import takes the server
\* down, and the restart plans the pending imports again).
\* (flag.proto: "Import is planned and will be done soon.")
PendingIsPlanned ==
  up => \A p \in Problems : has_flag(p, PENDING_IMPORT) => Planned(p)

\* A problem that exists has its data, and its revision is the hash of that
\* data: upload() replaces a problem entirely or not at all.
UploadAtomic ==
  \A p \in dirs : data[p] \in Contents /\ revision[p] = Hash[data[p]]

\* Whatever fails or crashes, a revision on disk is never that of other data
\* than the data next to it, because upload() removes it before packing.
RevisionOfData ==
  \A p \in Problems :
    data[p] # NoData /\ revision[p] # NoRevision => revision[p] = Hash[data[p]]

\* An import result on disk is that of the revision on disk: an import that
\* was overtaken by an upload does not record its result.
ResultOfRevision ==
  \A p \in Problems :
    result[p] # NoResult /\ revision[p] # NoRevision
      => result[p].revision = revision[p]

Rewriting(p) ==
  \E t \in Threads : call[t].op \in {"build", "finish"} /\ call[t].id = p

\* A problem that is not pending and whose import succeeded has a complete
\* package of its current revision, unless an import is rewriting it.
PackageCurrent ==
  \A p \in Problems :
    /\ ~has_flag(p, PENDING_IMPORT)
    /\ revision[p] # NoRevision
    /\ result[p] # NoResult
    /\ result[p].ok
    /\ ~Rewriting(p)
    => package[p] = revision[p]

\* Between calls every problem is either pending or has an import result to
\* show: import_result() has something to read.
ImportResultReadable ==
  \A p \in dirs : has_flag(p, PENDING_IMPORT) \/ result[p] # NoResult

\* The statuses a client holds for the current archive revision are the
\* current ones. (archive.proto: "changes if any problem is modified")
CacheFresh ==
  \A c \in Pollers : seen[c] # Stale => seen[c] = StatusMap

\* No step changes the data of a problem that is LOCKED or READ_ONLY: upload()
\* tests the flags again once it has the lock.
LockedDataKept ==
  [][\A p \in Problems : is_locked(p) => data'[p] = data[p]]_vars

Tracking == INSTANCE ArchiveTracking WITH
  stored <- revision,
  pending <- {p \in Problems : has_flag(p, PENDING_IMPORT)},
  outcome <- result

\* Uploads, schedules and imports implement the promise of ArchiveTracking.
ImplementsTracking == Tracking!Spec

\* ... and complete every pending import, as its fairness demands.
ImplementsFairTracking == Tracking!FairSpec

\* Every call a thread has begun returns: nobody waits for m_import_lock forever.
CallsReturn == \A t \in Threads : call[t] # Idle ~> call[t] = Idle

\* Every pending import is carried out.
PendingIsImported ==
  \A p \in Problems : has_flag(p, PENDING_IMPORT) ~> ~has_flag(p, PENDING_IMPORT)

-----------------------------------------------------------------------------
(* The inductive invariants behind the properties above *)

\* A thread is converting a problem exactly while it holds the import mutex.
ImportLockHeld ==
  \A t \in Threads : m_import_lock = t <=> call[t].op \in Converting

\* Data without a revision has no result either.
UnhashedUnimported ==
  \A p \in Problems :
    revision[p] = NoRevision /\ data[p] # NoData => result[p] = NoResult

\* While a thread converts another revision than the one on disk, an upload
\* has removed the result.
OvertakenUnimported ==
  \A t \in Threads :
    /\ call[t].op \in Converting
    /\ call[t].revision # revision[call[t].id]
    => result[call[t].id] = NoResult

StorageInv ==
  /\ ImportLockHeld
  /\ UnhashedUnimported
  /\ OvertakenUnimported
  /\ RevisionOfData
  /\ ResultOfRevision

\* A thread that is about to report success has built the package.
BuiltPackage ==
  \A t \in Threads : call[t].op = "finish" /\ call[t].ok =>
    package[call[t].id] = call[t].revision

\* Only problems that have a directory have flags.
FlagsHaveDirs == \A p \in Problems : flags[p] # {} => p \in dirs

=============================================================================
