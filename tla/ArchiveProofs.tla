--------------------------- MODULE ArchiveProofs ---------------------------
(* Proofs about Archive, for any problems, contents, threads and bounds. *)
EXTENDS Archive, FiniteSetTheorems, TLAPS

\* What the proofs use of the constants.
USE DEF Threads, IGNORE, LOCKED, READ_ONLY, PENDING_IMPORT, disk

Calls == {Idle} \cup UploadCalls \cup ScheduleCalls
           \cup ImportCalls \cup ConvertCalls \cup FinishCalls

\* A step of a call that keeps or replaces one thread's call keeps call typed.
LEMMA CallUpdate ==
  ASSUME TypeOK, NEW t \in Threads, NEW c \in Calls,
         t = Executor => c.op \notin {"upload", "schedule"},
         call' = [call EXCEPT ![t] = c]
  PROVE  /\ call' \in [Threads -> Calls]
         /\ call'[Executor].op \notin {"upload", "schedule"}
BY ThreadsAssumption DEF TypeOK, Calls

\* The idle call is a call, and no upload or schedule.
LEMMA IdleCall == Idle \in Calls /\ Idle.op \notin {"upload", "schedule"}
BY DEF Idle, Calls

\* The fields of a call, by the kind of call.
LEMMA CallFields ==
  ASSUME TypeOK, NEW t \in Threads
  PROVE  /\ call[t].op = "upload" =>
              call[t].id \in Problems /\ call[t].data \in Contents
         /\ call[t].op = "schedule" =>
              /\ call[t].todo \in SUBSET Problems
              /\ call[t].scheduled \in SUBSET Problems
              /\ call[t] \in ScheduleCalls
         /\ call[t].op = "import" => call[t].id \in Problems
         /\ call[t].op \in Converting =>
              call[t].id \in Problems /\ call[t].revision \in Revisions
         /\ call[t].op \in {"convert", "build"} => call[t] \in ConvertCalls
         /\ call[t].op = "finish" => call[t] \in FinishCalls
<1>1. call[t] \in Calls
  BY DEF TypeOK, Calls
<1> QED
  BY <1>1 DEF Calls, Idle, UploadCalls, ScheduleCalls, ImportCalls,
     ConvertCalls, FinishCalls, Converting

\* A server that dies leaves a well-typed state.
LEMMA DownTyped ==
  ASSUME TypeOK, Down
  PROVE  /\ posted' \in Seq(Problems)
         /\ call' \in [Threads -> Calls]
         /\ call'[Executor].op \notin {"upload", "schedule"}
         /\ m_import_lock' \in Threads \cup {NoThread}
         /\ up' \in BOOLEAN
         /\ seen' \in [Pollers -> {Stale} \cup [Problems -> Statuses]]
         /\ calls' \in 0..MaxCalls
<1>1. posted' \in Seq(Problems)
  BY DEF Down
<1>2. call' \in [Threads -> Calls]
  BY IdleCall DEF Down
<1>3. call'[Executor].op \notin {"upload", "schedule"}
  BY IdleCall DEF Down
<1>4. m_import_lock' \in Threads \cup {NoThread} /\ up' \in BOOLEAN
  BY DEF Down
<1>5. seen' \in [Pollers -> {Stale} \cup [Problems -> Statuses]]
  BY DEF Down
<1>6. calls' \in 0..MaxCalls
  BY DEF Down, TypeOK
<1> QED BY <1>1, <1>2, <1>3, <1>4, <1>5, <1>6

\* A call that returns leaves the calls well typed.
LEMMA ReturnTyped ==
  ASSUME TypeOK, NEW t \in Threads, Return(t)
  PROVE  /\ call' \in [Threads -> Calls]
         /\ call'[Executor].op \notin {"upload", "schedule"}
BY CallUpdate, IdleCall DEF Return

\* Hashing missing revisions yields revisions.
LEMMA RegeneratedTyped ==
  ASSUME TypeOK, NEW p \in Problems
  PROVE  regenerated(p) \in [Problems -> Revisions \cup {NoRevision}]
BY HashAssumption DEF TypeOK, regenerated

-----------------------------------------------------------------------------
(* Type correctness *)

\* TypeOK in the shape the steps below establish it.
LEMMA TypeParts ==
  ASSUME dirs' \subseteq Problems,
         data' \in [Problems -> Contents \cup {NoData}],
         revision' \in [Problems -> Revisions \cup {NoRevision}],
         result' \in [Problems -> Results \cup {NoResult}],
         flags' \in [Problems -> SUBSET Flags],
         package' \in [Problems -> Revisions \cup {NoPackage, Torn}],
         posted' \in Seq(Problems),
         call' \in [Threads -> Calls],
         call'[Executor].op \notin {"upload", "schedule"},
         m_import_lock' \in Threads \cup {NoThread},
         up' \in BOOLEAN,
         seen' \in [Pollers -> {Stale} \cup [Problems -> Statuses]],
         calls' \in 0..MaxCalls
  PROVE  TypeOK'
BY DEF TypeOK, Calls

\* What a client may start is a call.
LEMMA NewCallTyped ==
  ASSUME TypeOK, NewCall
  PROVE  calls' \in 0..MaxCalls
BY BoundsAssumption DEF TypeOK, NewCall

\* Editing flags yields sets of flags.
LEMMA EditFlagsTyped ==
  ASSUME TypeOK, NEW p \in Problems, NEW new \in SUBSET Flags, EditFlags(p, new)
  PROVE  TypeOK'
BY NewCallTyped DEF EditFlags, TypeOK

\* A whole upload keeps the types.
LEMMA UploadTyped ==
  ASSUME TypeOK, NEW t \in Clients, NEW p \in Problems,
         NEW c \in Contents \ Broken, Upload(t, p, c)
  PROVE  TypeOK'
<1> DEFINE new == [op |-> "upload", id |-> p, data |-> c]
<1>1. new \in Calls
  BY DEF Calls, UploadCalls
<1>2. t \in Threads /\ t # Executor
  BY ThreadsAssumption
<1>3. /\ call' \in [Threads -> Calls]
      /\ call'[Executor].op \notin {"upload", "schedule"}
  BY <1>1, <1>2, CallUpdate DEF Upload
<1> QED
  BY <1>3, NewCallTyped, TypeParts DEF TypeOK, Upload

\* An upload cut short at any stage leaves well-typed files.
LEMMA StageTyped ==
  ASSUME TypeOK, NEW p \in Problems, NEW c \in Contents,
         NEW stage \in UploadStages(p, c), LeaveStage(p, stage)
  PROVE  /\ dirs' \subseteq Problems
         /\ data' \in [Problems -> Contents \cup {NoData}]
         /\ revision' \in [Problems -> Revisions \cup {NoRevision}]
         /\ result' \in [Problems -> Results \cup {NoResult}]
<1>1. /\ stage.data \in Contents \cup {NoData}
      /\ stage.revision \in Revisions \cup {NoRevision}
      /\ stage.result \in Results \cup {NoResult}
  BY HashAssumption DEF UploadStages, FailedStages, TypeOK
<1> QED
  BY <1>1 DEF LeaveStage, TypeOK

\* Every step of a client call keeps the types.
LEMMA ClientStepTyped ==
  ASSUME TypeOK, NEW t \in Clients, ClientStep(t)
  PROVE  TypeOK'
<1>0. t \in Threads /\ t # Executor
  BY ThreadsAssumption
<1>1. CASE UploadRefused(t)
  BY <1>0, <1>1, ReturnTyped, TypeParts DEF UploadRefused, TypeOK
<1>2. CASE UploadStore(t)
  <2>1. call[t].id \in Problems /\ call[t].data \in Contents
    BY <1>0, <1>2, CallFields DEF UploadStore
  <2>2. /\ dirs' \subseteq Problems
        /\ data' \in [Problems -> Contents \cup {NoData}]
        /\ result' \in [Problems -> Results \cup {NoResult}]
    BY <1>2, <2>1 DEF UploadStore, TypeOK
  <2>3. revision' \in [Problems -> Revisions \cup {NoRevision}]
    BY <1>2, <2>1, HashAssumption DEF UploadStore, TypeOK
  <2>4. flags' \in [Problems -> SUBSET Flags]
    BY <1>2, <2>1 DEF UploadStore, TypeOK, Flags
  <2>5. posted' \in Seq(Problems)
    BY <1>2, <2>1 DEF UploadStore, TypeOK
  <2>6. Return(t) /\ UNCHANGED <<package, m_import_lock, up, seen, calls>>
    BY <1>2 DEF UploadStore
  <2> QED
    BY <1>0, <2>2, <2>3, <2>4, <2>5, <2>6, ReturnTyped, TypeParts DEF TypeOK
<1>3. CASE UploadThrow(t)
  <2>1. call[t].id \in Problems /\ call[t].data \in Contents
    BY <1>0, <1>3, CallFields DEF UploadThrow
  <2>2. PICK stage \in UploadStages(call[t].id, call[t].data) :
               LeaveStage(call[t].id, stage)
    BY <1>3 DEF UploadThrow, UploadStages
  <2>3. /\ Return(t)
        /\ UNCHANGED <<flags, package, posted, m_import_lock, up, seen, calls>>
    BY <1>3 DEF UploadThrow
  <2> QED
    BY <1>0, <2>1, <2>2, <2>3, StageTyped, ReturnTyped, TypeParts DEF TypeOK
<1>4. ASSUME NEW p \in Problems, SchedulePrepare(t, p)
      PROVE  TypeOK'
  <2>1. call[t] \in ScheduleCalls
    BY <1>0, <1>4, CallFields DEF SchedulePrepare
  <2>2. flags' \in [Problems -> SUBSET Flags]
    BY <1>4 DEF SchedulePrepare, TypeOK, Flags
  <2>3. /\ call' = [call EXCEPT ![t] = call'[t]]
        /\ call'[t] \in ScheduleCalls
    BY <1>0, <1>4, <2>1 DEF SchedulePrepare, TypeOK, ScheduleCalls
  <2>4. /\ call' \in [Threads -> Calls]
        /\ call'[Executor].op \notin {"upload", "schedule"}
    BY <1>0, <2>3, CallUpdate DEF Calls
  <2> QED
    BY <1>4, <2>2, <2>4, TypeParts DEF SchedulePrepare, TypeOK
<1>5. ASSUME NEW p \in Problems, SchedulePost(t, p)
      PROVE  TypeOK'
  <2>1. call[t] \in ScheduleCalls
    BY <1>0, <1>5, CallFields DEF SchedulePost
  <2>2. posted' \in Seq(Problems)
    BY <1>5 DEF SchedulePost, TypeOK
  <2>3. /\ call' = [call EXCEPT ![t] = call'[t]]
        /\ call'[t] \in ScheduleCalls
    BY <1>0, <1>5, <2>1 DEF SchedulePost, TypeOK, ScheduleCalls
  <2>4. /\ call' \in [Threads -> Calls]
        /\ call'[Executor].op \notin {"upload", "schedule"}
    BY <1>0, <2>3, CallUpdate DEF Calls
  <2> QED
    BY <1>5, <2>2, <2>4, TypeParts DEF SchedulePost, TypeOK
<1>6. CASE ScheduleReturn(t)
  BY <1>0, <1>6, ReturnTyped, TypeParts DEF ScheduleReturn, TypeOK
<1> QED
  BY <1>1, <1>2, <1>3, <1>4, <1>5, <1>6 DEF ClientStep

\* An exception that escapes an import keeps the types.
LEMMA EscapesTyped ==
  ASSUME TypeOK, NEW t \in Threads, Escapes(t)
  PROVE  /\ posted' \in Seq(Problems)
         /\ call' \in [Threads -> Calls]
         /\ call'[Executor].op \notin {"upload", "schedule"}
         /\ m_import_lock' \in Threads \cup {NoThread}
         /\ up' \in BOOLEAN
         /\ seen' \in [Pollers -> {Stale} \cup [Problems -> Statuses]]
         /\ calls' \in 0..MaxCalls
<1>1. CASE t = Executor
  BY <1>1, DownTyped DEF Escapes
<1>2. CASE t # Executor
  BY <1>2, ReturnTyped DEF Escapes, TypeOK
<1> QED BY <1>1, <1>2

\* The call of thread t moves on to a phase of an import.
LEMMA ImportCallUpdate ==
  ASSUME TypeOK, NEW t \in Threads,
         NEW c \in ImportCalls \cup ConvertCalls \cup FinishCalls,
         call' = [call EXCEPT ![t] = c]
  PROVE  /\ call' \in [Threads -> Calls]
         /\ call'[Executor].op \notin {"upload", "schedule"}
BY CallUpdate DEF Calls, ImportCalls, ConvertCalls, FinishCalls

\* Recording an import result keeps the types.
LEMMA WriteResultTyped ==
  ASSUME TypeOK, NEW t \in Threads, WriteResult(t)
  PROVE  /\ call[t].id \in Problems
         /\ result' \in [Problems -> Results \cup {NoResult}]
<1>1. call[t] \in FinishCalls
  BY CallFields DEF WriteResult
<1> QED
  BY <1>1 DEF WriteResult, TypeOK, Results, FinishCalls

\* Every step of an import keeps the types.
LEMMA ImportStepTyped ==
  ASSUME TypeOK, NEW t \in Threads, ImportStep(t)
  PROVE  TypeOK'
<1>1. CASE ImportMissing(t)
  BY <1>1, ReturnTyped, TypeParts DEF ImportMissing, TypeOK
<1>2. CASE ImportBegin(t)
  <2> DEFINE p == call[t].id
             new == [op |-> "convert", id |-> p, revision |-> revision'[p]]
  <2>1. p \in Problems
    BY <1>2, CallFields DEF ImportBegin, StartsImport
  <2>2. revision' \in [Problems -> Revisions \cup {NoRevision}]
    BY <1>2, <2>1, RegeneratedTyped DEF ImportBegin
  <2>3. revision'[p] \in Revisions
    BY <1>2, <2>1, HashAssumption, AbsentAssumption
       DEF ImportBegin, regenerated, TypeOK
  <2>4. new \in ConvertCalls
    BY <2>1, <2>3 DEF ConvertCalls
  <2>5. call' = [call EXCEPT ![t] = new]
    BY <1>2 DEF ImportBegin
  <2> HIDE DEF new
  <2>6. /\ call' \in [Threads -> Calls]
        /\ call'[Executor].op \notin {"upload", "schedule"}
    BY <2>4, <2>5, ImportCallUpdate
  <2> QED
    BY <1>2, <2>2, <2>6, TypeParts DEF ImportBegin, TypeOK
<1>3. CASE ImportThrow(t)
  <2>1. call[t].id \in Problems
    BY <1>3, CallFields DEF ImportThrow, StartsImport
  <2>2. revision' \in [Problems -> Revisions \cup {NoRevision}]
    BY <1>3, <2>1, RegeneratedTyped DEF ImportThrow
  <2> QED
    BY <1>3, <2>2, EscapesTyped, TypeParts DEF ImportThrow, TypeOK
<1>4. CASE ConvertReject(t)
  <2> DEFINE new == [op |-> "finish", id |-> call[t].id,
                     revision |-> call[t].revision, ok |-> FALSE]
  <2>1. call[t] \in ConvertCalls
    BY <1>4, CallFields DEF ConvertReject
  <2>2. new \in FinishCalls /\ call' = [call EXCEPT ![t] = new]
    BY <1>4, <2>1 DEF ConvertReject, ConvertCalls, FinishCalls
  <2> HIDE DEF new
  <2> QED
    BY <1>4, <2>2, ImportCallUpdate, TypeParts DEF ConvertReject, TypeOK
<1>5. CASE ConvertStart(t)
  <2>1. call[t] \in ConvertCalls
    BY <1>5, CallFields DEF ConvertStart
  <2>2. /\ call' = [call EXCEPT ![t] = call'[t]]
        /\ call'[t] \in ConvertCalls
    BY <1>5, <2>1 DEF ConvertStart, ConvertCalls, TypeOK
  <2>3. package' \in [Problems -> Revisions \cup {NoPackage, Torn}]
    BY <1>5, <2>1 DEF ConvertStart, ConvertCalls, TypeOK
  <2> QED
    BY <1>5, <2>2, <2>3, ImportCallUpdate, TypeParts DEF ConvertStart, TypeOK
<1>6. ASSUME NEW ok \in BOOLEAN, ConvertEnd(t, ok)
      PROVE  TypeOK'
  <2> DEFINE new == [op |-> "finish", id |-> call[t].id,
                     revision |-> call[t].revision, ok |-> ok]
  <2>1. call[t] \in ConvertCalls
    BY <1>6, CallFields DEF ConvertEnd
  <2>2. new \in FinishCalls /\ call' = [call EXCEPT ![t] = new]
    BY <1>6, <2>1 DEF ConvertEnd, ConvertCalls, FinishCalls
  <2>3. package' \in [Problems -> Revisions \cup {NoPackage, Torn}]
    BY <1>6, <2>1 DEF ConvertEnd, ConvertCalls, TypeOK
  <2> HIDE DEF new
  <2> QED
    BY <1>6, <2>2, <2>3, ImportCallUpdate, TypeParts DEF ConvertEnd, TypeOK
<1>7. CASE ImportChanged(t)
  BY <1>7, ReturnTyped, TypeParts DEF ImportChanged, TypeOK
<1>8. CASE ImportUnreadable(t)
  BY <1>8, EscapesTyped, TypeParts DEF ImportUnreadable, TypeOK
<1>9. CASE ImportFinish(t)
  <2>1. /\ call[t].id \in Problems
        /\ result' \in [Problems -> Results \cup {NoResult}]
    BY <1>9, WriteResultTyped DEF ImportFinish
  <2>2. flags' \in [Problems -> SUBSET Flags]
    BY <1>9, <2>1 DEF ImportFinish, TypeOK, Flags
  <2>3. seen' \in [Pollers -> {Stale} \cup [Problems -> Statuses]]
    BY <1>9 DEF ImportFinish
  <2> QED
    BY <1>9, <2>1, <2>2, <2>3, ReturnTyped, TypeParts DEF ImportFinish, TypeOK
<1> QED
  BY <1>1, <1>2, <1>3, <1>4, <1>5, <1>6, <1>7, <1>8, <1>9 DEF ImportStep

\* Every permutation of the pending problems is a queue of problems.
LEMMA RestartTyped ==
  ASSUME TypeOK, Restart
  PROVE  TypeOK'
<1> DEFINE S == with_flag(PENDING_IMPORT)
<1>1. S \subseteq Problems
  BY DEF with_flag, TypeOK
<1>2. IsFiniteSet(S)
  BY <1>1, ProblemsAssumption, FS_Subset
<1>3. Cardinality(S) \in Nat
  BY <1>2, FS_CardinalityType
<1>4. PICK order \in [1..Cardinality(S) -> S] : posted' = order
  BY DEF Restart
<1>5. posted' \in Seq(Problems)
  BY <1>1, <1>3, <1>4
<1> QED
  BY <1>5 DEF Restart, TypeOK

\* Type correctness is inductive.
LEMMA TypeStep ==
  ASSUME TypeOK, [Next]_vars
  PROVE  TypeOK'
<1>1. ASSUME NEW t \in Clients, ClientCall(t)
      PROVE  TypeOK'
  <2>0. t \in Threads /\ t # Executor
    BY ThreadsAssumption
  <2>1. ASSUME NEW ids \in SUBSET Problems, Schedule(t, ids)
        PROVE  TypeOK'
    <3> DEFINE new == [op |-> "schedule", todo |-> ids, scheduled |-> {}]
    <3>1. new \in Calls /\ call' = [call EXCEPT ![t] = new]
      BY <2>1 DEF Schedule, Calls, ScheduleCalls
    <3>2. /\ call' \in [Threads -> Calls]
          /\ call'[Executor].op \notin {"upload", "schedule"}
      BY <2>0, <3>1, CallUpdate
    <3> QED
      BY <2>1, <3>2, NewCallTyped, TypeParts DEF Schedule, TypeOK
  <2>2. ASSUME NEW p \in Problems, Import(t, p)
        PROVE  TypeOK'
    <3> DEFINE new == [op |-> "import", id |-> p]
    <3>1. new \in ImportCalls /\ call' = [call EXCEPT ![t] = new]
      BY <2>2 DEF Import, ImportCalls
    <3> HIDE DEF new
    <3> QED
      BY <2>0, <2>2, <3>1, ImportCallUpdate, NewCallTyped, TypeParts
         DEF Import, TypeOK
  <2> QED
    BY <1>1, <2>1, <2>2, UploadTyped DEF ClientCall
<1>2. ASSUME NEW t \in Clients, UploadCrash(t)
      PROVE  TypeOK'
  <2>1. call[t].id \in Problems /\ call[t].data \in Contents
    BY <1>2, CallFields DEF UploadCrash
  <2>2. PICK stage \in UploadStages(call[t].id, call[t].data) :
               LeaveStage(call[t].id, stage)
    BY <1>2 DEF UploadCrash
  <2> QED
    BY <1>2, <2>1, <2>2, StageTyped, DownTyped, TypeParts
       DEF UploadCrash, TypeOK
<1>3. ASSUME NEW p \in Problems, FlagCall(p)
      PROVE  TypeOK'
  <2>1. PICK new \in SUBSET Flags : EditFlags(p, new)
    BY <1>3, FlagsAssumption
       DEF FlagCall, set_flag, set_flags, unset_flag, unset_flags, clear_flags,
           TypeOK, Flags
  <2> QED BY <2>1, EditFlagsTyped
<1>4. CASE RunPosted
  <2> DEFINE new == [op |-> "import", id |-> Head(posted)]
  <2>1. Head(posted) \in Problems /\ posted' \in Seq(Problems)
    BY <1>4 DEF RunPosted, TypeOK
  <2>2. new \in ImportCalls /\ call' = [call EXCEPT ![Executor] = new]
    BY <1>4, <2>1 DEF RunPosted, ImportCalls
  <2> HIDE DEF new
  <2> QED
    BY <1>4, <2>1, <2>2, ImportCallUpdate, TypeParts DEF RunPosted, TypeOK
<1>5. ASSUME NEW t \in Threads, FinishCrash(t)
      PROVE  TypeOK'
  <2>1. /\ call[t].id \in Problems
        /\ result' \in [Problems -> Results \cup {NoResult}]
    BY <1>5, WriteResultTyped DEF FinishCrash
  <2>2. flags' \in [Problems -> SUBSET Flags]
    BY <1>5, <2>1 DEF FinishCrash, TypeOK, Flags
  <2> QED
    BY <1>5, <2>1, <2>2, DownTyped, TypeParts DEF FinishCrash, TypeOK
<1>6. ASSUME NEW c \in Pollers, status_all_if_changed(c)
      PROVE  TypeOK'
  <2>1. StatusMap \in [Problems -> Statuses]
    BY DEF StatusMap, Status, Statuses, TypeOK
  <2>2. seen' \in [Pollers -> {Stale} \cup [Problems -> Statuses]]
    BY <1>6, <2>1 DEF status_all_if_changed, TypeOK
  <2> QED
    BY <1>6, <2>2 DEF status_all_if_changed, TypeOK
<1>7. CASE Crash
  BY <1>7, DownTyped, TypeParts DEF Crash, TypeOK
<1>8. CASE UNCHANGED vars
  BY <1>8 DEF vars, TypeOK
<1> QED
  BY <1>1, <1>2, <1>3, <1>4, <1>5, <1>6, <1>7, <1>8, ClientStepTyped,
     ImportStepTyped, RestartTyped DEF Next

\* Every reachable state of the archive is well typed: in particular an import
\* always runs with a revision in hand, whatever uploads failed before it.
THEOREM TypeCorrect == Spec => []TypeOK
<1>1. Init => TypeOK
  BY BoundsAssumption DEF Init, TypeOK, Idle
<1> QED
  BY <1>1, TypeStep, PTL DEF Spec

-----------------------------------------------------------------------------
(* The storage invariant: data, revision and result of a problem agree *)

\* A step that leaves the files and the import mutex alone, and no thread
\* into or out of a conversion.
Quiet ==
  /\ UNCHANGED <<data, revision, result, m_import_lock>>
  /\ \A t \in Threads : \/ call'[t] = call[t]
                        \/ /\ call[t].op \notin Converting
                           /\ call'[t].op \notin Converting

\* A step that leaves files, calls and mutex alone keeps StorageInv.
LEMMA QuietStorage == StorageInv /\ Quiet => StorageInv'
BY DEF StorageInv, Quiet, ImportLockHeld, UnhashedUnimported,
       OvertakenUnimported, RevisionOfData, ResultOfRevision

\* The process dies: only the relation between the files remains to be shown.
LEMMA DownStorage ==
  ASSUME Down, UnhashedUnimported', RevisionOfData', ResultOfRevision'
  PROVE  StorageInv'
<1>1. \A t \in Threads : call'[t].op = "idle" /\ m_import_lock' # t
  BY ThreadsAssumption DEF Down, Idle
<1> QED
  BY <1>1 DEF StorageInv, ImportLockHeld, OvertakenUnimported, Converting

\* An upload cut short leaves files that agree with each other.
LEMMA StageFiles ==
  ASSUME TypeOK, StorageInv, NEW p \in Problems, NEW c \in Contents,
         NEW stage \in UploadStages(p, c), LeaveStage(p, stage)
  PROVE  /\ UnhashedUnimported'
         /\ RevisionOfData'
         /\ ResultOfRevision'
<1>1. \/ stage.revision = NoRevision /\ stage.result = NoResult
      \/ /\ stage.data = NoData
         /\ stage.revision \in {NoRevision, revision[p]}
         /\ stage.result = result[p]
      \/ stage.data = c /\ stage.revision = Hash[c] /\ stage.result = NoResult
  BY DEF UploadStages, FailedStages
<1>2. \A q \in Problems : q # p => /\ data'[q] = data[q]
                                   /\ revision'[q] = revision[q]
                                   /\ result'[q] = result[q]
  BY DEF LeaveStage, TypeOK
<1>3. /\ data'[p] = stage.data
      /\ revision'[p] = stage.revision
      /\ result'[p] = stage.result
  BY DEF LeaveStage, TypeOK
<1> QED
  BY <1>1, <1>2, <1>3
     DEF StorageInv, UnhashedUnimported, RevisionOfData, ResultOfRevision

\* Regenerating a missing revision: only data that was never imported is
\* hashed again, so no result is left for another revision.
LEMMA RegeneratedFiles ==
  ASSUME TypeOK, StorageInv, NEW p \in Problems,
         revision' = regenerated(p), UNCHANGED <<data, result>>
  PROVE  /\ UnhashedUnimported'
         /\ RevisionOfData'
         /\ ResultOfRevision'
         /\ \A q \in Problems : revision'[q] # revision[q] => result[q] = NoResult
<1>1. \A q \in Problems :
        \/ revision'[q] = revision[q]
        \/ /\ revision[q] = NoRevision
           /\ data[q] # NoData
           /\ revision'[q] = Hash[data[q]]
  BY DEF regenerated, TypeOK
<1> QED
  BY <1>1
     DEF StorageInv, UnhashedUnimported, RevisionOfData, ResultOfRevision

\* Recording a result: it is that of the revision on disk.
LEMMA WriteResultFiles ==
  ASSUME TypeOK, StorageInv, NEW t \in Threads, WriteResult(t),
         UNCHANGED <<data, revision>>
  PROVE  /\ UnhashedUnimported'
         /\ RevisionOfData'
         /\ ResultOfRevision'
<1>1. call[t] \in FinishCalls
  BY CallFields DEF WriteResult
<1>2. revision[call[t].id] \in Revisions
  BY <1>1 DEF WriteResult, FinishCalls
<1>3. \A q \in Problems : q # call[t].id => result'[q] = result[q]
  BY DEF WriteResult, TypeOK
<1>4. result'[call[t].id].revision = revision[call[t].id]
  BY <1>1 DEF WriteResult, TypeOK, FinishCalls
<1> QED
  BY <1>1, <1>2, <1>3, <1>4, AbsentAssumption
     DEF StorageInv, UnhashedUnimported, RevisionOfData, ResultOfRevision,
         FinishCalls

\* The holder of the import mutex gives it back and is idle.
LEMMA ReleaseLock ==
  ASSUME TypeOK, ImportLockHeld, NEW t \in Threads, call[t].op \in Converting,
         Return(t), m_import_lock' = NoThread
  PROVE  /\ ImportLockHeld'
         /\ \A u \in Threads : call'[u].op \notin Converting
<1>1. \A u \in Threads : u # t => call[u].op \notin Converting
  BY DEF ImportLockHeld
<1>2. \A u \in Threads : call'[u].op \notin Converting
  BY <1>1 DEF Return, TypeOK, Idle, Converting
<1> QED
  BY <1>2, ThreadsAssumption DEF ImportLockHeld

\* Every step of a client call keeps the files in agreement.
LEMMA ClientStepStorage ==
  ASSUME TypeOK, StorageInv, NEW t \in Clients, ClientStep(t)
  PROVE  StorageInv'
<1>0. t \in Threads
  OBVIOUS
<1>1. CASE UploadRefused(t)
  BY <1>1, QuietStorage DEF UploadRefused, Quiet, Return, TypeOK, Idle, Converting
<1>2. CASE UploadStore(t)
  <2> DEFINE p == call[t].id
             c == call[t].data
  <2>1. p \in Problems /\ c \in Contents
    BY <1>0, <1>2, CallFields DEF UploadStore
  <2>2. /\ data'[p] = c /\ revision'[p] = Hash[c] /\ result'[p] = NoResult
        /\ \A q \in Problems : q # p => /\ data'[q] = data[q]
                                        /\ revision'[q] = revision[q]
                                        /\ result'[q] = result[q]
    BY <1>2, <2>1 DEF UploadStore, TypeOK
  <2>3. /\ m_import_lock' = m_import_lock
        /\ call[t].op \notin Converting
        /\ call'[t].op \notin Converting
        /\ \A u \in Threads : u # t => call'[u] = call[u]
    BY <1>0, <1>2 DEF UploadStore, Return, TypeOK, Idle, Converting
  <2>4. Hash[c] # NoRevision
    BY <2>1, HashAssumption, AbsentAssumption
  <2> HIDE DEF p, c
  <2>5. UnhashedUnimported' /\ RevisionOfData' /\ ResultOfRevision'
    BY <2>1, <2>2, <2>4
       DEF StorageInv, UnhashedUnimported, RevisionOfData, ResultOfRevision
  <2>6. ImportLockHeld'
    BY <2>3 DEF StorageInv, ImportLockHeld
  <2>7. OvertakenUnimported'
    <3> SUFFICES ASSUME NEW u \in Threads, call'[u].op \in Converting,
                        call'[u].revision # revision'[call'[u].id]
                 PROVE  result'[call'[u].id] = NoResult
      BY DEF OvertakenUnimported
    <3>1. u # t /\ call'[u] = call[u]
      BY <2>3
    <3>2. call[u].id \in Problems
      BY <3>1, CallFields
    <3> QED
      BY <2>2, <3>1, <3>2 DEF StorageInv, OvertakenUnimported
  <2> QED
    BY <2>5, <2>6, <2>7 DEF StorageInv
<1>3. CASE UploadThrow(t)
  <2> DEFINE p == call[t].id
  <2>1. p \in Problems /\ call[t].data \in Contents
    BY <1>0, <1>3, CallFields DEF UploadThrow
  <2>2. PICK stage \in FailedStages(p, call[t].data) : LeaveStage(p, stage)
    BY <1>3 DEF UploadThrow
  <2>3. stage \in UploadStages(p, call[t].data)
    BY <2>2 DEF UploadStages
  <2>4. UnhashedUnimported' /\ RevisionOfData' /\ ResultOfRevision'
    BY <2>1, <2>2, <2>3, StageFiles
  <2>5. /\ result'[p] = NoResult
        /\ \A q \in Problems : q # p => /\ revision'[q] = revision[q]
                                        /\ result'[q] = result[q]
    BY <2>1, <2>2 DEF FailedStages, LeaveStage, TypeOK
  <2>6. /\ m_import_lock' = m_import_lock
        /\ call[t].op \notin Converting
        /\ call'[t].op \notin Converting
        /\ \A u \in Threads : u # t => call'[u] = call[u]
    BY <1>0, <1>3 DEF UploadThrow, Return, TypeOK, Idle, Converting
  <2>7. ImportLockHeld'
    BY <2>6 DEF StorageInv, ImportLockHeld
  <2> HIDE DEF p
  <2>8. OvertakenUnimported'
    <3> SUFFICES ASSUME NEW u \in Threads, call'[u].op \in Converting,
                        call'[u].revision # revision'[call'[u].id]
                 PROVE  result'[call'[u].id] = NoResult
      BY DEF OvertakenUnimported
    <3>1. u # t /\ call'[u] = call[u]
      BY <2>6
    <3>2. call[u].id \in Problems
      BY <3>1, CallFields
    <3> QED
      BY <2>5, <3>1, <3>2 DEF StorageInv, OvertakenUnimported
  <2> QED
    BY <2>4, <2>7, <2>8 DEF StorageInv
<1>4. ASSUME NEW p \in Problems, SchedulePrepare(t, p) \/ SchedulePost(t, p)
      PROVE  StorageInv'
  <2>1. call[t] \in ScheduleCalls
    BY <1>0, <1>4, CallFields DEF SchedulePrepare, SchedulePost
  <2>2. call[t].op \notin Converting /\ call'[t].op \notin Converting
    BY <1>0, <1>4, <2>1
       DEF SchedulePrepare, SchedulePost, ScheduleCalls, Converting, TypeOK
  <2>3. \A u \in Threads : u # t => call'[u] = call[u]
    BY <1>4 DEF SchedulePrepare, SchedulePost, TypeOK
  <2>4. Quiet
    BY <1>4, <2>2, <2>3 DEF SchedulePrepare, SchedulePost, Quiet
  <2> QED BY <2>4, QuietStorage
<1>5. CASE ScheduleReturn(t)
  BY <1>5, QuietStorage DEF ScheduleReturn, Quiet, Return, TypeOK, Idle, Converting
<1> QED
  BY <1>1, <1>2, <1>3, <1>4, <1>5 DEF ClientStep

\* One thread converts and changes phase; files and mutex stay.
LEMMA PhaseStorage ==
  ASSUME TypeOK, StorageInv, NEW t \in Threads,
         call[t].op \in Converting, call'[t].op \in Converting,
         call'[t].id = call[t].id, call'[t].revision = call[t].revision,
         \A u \in Threads : u # t => call'[u] = call[u],
         UNCHANGED <<data, revision, result, m_import_lock>>
  PROVE  StorageInv'
BY DEF StorageInv, ImportLockHeld, UnhashedUnimported,
       OvertakenUnimported, RevisionOfData, ResultOfRevision

\* Every step of an import keeps the files in agreement.
LEMMA ImportStepStorage ==
  ASSUME TypeOK, StorageInv, NEW t \in Threads, ImportStep(t)
  PROVE  StorageInv'
<1>1. CASE ImportMissing(t)
  BY <1>1, QuietStorage
     DEF ImportMissing, StartsImport, Quiet, Return, TypeOK, Idle, Converting
<1>2. CASE ImportBegin(t)
  <2> DEFINE p == call[t].id
  <2>1. p \in Problems
    BY <1>2, CallFields DEF ImportBegin, StartsImport
  <2>2. /\ UnhashedUnimported' /\ RevisionOfData' /\ ResultOfRevision'
    BY <1>2, <2>1, RegeneratedFiles DEF ImportBegin
  <2>3. /\ m_import_lock' = t
        /\ call'[t].op \in Converting
        /\ call'[t].id = p
        /\ call'[t].revision = revision'[p]
        /\ \A u \in Threads : u # t => call'[u] = call[u]
    BY <1>2 DEF ImportBegin, TypeOK, Converting
  <2>4. \A u \in Threads : call[u].op \notin Converting
    BY <1>2, ThreadsAssumption
       DEF ImportBegin, StartsImport, StorageInv, ImportLockHeld
  <2> HIDE DEF p
  <2>5. ImportLockHeld' /\ OvertakenUnimported'
    BY <2>3, <2>4 DEF ImportLockHeld, OvertakenUnimported
  <2> QED
    BY <2>2, <2>5 DEF StorageInv
<1>3. CASE ImportThrow(t)
  <2>1. call[t].id \in Problems
    BY <1>3, CallFields DEF ImportThrow, StartsImport
  <2>2. /\ UnhashedUnimported' /\ RevisionOfData' /\ ResultOfRevision'
    BY <1>3, <2>1, RegeneratedFiles DEF ImportThrow
  <2>3. CASE t = Executor
    BY <1>3, <2>2, <2>3, DownStorage DEF ImportThrow, Escapes
  <2>4. CASE t # Executor
    <3>1. \A u \in Threads : call[u].op \notin Converting
      BY <1>3, ThreadsAssumption
         DEF ImportThrow, StartsImport, StorageInv, ImportLockHeld
    <3>2. \A u \in Threads : call'[u].op \notin Converting
      BY <1>3, <2>4, <3>1
         DEF ImportThrow, Escapes, Return, TypeOK, Idle, Converting
    <3>3. m_import_lock' = NoThread
      BY <1>3, <2>4 DEF ImportThrow, Escapes
    <3> QED
      BY <2>2, <3>2, <3>3, ThreadsAssumption
         DEF StorageInv, ImportLockHeld, OvertakenUnimported
  <2> QED BY <2>3, <2>4
<1>4. CASE ConvertReject(t)
  BY <1>4, PhaseStorage DEF ConvertReject, TypeOK, Converting
<1>5. CASE ConvertStart(t)
  <2>1. call[t] \in ConvertCalls
    BY <1>5, CallFields DEF ConvertStart
  <2>2. /\ call'[t].op = "build" /\ call'[t].id = call[t].id
        /\ call'[t].revision = call[t].revision
        /\ \A u \in Threads : u # t => call'[u] = call[u]
    BY <1>5, <2>1 DEF ConvertStart, TypeOK, ConvertCalls
  <2> QED
    BY <1>5, <2>2, PhaseStorage DEF ConvertStart, Converting
<1>6. ASSUME NEW ok \in BOOLEAN, ConvertEnd(t, ok)
      PROVE  StorageInv'
  BY <1>6, PhaseStorage DEF ConvertEnd, TypeOK, Converting
<1>7. CASE ImportChanged(t)
  <2>1. call[t].op \in Converting
    BY <1>7 DEF ImportChanged, Converting
  <2>2. /\ ImportLockHeld'
        /\ \A u \in Threads : call'[u].op \notin Converting
    BY <1>7, <2>1, ReleaseLock DEF ImportChanged, StorageInv
  <2> QED
    BY <1>7, <2>2
       DEF ImportChanged, StorageInv, UnhashedUnimported, OvertakenUnimported,
           RevisionOfData, ResultOfRevision
<1>8. CASE ImportUnreadable(t)
  <2>1. UnhashedUnimported' /\ RevisionOfData' /\ ResultOfRevision'
    BY <1>8 DEF ImportUnreadable, StorageInv, UnhashedUnimported,
       RevisionOfData, ResultOfRevision
  <2>2. CASE t = Executor
    BY <1>8, <2>1, <2>2, DownStorage DEF ImportUnreadable, Escapes
  <2>3. CASE t # Executor
    <3>1. call[t].op \in Converting
      BY <1>8 DEF ImportUnreadable, Converting
    <3>2. /\ ImportLockHeld'
          /\ \A u \in Threads : call'[u].op \notin Converting
      BY <1>8, <2>3, <3>1, ReleaseLock DEF ImportUnreadable, Escapes, StorageInv
    <3> QED
      BY <2>1, <3>2 DEF StorageInv, OvertakenUnimported
  <2> QED BY <2>2, <2>3
<1>9. CASE ImportFinish(t)
  <2>1. call[t].op \in Converting
    BY <1>9 DEF ImportFinish, WriteResult, Converting
  <2>2. /\ ImportLockHeld'
        /\ \A u \in Threads : call'[u].op \notin Converting
    BY <1>9, <2>1, ReleaseLock DEF ImportFinish, StorageInv
  <2>3. UnhashedUnimported' /\ RevisionOfData' /\ ResultOfRevision'
    BY <1>9, WriteResultFiles DEF ImportFinish
  <2> QED
    BY <2>2, <2>3 DEF StorageInv, OvertakenUnimported
<1> QED
  BY <1>1, <1>2, <1>3, <1>4, <1>5, <1>6, <1>7, <1>8, <1>9 DEF ImportStep

\* StorageInv is inductive.
LEMMA StorageStep ==
  ASSUME TypeOK, StorageInv, [Next]_vars
  PROVE  StorageInv'
<1>1. ASSUME NEW t \in Clients, ClientCall(t)
      PROVE  StorageInv'
  BY <1>1, QuietStorage
     DEF ClientCall, Upload, Schedule, Import, Quiet, TypeOK, Idle, Converting
<1>2. ASSUME NEW t \in Clients, UploadCrash(t)
      PROVE  StorageInv'
  <2>1. call[t].id \in Problems /\ call[t].data \in Contents
    BY <1>2, CallFields DEF UploadCrash
  <2>2. PICK stage \in UploadStages(call[t].id, call[t].data) :
               LeaveStage(call[t].id, stage)
    BY <1>2 DEF UploadCrash
  <2> QED
    BY <1>2, <2>1, <2>2, StageFiles, DownStorage DEF UploadCrash
<1>3. ASSUME NEW p \in Problems, FlagCall(p)
      PROVE  StorageInv'
  BY <1>3, QuietStorage
     DEF FlagCall, set_flag, set_flags, unset_flag, unset_flags, clear_flags,
         EditFlags, Quiet
<1>4. CASE RunPosted
  BY <1>4, QuietStorage DEF RunPosted, Quiet, TypeOK, Idle, Converting
<1>5. ASSUME NEW t \in Threads, FinishCrash(t)
      PROVE  StorageInv'
  BY <1>5, WriteResultFiles, DownStorage DEF FinishCrash
<1>6. ASSUME NEW c \in Pollers, status_all_if_changed(c)
      PROVE  StorageInv'
  BY <1>6, QuietStorage DEF status_all_if_changed, Quiet
<1>7. CASE Crash
  <2>1. UnhashedUnimported' /\ RevisionOfData' /\ ResultOfRevision'
    BY <1>7 DEF Crash, StorageInv, UnhashedUnimported, RevisionOfData,
       ResultOfRevision
  <2> QED BY <1>7, <2>1, DownStorage DEF Crash
<1>8. CASE Restart
  BY <1>8, QuietStorage DEF Restart, Quiet
<1>9. CASE UNCHANGED vars
  BY <1>9, QuietStorage DEF vars, Quiet
<1> QED
  BY <1>1, <1>2, <1>3, <1>4, <1>5, <1>6, <1>7, <1>8, <1>9,
     ClientStepStorage, ImportStepStorage DEF Next

\* The files agree in the initial state.
LEMMA StorageInit == Init => StorageInv
BY ThreadsAssumption
   DEF Init, StorageInv, ImportLockHeld, UnhashedUnimported,
       OvertakenUnimported, RevisionOfData, ResultOfRevision, Idle, Converting

\* The files of a problem agree in every reachable state, also after failed
\* uploads and crashes at any point.
THEOREM StorageAgrees == Spec => []StorageInv
BY TypeCorrect, StorageInit, StorageStep, PTL DEF Spec

\* The revision file is never that of other data.
THEOREM RevisionMatchesData == Spec => []RevisionOfData
<1>1. StorageInv => RevisionOfData
  BY DEF StorageInv
<1> QED BY <1>1, StorageAgrees, PTL

\* A recorded import result is never that of another revision, however
\* imports, uploads, failures and crashes interleave.
THEOREM ResultMatchesRevision == Spec => []ResultOfRevision
<1>1. StorageInv => ResultOfRevision
  BY DEF StorageInv
<1> QED BY <1>1, StorageAgrees, PTL

-----------------------------------------------------------------------------
(* The package of a successfully imported problem, without crashes *)

PackageInv == BuiltPackage /\ PackageCurrent

\* A step that leaves packages alone preserves PackageInv if every problem it
\* touches gets pending or loses its result, and no conversion starts or ends.
LEMMA QuietPackage ==
  ASSUME PackageInv, UNCHANGED package,
         \A t \in Threads : \/ call'[t] = call[t]
                            \/ /\ call[t].op \notin Converting
                               /\ call'[t].op \notin Converting,
         \A p \in Problems :
            \/ result'[p] = NoResult
            \/ has_flag(p, PENDING_IMPORT)'
            \/ /\ revision'[p] = revision[p] /\ result'[p] = result[p]
               /\ ~has_flag(p, PENDING_IMPORT)
  PROVE  PackageInv'
<1>1. BuiltPackage'
  BY DEF PackageInv, BuiltPackage, Converting
<1>2. \A p \in Problems : Rewriting(p)' <=> Rewriting(p)
  BY DEF Rewriting, Converting
<1>3. PackageCurrent'
  BY <1>2 DEF PackageInv, PackageCurrent
<1> QED BY <1>1, <1>3 DEF PackageInv

\* All conversions are over and nothing else has changed.
LEMMA OverPackage ==
  ASSUME PackageCurrent, \A t \in Threads : call'[t].op \notin Converting,
         UNCHANGED <<flags, package>>,
         \A p \in Problems :
            \/ revision'[p] = NoRevision
            \/ result'[p] = NoResult
            \/ /\ revision'[p] = revision[p] /\ result'[p] = result[p]
               /\ ~Rewriting(p)
  PROVE  PackageInv'
<1>1. BuiltPackage'
  BY DEF BuiltPackage, Converting
<1>2. PackageCurrent'
  BY DEF PackageCurrent, has_flag
<1> QED BY <1>1, <1>2 DEF PackageInv

\* No step of an import leaves an outdated package shown as imported.
LEMMA ImportStepPackage ==
  ASSUME TypeOK, StorageInv, PackageInv, NEW t \in Threads, ImportStep(t)
  PROVE  PackageInv'
<1>0. ASSUME call[t].op \in Converting
      PROVE  \A u \in Threads : u # t => call[u].op \notin Converting
  BY <1>0 DEF StorageInv, ImportLockHeld
<1>1. CASE ImportMissing(t)
  <2>1. call[t].op \notin Converting /\ call'[t].op \notin Converting
    BY <1>1 DEF ImportMissing, StartsImport, Return, TypeOK, Idle, Converting
  <2>2. \A u \in Threads : u # t => call'[u] = call[u]
    BY <1>1 DEF ImportMissing, Return, TypeOK
  <2> QED
    BY <1>1, <2>1, <2>2, QuietPackage DEF ImportMissing, has_flag
<1>2. CASE ImportBegin(t)
  <2> DEFINE p == call[t].id
  <2>1. p \in Problems
    BY <1>2, CallFields DEF ImportBegin, StartsImport
  <2>2. \A q \in Problems : revision'[q] # revision[q] => result[q] = NoResult
    BY <1>2, <2>1, RegeneratedFiles DEF ImportBegin
  <2>3. /\ call[t].op = "import" /\ call'[t].op = "convert"
        /\ \A u \in Threads : u # t => call'[u] = call[u]
    BY <1>2 DEF ImportBegin, StartsImport, TypeOK
  <2>4. \A q \in Problems : Rewriting(q)' <=> Rewriting(q)
    BY <2>3 DEF Rewriting
  <2>5. BuiltPackage'
    BY <1>2, <2>3 DEF ImportBegin, PackageInv, BuiltPackage
  <2>6. PackageCurrent'
    BY <1>2, <2>2, <2>4 DEF ImportBegin, PackageInv, PackageCurrent, has_flag
  <2> QED BY <2>5, <2>6 DEF PackageInv
<1>3. CASE ImportThrow(t)
  <2>1. call[t].id \in Problems
    BY <1>3, CallFields DEF ImportThrow, StartsImport
  <2>2. \A q \in Problems : revision'[q] # revision[q] => result[q] = NoResult
    BY <1>3, <2>1, RegeneratedFiles DEF ImportThrow
  <2>3. \A u \in Threads : call[u].op \notin Converting
    BY <1>3, ThreadsAssumption
       DEF ImportThrow, StartsImport, StorageInv, ImportLockHeld
  <2>4. \A u \in Threads : call'[u].op \notin Converting
    BY <1>3, <2>3
       DEF ImportThrow, Escapes, Down, Return, TypeOK, Idle, Converting
  <2>5. \A q \in Problems : ~Rewriting(q)
    BY <2>3 DEF Rewriting, Converting
  <2> QED
    BY <1>3, <2>2, <2>4, <2>5, OverPackage DEF ImportThrow, PackageInv
<1>4. CASE ConvertReject(t)
  <2>1. /\ call[t].op = "convert" /\ call'[t].op = "finish" /\ ~call'[t].ok
        /\ call'[t].id = call[t].id
        /\ \A u \in Threads : u # t => call'[u] = call[u]
    BY <1>4 DEF ConvertReject, TypeOK
  <2>2. \A q \in Problems : Rewriting(q) => Rewriting(q)'
    BY <2>1 DEF Rewriting
  <2>3. BuiltPackage'
    BY <1>4, <2>1 DEF ConvertReject, PackageInv, BuiltPackage
  <2>4. PackageCurrent'
    BY <1>4, <2>2 DEF ConvertReject, PackageInv, PackageCurrent, has_flag
  <2> QED BY <2>3, <2>4 DEF PackageInv
<1>5. CASE ConvertStart(t)
  <2>1. call[t] \in ConvertCalls
    BY <1>5, CallFields DEF ConvertStart
  <2>2. /\ call'[t].op = "build" /\ call'[t].id = call[t].id
        /\ \A u \in Threads : u # t => call'[u] = call[u]
    BY <1>5, <2>1 DEF ConvertStart, TypeOK, ConvertCalls
  <2>3. \A u \in Threads : u # t => call[u].op \notin Converting
    BY <1>0, <1>5 DEF ConvertStart, Converting
  <2>4. BuiltPackage'
    BY <2>2, <2>3 DEF BuiltPackage, Converting
  <2>5. \A q \in Problems :
          \/ q = call[t].id /\ Rewriting(q)'
          \/ package'[q] = package[q] /\ (Rewriting(q) => Rewriting(q)')
    BY <1>5, <2>2, <2>3 DEF ConvertStart, Rewriting, TypeOK, Converting
  <2>6. PackageCurrent'
    BY <1>5, <2>5 DEF ConvertStart, PackageInv, PackageCurrent, has_flag
  <2> QED BY <2>4, <2>6 DEF PackageInv
<1>6. ASSUME NEW ok \in BOOLEAN, ConvertEnd(t, ok)
      PROVE  PackageInv'
  <2>1. /\ call[t].op = "build" /\ call'[t].op = "finish"
        /\ call'[t].ok = ok
        /\ call'[t].id = call[t].id
        /\ call'[t].revision = call[t].revision
        /\ \A u \in Threads : u # t => call'[u] = call[u]
    BY <1>6 DEF ConvertEnd, TypeOK
  <2>2. \A u \in Threads : u # t => call[u].op \notin Converting
    BY <1>0, <2>1 DEF Converting
  <2>3. call[t].id \in Problems
    BY <2>1, CallFields DEF Converting
  <2>4. BuiltPackage'
    BY <1>6, <2>1, <2>2, <2>3 DEF ConvertEnd, BuiltPackage, Converting, TypeOK
  <2>5. \A q \in Problems :
          \/ q = call[t].id /\ Rewriting(q)'
          \/ package'[q] = package[q] /\ (Rewriting(q) => Rewriting(q)')
    BY <1>6, <2>1, <2>2 DEF ConvertEnd, Rewriting, TypeOK, Converting
  <2>6. PackageCurrent'
    BY <1>6, <2>5 DEF ConvertEnd, PackageInv, PackageCurrent, has_flag
  <2> QED BY <2>4, <2>6 DEF PackageInv
<1>7. CASE ImportChanged(t) \/ ImportUnreadable(t)
  <2>1. call[t].op = "finish" /\ call[t].op \in Converting
    BY <1>7 DEF ImportChanged, ImportUnreadable, Converting
  <2>2. \A u \in Threads : u # t => call[u].op \notin Converting
    BY <1>0, <2>1
  <2>3. \A u \in Threads : call'[u].op \notin Converting
    BY <1>7, <2>2 DEF ImportChanged, ImportUnreadable, Escapes, Down, Return,
       TypeOK, Idle, Converting
  <2>4. \/ revision[call[t].id] = NoRevision
        \/ result[call[t].id] = NoResult
    BY <1>7, <2>1 DEF ImportChanged, ImportUnreadable, StorageInv,
       OvertakenUnimported
  <2>5. \A q \in Problems : q # call[t].id => ~Rewriting(q)
    BY <2>2 DEF Rewriting, Converting
  <2>6. UNCHANGED <<flags, package, revision, result>>
    BY <1>7 DEF ImportChanged, ImportUnreadable
  <2> QED
    BY <2>3, <2>4, <2>5, <2>6, OverPackage DEF PackageInv
<1>8. CASE ImportFinish(t)
  <2> DEFINE p == call[t].id
  <2>1. call[t] \in FinishCalls /\ call[t].op \in Converting
    BY <1>8, CallFields DEF ImportFinish, WriteResult, Converting
  <2>2. /\ ImportLockHeld'
        /\ \A u \in Threads : call'[u].op \notin Converting
    BY <1>8, <2>1, ReleaseLock DEF ImportFinish, StorageInv
  <2>3. BuiltPackage'
    BY <2>2 DEF BuiltPackage, Converting
  <2>4. \A u \in Threads : u # t => call[u].op \notin Converting
    BY <1>0, <2>1
  <2>5. \A q \in Problems : q # p =>
          /\ result'[q] = result[q] /\ flags'[q] = flags[q]
          /\ ~Rewriting(q)
    BY <1>8, <2>4
       DEF ImportFinish, WriteResult, TypeOK, Rewriting, Converting
  <2>6. /\ result'[p] = [revision |-> call[t].revision, ok |-> call[t].ok]
        /\ revision[p] = call[t].revision
    BY <1>8, <2>1 DEF ImportFinish, WriteResult, TypeOK, FinishCalls
  <2>7. call[t].ok => package[p] = revision[p]
    BY <2>1, <2>6 DEF PackageInv, BuiltPackage, FinishCalls
  <2>8. UNCHANGED <<revision, package>>
    BY <1>8 DEF ImportFinish
  <2>9. PackageCurrent'
    <3> SUFFICES ASSUME NEW q \in Problems,
                        ~has_flag(q, PENDING_IMPORT)',
                        revision'[q] # NoRevision,
                        result'[q] # NoResult,
                        result'[q].ok
                 PROVE  package'[q] = revision'[q]
      BY DEF PackageCurrent
    <3>1. CASE q = p
      BY <2>6, <2>7, <2>8, <3>1
    <3>2. CASE q # p
      BY <2>5, <2>8, <3>2 DEF PackageInv, PackageCurrent, has_flag
    <3> QED BY <3>1, <3>2
  <2> QED BY <2>3, <2>9 DEF PackageInv
<1> QED
  BY <1>1, <1>2, <1>3, <1>4, <1>5, <1>6, <1>7, <1>8 DEF ImportStep

\* Client calls never take PENDING_IMPORT away.
LEMMA FlagCallKeepsPending ==
  ASSUME TypeOK, NEW p \in Problems, FlagCall(p), NEW q \in Problems
  PROVE  has_flag(q, PENDING_IMPORT) => has_flag(q, PENDING_IMPORT)'
BY DEF FlagCall, set_flag, set_flags, unset_flag, unset_flags, clear_flags,
       EditFlags, has_flag, TypeOK

\* No step of a client call leaves an outdated package shown as imported.
LEMMA ClientStepPackage ==
  ASSUME TypeOK, PackageInv, NEW t \in Clients, ClientStep(t)
  PROVE  PackageInv'
<1>0. t \in Threads
  OBVIOUS
<1>1. CASE UploadRefused(t) \/ ScheduleReturn(t)
  <2>1. call[t].op \notin Converting /\ call'[t].op \notin Converting
    BY <1>0, <1>1 DEF UploadRefused, ScheduleReturn, Return, TypeOK, Idle, Converting
  <2>2. \A u \in Threads : u # t => call'[u] = call[u]
    BY <1>1 DEF UploadRefused, ScheduleReturn, Return, TypeOK
  <2>3. UNCHANGED <<revision, result, flags, package>>
    BY <1>1 DEF UploadRefused, ScheduleReturn
  <2> QED
    BY <2>1, <2>2, <2>3, QuietPackage DEF has_flag
<1>2. CASE UploadStore(t) \/ UploadThrow(t)
  <2> DEFINE p == call[t].id
  <2>1. p \in Problems
    BY <1>0, <1>2, CallFields DEF UploadStore, UploadThrow
  <2>2. call[t].op \notin Converting /\ call'[t].op \notin Converting
    BY <1>0, <1>2 DEF UploadStore, UploadThrow, Return, TypeOK, Idle, Converting
  <2>3. \A u \in Threads : u # t => call'[u] = call[u]
    BY <1>2 DEF UploadStore, UploadThrow, Return, TypeOK
  <2>4. result'[p] = NoResult
    BY <1>2, <2>1
       DEF UploadStore, UploadThrow, FailedStages, LeaveStage, TypeOK
  <2>5. \A q \in Problems : q # p =>
          /\ revision'[q] = revision[q] /\ result'[q] = result[q]
          /\ flags'[q] = flags[q]
    BY <1>2, <2>1
       DEF UploadStore, UploadThrow, FailedStages, LeaveStage, TypeOK
  <2>6. UNCHANGED package
    BY <1>2 DEF UploadStore, UploadThrow
  <2> QED
    BY <2>2, <2>3, <2>4, <2>5, <2>6, QuietPackage DEF has_flag
<1>3. ASSUME NEW p \in Problems, SchedulePrepare(t, p) \/ SchedulePost(t, p)
      PROVE  PackageInv'
  <2>1. call[t] \in ScheduleCalls
    BY <1>0, <1>3, CallFields DEF SchedulePrepare, SchedulePost
  <2>2. call[t].op \notin Converting /\ call'[t].op \notin Converting
    BY <1>0, <1>3, <2>1
       DEF SchedulePrepare, SchedulePost, ScheduleCalls, Converting, TypeOK
  <2>3. \A u \in Threads : u # t => call'[u] = call[u]
    BY <1>3 DEF SchedulePrepare, SchedulePost, TypeOK
  <2>4. \A q \in Problems : \/ flags'[q] = flags[q]
                            \/ has_flag(q, PENDING_IMPORT)'
    BY <1>3 DEF SchedulePrepare, SchedulePost, TypeOK, has_flag
  <2>5. UNCHANGED <<revision, result, package>>
    BY <1>3 DEF SchedulePrepare, SchedulePost
  <2> QED
    BY <2>2, <2>3, <2>4, <2>5, QuietPackage DEF has_flag
<1> QED
  BY <1>1, <1>2, <1>3 DEF ClientStep

\* Without kills PackageCurrent is inductive, given StorageInv.
LEMMA PackageStep ==
  ASSUME ~MayCrash, TypeOK, StorageInv, PackageInv, [Next]_vars
  PROVE  PackageInv'
<1>1. ASSUME NEW t \in Clients, ClientCall(t)
      PROVE  PackageInv'
  BY <1>1, QuietPackage
     DEF ClientCall, Upload, Schedule, Import, TypeOK, Idle, Converting, has_flag
<1>2. ASSUME NEW p \in Problems, FlagCall(p)
      PROVE  PackageInv'
  <2>1. UNCHANGED <<revision, result, package, call>>
    BY <1>2 DEF FlagCall, set_flag, set_flags, unset_flag, unset_flags,
       clear_flags, EditFlags
  <2> QED
    BY <1>2, <2>1, FlagCallKeepsPending, QuietPackage
<1>3. CASE RunPosted
  BY <1>3, QuietPackage DEF RunPosted, TypeOK, Idle, Converting, has_flag
<1>4. ASSUME NEW c \in Pollers, status_all_if_changed(c)
      PROVE  PackageInv'
  BY <1>4, QuietPackage DEF status_all_if_changed, has_flag
<1>5. CASE Restart
  BY <1>5, QuietPackage DEF Restart, has_flag
<1>6. CASE UNCHANGED vars
  BY <1>6, QuietPackage DEF vars, has_flag
<1> QED
  BY <1>1, <1>2, <1>3, <1>4, <1>5, <1>6, ClientStepPackage, ImportStepPackage
     DEF Next, UploadCrash, FinishCrash, Crash

\* As long as the server is not killed, a problem shown as imported without
\* error has a complete package of the revision it shows, except while an
\* import rewrites it; uploads may fail and imports may be overtaken.
THEOREM PackageIsCurrent ==
  ASSUME ~MayCrash
  PROVE  Spec => []PackageCurrent
<1>1. Init => PackageInv
  BY DEF Init, PackageInv, BuiltPackage, PackageCurrent, Idle
<1>2. PackageInv => PackageCurrent
  BY DEF PackageInv
<1> QED
  BY <1>1, <1>2, PackageStep, TypeCorrect, StorageAgrees, PTL DEF Spec

-----------------------------------------------------------------------------
(* Uploads that neither fail nor are killed *)

UploadInv == UploadAtomic /\ ImportResultReadable

\* A step that leaves the files of problems alone, and takes PENDING_IMPORT
\* from none, keeps UploadInv.
LEMMA QuietUpload ==
  ASSUME TypeOK, UploadInv, UNCHANGED <<dirs, data, revision, result>>,
         \A p \in Problems : has_flag(p, PENDING_IMPORT) => has_flag(p, PENDING_IMPORT)'
  PROVE  UploadInv'
BY DEF UploadInv, UploadAtomic, ImportResultReadable, TypeOK

\* With its data next to it no revision is missing.
LEMMA NothingToRegenerate ==
  ASSUME TypeOK, UploadAtomic, NEW p \in dirs
  PROVE  regenerated(p) = revision
BY HashAssumption, AbsentAssumption DEF UploadAtomic, regenerated

\* Every step keeps uploads whole, and problems pending or imported.
LEMMA UploadStep ==
  ASSUME ~MayFail, ~MayCrash, TypeOK, UploadInv, [Next]_vars
  PROVE  UploadInv'
<1> USE DEF has_flag
<1>1. ASSUME NEW t \in Clients, ClientCall(t) PROVE UploadInv'
  BY <1>1, QuietUpload DEF ClientCall, Upload, Schedule, Import
<1>2. ASSUME NEW p \in Problems, FlagCall(p) PROVE UploadInv'
  <2>1. UNCHANGED <<dirs, data, revision, result>>
    BY <1>2 DEF FlagCall, set_flag, set_flags, unset_flag, unset_flags,
       clear_flags, EditFlags
  <2> QED BY <1>2, <2>1, FlagCallKeepsPending, QuietUpload
<1>3. ASSUME NEW t \in Clients, ClientStep(t) PROVE UploadInv'
  <2>1. CASE UploadRefused(t) \/ ScheduleReturn(t)
    BY <2>1, QuietUpload DEF UploadRefused, ScheduleReturn
  <2>2. CASE UploadStore(t)
    <3> DEFINE p == call[t].id
               c == call[t].data
    <3>1. p \in Problems /\ c \in Contents
      BY <2>2, CallFields DEF UploadStore
    <3>2. /\ dirs' = dirs \cup {p}
          /\ data'[p] = c /\ revision'[p] = Hash[c]
          /\ PENDING_IMPORT \in flags'[p]
          /\ \A q \in Problems : q # p =>
               /\ data'[q] = data[q] /\ revision'[q] = revision[q]
               /\ result'[q] = result[q] /\ flags'[q] = flags[q]
      BY <2>2, <3>1 DEF UploadStore, TypeOK
    <3> HIDE DEF p, c
    <3> QED BY <3>1, <3>2
            DEF UploadInv, UploadAtomic, ImportResultReadable, TypeOK
  <2>3. ~UploadThrow(t)
    BY DEF UploadThrow
  <2>4. ASSUME NEW p \in Problems, SchedulePrepare(t, p) \/ SchedulePost(t, p)
        PROVE  UploadInv'
    BY <2>4, QuietUpload DEF SchedulePrepare, SchedulePost, TypeOK
  <2> QED BY <1>3, <2>1, <2>2, <2>3, <2>4 DEF ClientStep
<1>4. ASSUME NEW t \in Threads, ImportStep(t) PROVE UploadInv'
  <2>1. CASE ImportBegin(t) \/ ImportThrow(t)
    BY <2>1, QuietUpload, NothingToRegenerate
       DEF ImportBegin, ImportThrow, UploadInv
  <2>2. CASE ImportFinish(t)
    <3> DEFINE p == call[t].id
    <3>1. p \in Problems /\ call[t] \in FinishCalls
      BY <2>2, CallFields DEF ImportFinish, WriteResult, FinishCalls
    <3>2. result'[p] \in Results
      BY <2>2, <3>1 DEF ImportFinish, WriteResult, TypeOK, FinishCalls, Results
    <3>3. result'[p] # NoResult
      BY <3>2, AbsentAssumption DEF Results
    <3>4. \A q \in Problems : q # p => result'[q] = result[q] /\ flags'[q] = flags[q]
      BY <2>2, <3>1 DEF ImportFinish, WriteResult, TypeOK
    <3>5. UNCHANGED <<dirs, data, revision>>
      BY <2>2 DEF ImportFinish
    <3> HIDE DEF p
    <3> QED BY <3>3, <3>4, <3>5
            DEF UploadInv, UploadAtomic, ImportResultReadable, TypeOK
  <2>3. CASE \/ ImportMissing(t) \/ ConvertReject(t) \/ ConvertStart(t)
             \/ \E ok \in BOOLEAN : ConvertEnd(t, ok)
             \/ ImportChanged(t) \/ ImportUnreadable(t)
    BY <2>3, QuietUpload DEF ImportMissing, ConvertReject, ConvertStart,
       ConvertEnd, ImportChanged, ImportUnreadable
  <2> QED BY <1>4, <2>1, <2>2, <2>3 DEF ImportStep
<1>5. CASE RunPosted \/ Restart \/ UNCHANGED vars
  BY <1>5, QuietUpload DEF RunPosted, Restart, vars
<1>6. ASSUME NEW c \in Pollers, status_all_if_changed(c) PROVE UploadInv'
  BY <1>6, QuietUpload DEF status_all_if_changed
<1> QED BY <1>1, <1>2, <1>3, <1>4, <1>5, <1>6
        DEF Next, UploadCrash, FinishCrash, Crash

\* As long as uploads neither throw nor are killed, import_result() has
\* something to read, or an import to wait for, in every interleaving of
\* uploads, flag edits and imports.
\* (repository_impl.cpp:361)
THEOREM ResultIsReadable ==
  ASSUME ~MayFail, ~MayCrash
  PROVE  Spec => []ImportResultReadable
<1>1. Init => UploadInv
  BY DEF Init, UploadInv, UploadAtomic, ImportResultReadable
<1>2. UploadInv => ImportResultReadable
  BY DEF UploadInv
<1> QED BY <1>1, <1>2, UploadStep, TypeCorrect, PTL DEF Spec

-----------------------------------------------------------------------------
(* Every pending import is planned, whatever fails, throws or is killed *)

\* What set_flags() may not be told for this: it would mark a problem pending
\* without posting its import.
NoMarking == \A set \in FlagSets : PENDING_IMPORT \notin set

PlanInv == FlagsHaveDirs /\ PendingIsPlanned

\* A problem that a thread converts has a directory: none is ever removed.
ImportedHasDir ==
  \A t \in Threads : call[t].op \in Converting => call[t].id \in dirs

InQueue(p) == \E i \in DOMAIN posted : posted[i] = p
Scheduling(p) == \E t \in Clients : call[t].op = "schedule" /\ p \in call[t].scheduled
Importing(p) ==
  \/ call[Executor].op = "import" /\ call[Executor].id = p
  \/ /\ call[Executor].op \in Converting
     /\ call[Executor].id = p
     /\ revision[p] \in {NoRevision, call[Executor].revision}

\* An import is planned in one of three ways.
LEMMA PlannedParts ==
  \A p : Planned(p) <=> InQueue(p) \/ Scheduling(p) \/ Importing(p)
BY DEF Planned, InQueue, Scheduling, Importing

\* A step that keeps queue, schedules and the executor's import keeps plans.
LEMMA KeepsPlan ==
  ASSUME NEW p \in Problems, Planned(p),
         InQueue(p) => InQueue(p)',
         Scheduling(p) => Scheduling(p)' \/ InQueue(p)',
         Importing(p) => Importing(p)'
  PROVE  Planned(p)'
<1>1. InQueue(p)' \/ Scheduling(p)' \/ Importing(p)'
  BY PlannedParts
<1> QED BY <1>1 DEF Planned, InQueue, Scheduling, Importing

\* A queue that grows has what it had.
LEMMA QueueGrows ==
  ASSUME TypeOK, NEW p \in Problems, posted' = Append(posted, p)
  PROVE  /\ InQueue(p)'
         /\ \A q : InQueue(q) => InQueue(q)'
<1>0. posted \in Seq(Problems)
  BY DEF TypeOK
<1>1. /\ DOMAIN posted' = 1..(Len(posted) + 1)
      /\ posted'[Len(posted) + 1] = p
      /\ \A i \in DOMAIN posted : posted'[i] = posted[i]
  BY <1>0
<1>2. Len(posted) \in Nat /\ DOMAIN posted = 1..Len(posted)
  BY <1>0
<1> QED BY <1>1, <1>2 DEF InQueue

\* The process dies, or is down.
LEMMA DownPlan ==
  ASSUME ~up', FlagsHaveDirs'
  PROVE  PlanInv'
BY DEF PlanInv, PendingIsPlanned

\* Steps that neither mark a problem nor touch the plans.
LEMMA QuietPlan ==
  ASSUME PlanInv, UNCHANGED <<dirs, posted, call, revision, up>>,
         \A p \in Problems :
           /\ flags'[p] # {} => flags[p] # {} \/ p \in dirs
           /\ has_flag(p, PENDING_IMPORT)' => has_flag(p, PENDING_IMPORT)
  PROVE  PlanInv'
<1>1. \A p \in Problems : Planned(p) => Planned(p)'
  BY DEF Planned
<1> QED BY <1>1 DEF PlanInv, FlagsHaveDirs, PendingIsPlanned

\* A thread that plans nothing goes on to a call that plans nothing.
LEMMA UnplannedCall ==
  ASSUME TypeOK, PlanInv, NEW t \in Threads, UNCHANGED <<dirs, posted, up, flags>>,
         \A u \in Threads : u # t => call'[u] = call[u],
         \A p \in Problems : revision'[p] = revision[p],
         t = Executor => call[t].op \notin {"import"} \cup Converting,
         t # Executor /\ call[t].op = "schedule" => call[t].scheduled = {}
  PROVE  PlanInv'
<1>1. ASSUME NEW p \in Problems, Planned(p) PROVE Planned(p)'
  <2>1. InQueue(p) => InQueue(p)'
    BY DEF InQueue
  <2>2. Scheduling(p) => Scheduling(p)'
    BY ThreadsAssumption DEF Scheduling
  <2>3. Importing(p) => Importing(p)'
    BY ThreadsAssumption DEF Importing
  <2> QED BY <1>1, <2>1, <2>2, <2>3, KeepsPlan
<1> QED BY <1>1 DEF PlanInv, FlagsHaveDirs, PendingIsPlanned, has_flag

\* Every step of a client call keeps pending imports planned.
LEMMA ClientStepPlan ==
  ASSUME TypeOK, PlanInv, NEW t \in Clients, ClientStep(t)
  PROVE  PlanInv'
<1>0. t \in Threads /\ t # Executor
  BY ThreadsAssumption
<1>1. CASE UploadRefused(t) \/ ScheduleReturn(t)
  <2>1. /\ UNCHANGED <<dirs, posted, up, flags, revision>>
        /\ \A u \in Threads : u # t => call'[u] = call[u]
        /\ call[t].op = "schedule" => call[t].scheduled = {}
    BY <1>1 DEF UploadRefused, ScheduleReturn, Return, TypeOK
  <2> QED BY <1>0, <2>1, UnplannedCall
<1>2. CASE UploadStore(t)
  <2>1. PICK p \in Problems : p = call[t].id /\ call[t].op = "upload"
    BY <1>0, <1>2, CallFields DEF UploadStore
  <2>2. /\ posted' = Append(posted, p) /\ dirs' = dirs \cup {p} /\ up' = up
        /\ \A u \in Threads : u # t => call'[u] = call[u]
        /\ \A q \in Problems : q # p =>
             revision'[q] = revision[q] /\ flags'[q] = flags[q]
    BY <1>2, <2>1 DEF UploadStore, Return, TypeOK
  <2>3. Planned(p)'
    <3>1. InQueue(p)'
      BY <2>1, <2>2, QueueGrows
    <3> QED BY <3>1 DEF Planned, InQueue
  <2>4. ASSUME NEW q \in Problems, q # p, Planned(q) PROVE Planned(q)'
    <3>1. InQueue(q) => InQueue(q)'
      BY <2>1, <2>2, QueueGrows
    <3>2. Scheduling(q) => Scheduling(q)'
      BY <1>0, <2>1, <2>2 DEF Scheduling
    <3>3. Importing(q) => Importing(q)'
      BY <1>0, <2>2, <2>4 DEF Importing
    <3> QED BY <2>4, <3>1, <3>2, <3>3, KeepsPlan
  <2> QED BY <2>1, <2>2, <2>3, <2>4
          DEF PlanInv, FlagsHaveDirs, PendingIsPlanned, has_flag
<1>3. CASE UploadThrow(t)
  <2>1. PICK p \in Problems :
          p = call[t].id /\ call[t].op = "upload" /\ call[t].data \in Contents
    BY <1>0, <1>3, CallFields DEF UploadThrow
  <2>2. PICK stage \in FailedStages(p, call[t].data) : LeaveStage(p, stage)
    BY <1>3, <2>1 DEF UploadThrow
  <2>3. /\ UNCHANGED <<posted, up, flags>> /\ dirs' = dirs \cup {p}
        /\ \A u \in Threads : u # t => call'[u] = call[u]
        /\ revision'[p] = NoRevision
        /\ \A q \in Problems : q # p => revision'[q] = revision[q]
    BY <1>3, <2>1, <2>2 DEF UploadThrow, LeaveStage, FailedStages, Return, TypeOK
  <2>4. ASSUME NEW q \in Problems, Planned(q) PROVE Planned(q)'
    <3>1. InQueue(q) => InQueue(q)'
      BY <2>3 DEF InQueue
    <3>2. Scheduling(q) => Scheduling(q)'
      BY <1>0, <2>1, <2>3 DEF Scheduling
    <3>3. Importing(q) => Importing(q)'
      BY <1>0, <2>3 DEF Importing
    <3> QED BY <2>4, <3>1, <3>2, <3>3, KeepsPlan
  <2> QED BY <2>1, <2>3, <2>4
          DEF PlanInv, FlagsHaveDirs, PendingIsPlanned, has_flag
<1>4. ASSUME NEW p \in Problems, SchedulePrepare(t, p) PROVE PlanInv'
  <2>1. call[t] \in ScheduleCalls /\ call[t].op = "schedule"
    BY <1>0, <1>4, CallFields DEF SchedulePrepare
  <2>2. /\ UNCHANGED <<posted, up, revision, dirs>>
        /\ \A u \in Threads : u # t => call'[u] = call[u]
        /\ call'[t].op = "schedule"
        /\ call[t].scheduled \subseteq call'[t].scheduled
        /\ p \in dirs => p \in call'[t].scheduled
        /\ p \notin dirs => flags' = flags
        /\ \A q \in Problems : q # p => flags'[q] = flags[q]
    BY <1>0, <1>4, <2>1 DEF SchedulePrepare, TypeOK, ScheduleCalls
  <2>3. ASSUME NEW q \in Problems, Planned(q) PROVE Planned(q)'
    <3>1. InQueue(q) => InQueue(q)'
      BY <2>2 DEF InQueue
    <3>2. Scheduling(q) => Scheduling(q)'
      BY <1>0, <2>1, <2>2 DEF Scheduling
    <3>3. Importing(q) => Importing(q)'
      BY <1>0, <2>2 DEF Importing
    <3> QED BY <2>3, <3>1, <3>2, <3>3, KeepsPlan
  <2>4. p \in dirs => Planned(p)'
    BY <2>2 DEF Planned
  <2> QED BY <2>2, <2>3, <2>4
          DEF PlanInv, FlagsHaveDirs, PendingIsPlanned, has_flag
<1>5. ASSUME NEW p \in Problems, SchedulePost(t, p) PROVE PlanInv'
  <2>1. call[t] \in ScheduleCalls /\ call[t].op = "schedule"
    BY <1>0, <1>5, CallFields DEF SchedulePost
  <2>2. /\ posted' = Append(posted, p) /\ UNCHANGED <<up, revision, dirs, flags>>
        /\ \A u \in Threads : u # t => call'[u] = call[u]
        /\ call'[t].op = "schedule"
        /\ call[t].scheduled \subseteq call'[t].scheduled \cup {p}
    BY <1>0, <1>5, <2>1 DEF SchedulePost, TypeOK, ScheduleCalls
  <2>3. ASSUME NEW q \in Problems, Planned(q) PROVE Planned(q)'
    <3>1. (InQueue(q) => InQueue(q)') /\ InQueue(p)'
      BY <2>2, QueueGrows
    <3>2. Scheduling(q) => Scheduling(q)' \/ InQueue(q)'
      BY <1>0, <2>1, <2>2, <3>1 DEF Scheduling
    <3>3. Importing(q) => Importing(q)'
      BY <1>0, <2>2 DEF Importing
    <3> QED BY <2>3, <3>1, <3>2, <3>3, KeepsPlan
  <2> QED BY <2>2, <2>3 DEF PlanInv, FlagsHaveDirs, PendingIsPlanned, has_flag
<1> QED BY <1>1, <1>2, <1>3, <1>4, <1>5 DEF ClientStep

\* An import goes on: while the executor has a problem in hand, another thread
\* does not change its revision, and when it lets it go, the plan is fulfilled
\* or overtaken by an upload that has planned another import.
LEMMA ImportStepPlan ==
  ASSUME TypeOK, StorageInv, ImportedHasDir, PlanInv,
         NEW t \in Threads, ImportStep(t)
  PROVE  PlanInv'
<1> USE DEF has_flag
\* Calls of other threads stay, and that of t stays no schedule.
<1> DEFINE Moves == /\ UNCHANGED <<dirs, posted, up>>
                    /\ call[t].op # "schedule"
                    /\ \A u \in Threads : u # t => call'[u] = call[u]
<1>0. ASSUME Moves, NEW p \in Problems
      PROVE  /\ InQueue(p) => InQueue(p)'
             /\ Scheduling(p) => Scheduling(p)'
  BY <1>0 DEF InQueue, Scheduling
<1>e. ASSUME ~up', UNCHANGED <<flags, dirs>> PROVE PlanInv'
  BY <1>e, DownPlan DEF PlanInv, FlagsHaveDirs
<1>k. ASSUME Moves, \A p \in Problems : flags'[p] = flags[p],
             \A p \in Problems :
               has_flag(p, PENDING_IMPORT) /\ Importing(p) => Planned(p)'
      PROVE  PlanInv'
  <2>1. ASSUME NEW p \in Problems, up, has_flag(p, PENDING_IMPORT) PROVE Planned(p)'
    <3>1. InQueue(p) \/ Scheduling(p) \/ Importing(p)
      BY <2>1, PlannedParts DEF PlanInv, PendingIsPlanned
    <3>2. InQueue(p)' \/ Scheduling(p)' => Planned(p)'
      BY DEF Planned, InQueue, Scheduling
    <3> QED BY <1>k, <1>0, <2>1, <3>1, <3>2
  <2> QED BY <1>k, <2>1 DEF PlanInv, FlagsHaveDirs, PendingIsPlanned
<1>1. CASE ImportMissing(t)
  <2>1. Moves /\ UNCHANGED <<flags, revision>> /\ call[t].id \notin dirs
        /\ call[t].op = "import"
    BY <1>1 DEF ImportMissing, StartsImport, Return, TypeOK
  <2>2. ASSUME NEW p \in Problems, has_flag(p, PENDING_IMPORT), Importing(p)
        PROVE  Planned(p)'
    <3>1. p # call[t].id
      BY <2>1, <2>2 DEF PlanInv, FlagsHaveDirs
    <3>2. t # Executor
      BY <2>1, <2>2, <3>1 DEF Importing, Converting
    <3> QED BY <2>1, <2>2, <3>2 DEF Importing, Planned
  <2> QED BY <1>k, <2>1, <2>2
<1>2. CASE ImportBegin(t)
  <2>1. /\ Moves /\ UNCHANGED flags /\ call[t].op = "import"
        /\ call'[t].op = "convert" /\ call'[t].id = call[t].id
        /\ call'[t].revision = revision'[call[t].id]
        /\ revision' = regenerated(call[t].id)
        /\ m_import_lock = NoThread
    BY <1>2 DEF ImportBegin, StartsImport, TypeOK
  <2>2. call[Executor].op \notin Converting
    BY <2>1, ThreadsAssumption DEF StorageInv, ImportLockHeld
  <2>3. ASSUME NEW p \in Problems, Importing(p) PROVE Planned(p)'
    <3>1. call[Executor].op = "import" /\ call[Executor].id = p
      BY <2>2, <2>3 DEF Importing
    <3>2. CASE t = Executor
      BY <2>1, <3>1, <3>2 DEF Planned, Converting
    <3>3. CASE t # Executor
      BY <2>1, <3>1, <3>3 DEF Planned
    <3> QED BY <3>2, <3>3
  <2> QED BY <1>k, <2>1, <2>3
<1>3. CASE ImportThrow(t)
  <2>1. /\ UNCHANGED <<flags, dirs>> /\ call[t].op = "import"
        /\ m_import_lock = NoThread /\ Escapes(t)
    BY <1>3 DEF ImportThrow, StartsImport
  <2>2. CASE t = Executor
    BY <1>e, <2>1, <2>2 DEF Escapes, Down
  <2>3. CASE t # Executor
    <3>1. Moves
      BY <2>1, <2>3 DEF Escapes, Return, TypeOK
    <3>2. call[Executor].op \notin Converting
      BY <2>1, ThreadsAssumption DEF StorageInv, ImportLockHeld
    <3>3. ASSUME NEW p \in Problems, Importing(p) PROVE Planned(p)'
      BY <2>3, <3>1, <3>2, <3>3 DEF Importing, Planned
    <3> QED BY <1>k, <2>1, <3>1, <3>3
  <2> QED BY <2>2, <2>3
<1>4. CASE ConvertReject(t) \/ ConvertStart(t) \/ \E ok \in BOOLEAN : ConvertEnd(t, ok)
  <2>1. call[t].op \in {"convert", "build"}
    BY <1>4 DEF ConvertReject, ConvertStart, ConvertEnd
  <2>2. call[t] \in ConvertCalls
    BY <2>1, CallFields
  <2>3. /\ Moves /\ UNCHANGED <<flags, revision>>
        /\ call[t].op \in Converting /\ call'[t].op \in Converting
        /\ call'[t].id = call[t].id /\ call'[t].revision = call[t].revision
    BY <1>4, <2>1, <2>2 DEF ConvertReject, ConvertStart, ConvertEnd, TypeOK,
       ConvertCalls, Converting
  <2>4. ASSUME NEW p \in Problems, Importing(p) PROVE Planned(p)'
    <3>1. CASE t = Executor
      BY <2>3, <2>4, <3>1 DEF Importing, Planned, Converting
    <3>2. CASE t # Executor
      BY <2>3, <2>4, <3>2 DEF Importing, Planned
    <3> QED BY <3>1, <3>2
  <2> QED BY <1>k, <2>3, <2>4
<1>5. CASE ImportChanged(t)
  <2>1. /\ Moves /\ UNCHANGED <<flags, revision>> /\ call[t].op = "finish"
        /\ revision[call[t].id] \notin {NoRevision, call[t].revision}
    BY <1>5 DEF ImportChanged, Return, TypeOK
  <2>2. ASSUME NEW p \in Problems, Importing(p) PROVE Planned(p)'
    <3>1. t # Executor
      BY <2>1, <2>2 DEF Importing
    <3> QED BY <2>1, <2>2, <3>1 DEF Importing, Planned
  <2> QED BY <1>k, <2>1, <2>2
<1>6. CASE ImportUnreadable(t)
  <2>1. /\ UNCHANGED <<flags, dirs, revision>> /\ call[t].op = "finish" /\ Escapes(t)
    BY <1>6 DEF ImportUnreadable
  <2>2. CASE t = Executor
    BY <1>e, <2>1, <2>2 DEF Escapes, Down
  <2>3. CASE t # Executor
    <3>1. Moves
      BY <2>1, <2>3 DEF Escapes, Return, TypeOK
    <3>2. ASSUME NEW p \in Problems, Importing(p) PROVE Planned(p)'
      BY <2>1, <2>3, <3>1, <3>2 DEF Importing, Planned
    <3> QED BY <1>k, <2>1, <3>1, <3>2
  <2> QED BY <2>2, <2>3
<1>7. CASE ImportFinish(t)
  <2>1. /\ Moves /\ UNCHANGED revision /\ call[t].op = "finish"
        /\ call[t].op \in Converting
    BY <1>7 DEF ImportFinish, WriteResult, Return, TypeOK, Converting
  <2>2. PICK p \in Problems :
          p = call[t].id /\ p \in dirs /\ flags[p] \in SUBSET Flags
    BY <2>1, CallFields DEF TypeOK, ImportedHasDir
  <2>4. /\ PENDING_IMPORT \notin flags'[p]
        /\ \A q \in Problems : q # p => flags'[q] = flags[q]
    BY <1>7, <2>2 DEF ImportFinish, TypeOK
  <2>5. ASSUME NEW q \in Problems, q # p, Planned(q) PROVE Planned(q)'
    <3>1. Importing(q) => Importing(q)'
      <4>1. CASE t = Executor
        BY <2>1, <2>2, <2>5, <4>1 DEF Importing
      <4>2. CASE t # Executor
        BY <2>1, <4>2 DEF Importing
      <4> QED BY <4>1, <4>2
    <3> QED BY <1>0, <2>1, <2>5, <3>1, KeepsPlan
  <2>6. FlagsHaveDirs'
    BY <2>1, <2>2, <2>4 DEF PlanInv, FlagsHaveDirs
  <2> QED BY <2>1, <2>4, <2>5, <2>6 DEF PlanInv, PendingIsPlanned
<1> QED BY <1>1, <1>2, <1>3, <1>4, <1>5, <1>6, <1>7 DEF ImportStep

\* Directories stay, and only ImportBegin starts to convert.
LEMMA DirsStep ==
  ASSUME TypeOK, ImportedHasDir, [Next]_vars
  PROVE  ImportedHasDir'
<1> USE DEF Converting
<1>e. ASSUME UNCHANGED dirs, call' = [t \in Threads |-> Idle]
      PROVE  ImportedHasDir'
  BY <1>e DEF ImportedHasDir, Idle
<1>k. ASSUME dirs \subseteq dirs', NEW t \in Threads,
             \A u \in Threads : u # t => call'[u] = call[u],
             call'[t].op \in Converting => call'[t].id \in dirs
      PROVE  ImportedHasDir'
  BY <1>k DEF ImportedHasDir
<1>1. ASSUME NEW t \in Clients, ClientCall(t) PROVE ImportedHasDir'
  <2>1. /\ UNCHANGED dirs /\ call'[t].op \notin Converting /\ t \in Threads
        /\ \A u \in Threads : u # t => call'[u] = call[u]
    BY <1>1 DEF ClientCall, Upload, Schedule, Import, TypeOK, Threads
  <2> QED BY <2>1, <1>k
<1>2. ASSUME NEW p \in Problems, FlagCall(p) PROVE ImportedHasDir'
  <2>1. UNCHANGED <<dirs, call>>
    BY <1>2 DEF FlagCall, set_flag, set_flags, unset_flag, unset_flags,
       clear_flags, EditFlags
  <2> QED BY <2>1 DEF ImportedHasDir
<1>3. ASSUME NEW t \in Clients, ClientStep(t) PROVE ImportedHasDir'
  <2>1. t \in Threads
    BY DEF Threads
  <2>2. CASE UploadRefused(t) \/ UploadStore(t) \/ UploadThrow(t) \/ ScheduleReturn(t)
    <3>1. /\ dirs \subseteq dirs' /\ call'[t] = Idle
          /\ \A u \in Threads : u # t => call'[u] = call[u]
      BY <2>1, <2>2 DEF UploadRefused, UploadStore, UploadThrow, LeaveStage,
         ScheduleReturn, Return, TypeOK
    <3> QED BY <2>1, <3>1, <1>k DEF Idle
  <2>3. ASSUME NEW p \in Problems, SchedulePrepare(t, p) \/ SchedulePost(t, p)
        PROVE  ImportedHasDir'
    <3>1. call[t] \in ScheduleCalls
      BY <2>1, <2>3, CallFields DEF SchedulePrepare, SchedulePost
    <3>2. /\ UNCHANGED dirs /\ call'[t].op \notin Converting
          /\ \A u \in Threads : u # t => call'[u] = call[u]
      BY <2>1, <2>3, <3>1 DEF SchedulePrepare, SchedulePost, ScheduleCalls, TypeOK
    <3> QED BY <2>1, <3>2, <1>k
  <2> QED BY <1>3, <2>2, <2>3 DEF ClientStep
<1>4. ASSUME NEW t \in Threads, ImportStep(t) PROVE ImportedHasDir'
  <2>0. UNCHANGED dirs
    BY <1>4 DEF ImportStep, ImportMissing, ImportBegin, ImportThrow,
       ConvertReject, ConvertStart, ConvertEnd, ImportChanged,
       ImportUnreadable, ImportFinish
  <2>1. CASE ImportMissing(t) \/ ImportChanged(t) \/ ImportFinish(t)
    <3>1. call' = [call EXCEPT ![t] = Idle]
      BY <2>1 DEF ImportMissing, ImportChanged, ImportFinish, Return
    <3>2. call'[t] = Idle /\ \A u \in Threads : u # t => call'[u] = call[u]
      BY <3>1 DEF TypeOK
    <3> QED BY <2>0, <3>2, <1>k DEF Idle
  <2>2. CASE ImportThrow(t) \/ ImportUnreadable(t)
    <3>1. CASE t = Executor
      BY <2>0, <2>2, <3>1, <1>e DEF ImportThrow, ImportUnreadable, Escapes, Down
    <3>2. CASE t # Executor
      <4>1. call'[t] = Idle /\ \A u \in Threads : u # t => call'[u] = call[u]
        BY <2>2, <3>2 DEF ImportThrow, ImportUnreadable, Escapes, Return, TypeOK
      <4> QED BY <2>0, <4>1, <1>k DEF Idle
    <3> QED BY <3>1, <3>2
  <2>3. CASE ImportBegin(t)
    <3>1. /\ \A u \in Threads : u # t => call'[u] = call[u]
          /\ call'[t].id = call[t].id /\ call[t].id \in dirs
      BY <2>3 DEF ImportBegin, TypeOK
    <3> QED BY <2>0, <3>1, <1>k
  <2>4. CASE ConvertReject(t) \/ ConvertStart(t) \/ \E ok \in BOOLEAN : ConvertEnd(t, ok)
    <3>1. call[t] \in ConvertCalls
      BY <2>4, CallFields DEF ConvertReject, ConvertStart, ConvertEnd
    <3>2. /\ \A u \in Threads : u # t => call'[u] = call[u]
          /\ call'[t].id = call[t].id /\ call[t].op \in Converting
      BY <2>4, <3>1 DEF ConvertReject, ConvertStart, ConvertEnd, ConvertCalls, TypeOK
    <3> QED BY <2>0, <3>2, <1>k DEF ImportedHasDir
  <2> QED BY <1>4, <2>1, <2>2, <2>3, <2>4 DEF ImportStep
<1>5. CASE RunPosted
  <2>1. /\ UNCHANGED dirs /\ call'[Executor].op \notin Converting
        /\ Executor \in Threads
        /\ \A u \in Threads : u # Executor => call'[u] = call[u]
    BY <1>5 DEF RunPosted, TypeOK, Threads
  <2> QED BY <2>1, <1>k
<1>6. CASE Restart \/ UNCHANGED vars
  BY <1>6 DEF Restart, vars, ImportedHasDir
<1>7. ASSUME NEW c \in Pollers, status_all_if_changed(c) PROVE ImportedHasDir'
  BY <1>7 DEF status_all_if_changed, ImportedHasDir
<1>8. CASE \/ \E t \in Clients : UploadCrash(t)
           \/ \E t \in Threads : FinishCrash(t)
           \/ Crash
  <2>1. call' = [t \in Threads |-> Idle]
    BY <1>8 DEF UploadCrash, FinishCrash, Crash, Down
  <2> QED BY <2>1 DEF ImportedHasDir, Idle
<1> QED BY <1>1, <1>2, <1>3, <1>4, <1>5, <1>6, <1>7, <1>8 DEF Next

\* Nor do directories go: a step keeps them, and flags only of those there are.
LEMMA CrashPlan ==
  ASSUME TypeOK, PlanInv, ImportedHasDir,
         \/ \E t \in Clients : UploadCrash(t)
         \/ \E t \in Threads : FinishCrash(t)
         \/ Crash
  PROVE  PlanInv'
<1>0. ~up'
  BY DEF UploadCrash, FinishCrash, Crash, Down
<1>1. CASE Crash \/ \E t \in Clients : UploadCrash(t)
  <2>1. UNCHANGED flags /\ dirs \subseteq dirs'
    BY <1>1 DEF Crash, UploadCrash, LeaveStage
  <2> QED BY <1>0, <2>1, DownPlan DEF PlanInv, FlagsHaveDirs
<1>2. ASSUME NEW t \in Threads, FinishCrash(t) PROVE PlanInv'
  <2>1. PICK p \in Problems : p = call[t].id /\ p \in dirs
    BY <1>2, CallFields DEF FinishCrash, WriteResult, ImportedHasDir, Converting
  <2>2. UNCHANGED dirs /\ \A q \in Problems : q # p => flags'[q] = flags[q]
    BY <1>2, <2>1 DEF FinishCrash, TypeOK
  <2> QED BY <1>0, <2>1, <2>2, DownPlan DEF PlanInv, FlagsHaveDirs
<1> QED BY <1>1, <1>2

\* Every step plans what it marks.
LEMMA PlanStep ==
  ASSUME NoMarking, TypeOK, StorageInv, ImportedHasDir, PlanInv, [Next]_vars
  PROVE  PlanInv'
<1> USE DEF has_flag
<1>1. ASSUME NEW t \in Clients, ClientCall(t) PROVE PlanInv'
  <2>1. /\ UNCHANGED <<dirs, posted, up, flags, revision>> /\ t \in Threads
        /\ t # Executor /\ call[t].op # "schedule"
        /\ \A u \in Threads : u # t => call'[u] = call[u]
    BY <1>1, ThreadsAssumption
       DEF ClientCall, Upload, Schedule, Import, Idle, Threads, TypeOK
  <2> QED BY <2>1, UnplannedCall
<1>2. ASSUME NEW p \in Problems, FlagCall(p) PROVE PlanInv'
  <2>1. UNCHANGED <<dirs, posted, call, revision, up>> /\ p \in dirs
    BY <1>2 DEF FlagCall, set_flag, set_flags, unset_flag, unset_flags,
       clear_flags, EditFlags
  <2>2. PICK new : flags' = [flags EXCEPT ![p] = new]
                   /\ (PENDING_IMPORT \in new => PENDING_IMPORT \in flags[p])
    BY <1>2, FlagsAssumption DEF NoMarking, FlagCall, set_flag, set_flags,
       unset_flag, unset_flags, clear_flags, EditFlags
  <2>3. \A q \in Problems :
          /\ flags'[q] # {} => flags[q] # {} \/ q \in dirs
          /\ PENDING_IMPORT \in flags'[q] => PENDING_IMPORT \in flags[q]
    BY <2>1, <2>2 DEF TypeOK
  <2> QED BY <2>1, <2>3, QuietPlan
<1>3. CASE RunPosted
  <2>1. PICK p \in Problems : p = Head(posted)
    BY <1>3 DEF RunPosted, TypeOK
  <2>2. /\ posted \in Seq(Problems) /\ posted # <<>> /\ posted' = Tail(posted)
        /\ call'[Executor].op = "import" /\ call'[Executor].id = p
        /\ call[Executor].op = "idle"
        /\ \A u \in Threads : u # Executor => call'[u] = call[u]
        /\ UNCHANGED <<dirs, up, flags, revision>>
    BY <1>3, <2>1 DEF RunPosted, TypeOK, Threads, Idle
  <2>3. ASSUME NEW q \in Problems, Planned(q) PROVE Planned(q)'
    <3>1. CASE q = p
      BY <2>2, <3>1 DEF Planned
    <3>2. CASE q # p
      <4>1. InQueue(q) => InQueue(q)'
        <5>1. ASSUME NEW i \in DOMAIN posted, posted[i] = q PROVE InQueue(q)'
          <6>1. i # 1 /\ i \in 1..Len(posted) /\ Len(posted) \in Nat
            BY <2>1, <2>2, <3>2, <5>1
          <6>2. i - 1 \in DOMAIN posted' /\ posted'[i - 1] = q
            BY <2>2, <5>1, <6>1
          <6> QED BY <6>2 DEF InQueue
        <5> QED BY <5>1 DEF InQueue
      <4>2. Scheduling(q) => Scheduling(q)'
        BY <2>2, ThreadsAssumption DEF Scheduling, Threads
      <4>3. Importing(q) => Importing(q)'
        BY <2>2 DEF Importing, Converting
      <4> QED BY <2>3, <4>1, <4>2, <4>3, KeepsPlan
    <3> QED BY <3>1, <3>2
  <2> QED BY <2>2, <2>3 DEF PlanInv, FlagsHaveDirs, PendingIsPlanned
<1>4. CASE Restart
  <2>1. UNCHANGED <<dirs, flags>>
    BY <1>4 DEF Restart
  <2>2. PICK order \in [1..Cardinality(with_flag(PENDING_IMPORT))
                           -> with_flag(PENDING_IMPORT)] :
          /\ posted' = order
          /\ \A p \in with_flag(PENDING_IMPORT) :
               \E i \in DOMAIN order : order[i] = p
    BY <1>4 DEF Restart
  <2>3. ASSUME NEW p \in Problems, PENDING_IMPORT \in flags[p] PROVE Planned(p)'
    <3>1. p \in with_flag(PENDING_IMPORT)
      BY <2>3 DEF with_flag, PlanInv, FlagsHaveDirs
    <3> QED BY <2>2, <3>1 DEF Planned
  <2> QED BY <2>1, <2>3 DEF PlanInv, FlagsHaveDirs, PendingIsPlanned
<1>5. ASSUME NEW c \in Pollers, status_all_if_changed(c) PROVE PlanInv'
  BY <1>5, QuietPlan DEF status_all_if_changed
<1>6. CASE UNCHANGED vars
  BY <1>6, QuietPlan DEF vars
<1> QED BY <1>1, <1>2, <1>3, <1>4, <1>5, <1>6, ClientStepPlan, ImportStepPlan,
           CrashPlan DEF Next

\* When nobody sets PENDING_IMPORT by hand, every problem that shows it has an
\* import posted, about to be posted, or running: upload() and schedule_import()
\* post what they mark, an overtaken import leaves the flag to the upload that
\* overtook it, and a restart posts them all again, whatever fails or is killed.
THEOREM PendingImportsArePlanned ==
  ASSUME NoMarking
  PROVE  Spec => []PendingIsPlanned
<1>1. Init => ImportedHasDir /\ PlanInv
  BY DEF Init, ImportedHasDir, Idle, Converting, PlanInv, FlagsHaveDirs,
     PendingIsPlanned, has_flag
<1>2. PlanInv => PendingIsPlanned
  BY DEF PlanInv
<1> QED BY <1>1, <1>2, DirsStep, PlanStep, TypeCorrect, StorageAgrees, PTL DEF Spec

-----------------------------------------------------------------------------
(* Locked problems *)

\* Steps that leave the files of problems alone.
LEMMA LockedDataStep ==
  ASSUME TypeOK, [Next]_vars
  PROVE  \A p \in Problems : is_locked(p) => data'[p] = data[p]
<1>k. (\E p \in Problems : data' = [data EXCEPT ![p] = data'[p]] /\ ~is_locked(p))
        => \A p \in Problems : is_locked(p) => data'[p] = data[p]
  BY DEF TypeOK
<1>1. ASSUME NEW t \in Clients,
             UploadStore(t) \/ UploadThrow(t) \/ UploadCrash(t)
      PROVE  \A p \in Problems : is_locked(p) => data'[p] = data[p]
  <2>1. PICK p \in Problems : p = call[t].id
    BY <1>1, CallFields DEF UploadStore, UploadThrow, UploadCrash, Threads
  <2>2. ~is_locked(p)
    BY <1>1, <2>1 DEF UploadStore, UploadThrow, UploadCrash
  <2>3. \E d : data' = [data EXCEPT ![p] = d]
    BY <1>1, <2>1 DEF UploadStore, UploadThrow, UploadCrash, LeaveStage
  <2>4. data' = [data EXCEPT ![p] = data'[p]]
    BY <2>3 DEF TypeOK
  <2> QED BY <2>2, <2>4, <1>k
<1>2. ASSUME NEW t \in Clients, ClientCall(t) PROVE data' = data
  BY <1>2 DEF ClientCall, Upload, Schedule, Import, disk
<1>3. ASSUME NEW t \in Clients,
             UploadRefused(t) \/ ScheduleReturn(t)
               \/ \E p \in Problems : SchedulePrepare(t, p) \/ SchedulePost(t, p)
      PROVE  data' = data
  BY <1>3 DEF UploadRefused, ScheduleReturn, SchedulePrepare, SchedulePost, disk
<1>4. ASSUME NEW t \in Threads, ImportStep(t) \/ FinishCrash(t) PROVE data' = data
  BY <1>4 DEF ImportStep, ImportMissing, ImportBegin, ImportThrow, ConvertReject,
     ConvertStart, ConvertEnd, ImportChanged, ImportUnreadable, ImportFinish,
     FinishCrash, disk
<1>5. ASSUME NEW p \in Problems, FlagCall(p) PROVE data' = data
  BY <1>5 DEF FlagCall, set_flag, set_flags, unset_flag, unset_flags,
     clear_flags, EditFlags
<1>6. ASSUME NEW c \in Pollers, status_all_if_changed(c) PROVE data' = data
  BY <1>6 DEF status_all_if_changed, disk
<1>7. CASE RunPosted \/ Crash \/ Restart \/ UNCHANGED vars
  BY <1>7 DEF RunPosted, Crash, Restart, vars, disk
<1> QED BY <1>1, <1>2, <1>3, <1>4, <1>5, <1>6, <1>7 DEF Next, ClientStep

\* upload() replaces the data of no problem that is locked when it does, though
\* it may have been locked after the call has begun; nor does anything else.
\* (repository_impl.cpp:113, :121)
THEOREM LockedDataIsKept == Spec => LockedDataKept
<1>1. TypeOK /\ [Next]_vars
        => [\A p \in Problems : is_locked(p) => data'[p] = data[p]]_vars
  BY LockedDataStep
<1> QED BY <1>1, TypeCorrect, PTL DEF Spec, LockedDataKept

-----------------------------------------------------------------------------
(* The refinement, of uploads that neither fail nor are killed *)

\* A step that changes neither revisions, results nor PENDING_IMPORT stutters.
LEMMA QuietTracking ==
  ASSUME UNCHANGED <<revision, result>>,
         \A p \in Problems : has_flag(p, PENDING_IMPORT)' <=> has_flag(p, PENDING_IMPORT)
  PROVE  UNCHANGED Tracking!vars
BY DEF Tracking!vars

\* A problem that exists is marked pending, by a client's schedule or by hand.
LEMMA MarkTracking ==
  ASSUME TypeOK, UploadAtomic, NEW p \in dirs, UNCHANGED <<revision, result>>,
         has_flag(p, PENDING_IMPORT)',
         \A q \in Problems : q # p =>
           (has_flag(q, PENDING_IMPORT)' <=> has_flag(q, PENDING_IMPORT))
  PROVE  Tracking!Next
<1>1. p \in Problems
  BY DEF TypeOK
<1>2. revision[p] # NoRevision
  BY HashAssumption, AbsentAssumption DEF UploadAtomic
<1>3. {q \in Problems : has_flag(q, PENDING_IMPORT)}'
        = {q \in Problems : has_flag(q, PENDING_IMPORT)} \cup {p}
  BY <1>1
<1> QED BY <1>1, <1>2, <1>3 DEF Tracking!Next, Tracking!Request

\* Every step of the archive is one of ArchiveTracking, or a stutter.
LEMMA TrackingStep ==
  ASSUME ~MayFail, ~MayCrash, TypeOK, UploadInv, [Next]_vars
  PROVE  [Tracking!Next]_(Tracking!vars)
<1> USE DEF has_flag
<1>1. ASSUME NEW t \in Clients, ClientCall(t) PROVE UNCHANGED Tracking!vars
  BY <1>1, QuietTracking DEF ClientCall, Upload, Schedule, Import
<1>2. ASSUME NEW p \in Problems, FlagCall(p) PROVE [Tracking!Next]_(Tracking!vars)
  <2>1. UNCHANGED <<revision, result>> /\ p \in dirs
    BY <1>2 DEF FlagCall, set_flag, set_flags, unset_flag, unset_flags,
       clear_flags, EditFlags
  <2>2. PICK new : flags' = [flags EXCEPT ![p] = new]
                   /\ (PENDING_IMPORT \in flags[p] => PENDING_IMPORT \in new)
    BY <1>2 DEF FlagCall, set_flag, set_flags, unset_flag, unset_flags,
       clear_flags, EditFlags, IGNORE, PENDING_IMPORT
  <2>3. \A q \in Problems : q # p => flags'[q] = flags[q]
    BY <2>2 DEF TypeOK
  <2>4. flags'[p] = new
    BY <2>2 DEF TypeOK
  <2>5. CASE PENDING_IMPORT \in new
    BY <2>1, <2>3, <2>4, <2>5, MarkTracking DEF UploadInv
  <2>6. CASE PENDING_IMPORT \notin new
    <3>1. PENDING_IMPORT \notin flags[p] /\ PENDING_IMPORT \notin flags'[p]
      BY <2>2, <2>4, <2>6
    <3> QED BY <2>1, <2>3, <3>1, QuietTracking
  <2> QED BY <2>5, <2>6
<1>3. ASSUME NEW t \in Clients, ClientStep(t) PROVE [Tracking!Next]_(Tracking!vars)
  <2>0. t \in Threads
    BY DEF Threads
  <2>1. CASE UploadRefused(t) \/ ScheduleReturn(t)
    BY <2>1, QuietTracking DEF UploadRefused, ScheduleReturn
  <2>2. CASE UploadStore(t)
    <3>1. PICK p \in Problems, c \in Contents : p = call[t].id /\ c = call[t].data
      BY <2>0, <2>2, CallFields DEF UploadStore
    <3>2. /\ revision' = [revision EXCEPT ![p] = Hash[c]] /\ Hash[c] \in Revisions
          /\ result' = [result EXCEPT ![p] = NoResult]
          /\ flags' = [flags EXCEPT ![p] = @ \cup {PENDING_IMPORT}]
      BY <2>2, <3>1, HashAssumption DEF UploadStore
    <3>3. {q \in Problems : PENDING_IMPORT \in flags'[q]}
            = {q \in Problems : PENDING_IMPORT \in flags[q]} \cup {p}
      BY <3>2 DEF TypeOK
    <3> QED BY <3>1, <3>2, <3>3 DEF Tracking!Next, Tracking!Store
  <2>3. ~UploadThrow(t)
    BY DEF UploadThrow
  <2>4. ASSUME NEW p \in Problems, SchedulePrepare(t, p)
        PROVE  [Tracking!Next]_(Tracking!vars)
    <3>1. UNCHANGED <<revision, result>>
      BY <2>4 DEF SchedulePrepare
    <3>2. CASE p \in dirs
      <4>1. /\ PENDING_IMPORT \in flags'[p]
            /\ \A q \in Problems : q # p => flags'[q] = flags[q]
        BY <2>4, <3>2 DEF SchedulePrepare, TypeOK
      <4> QED BY <3>1, <3>2, <4>1, MarkTracking DEF UploadInv
    <3>3. CASE p \notin dirs
      BY <2>4, <3>1, <3>3, QuietTracking DEF SchedulePrepare
    <3> QED BY <3>2, <3>3
  <2>5. ASSUME NEW p \in Problems, SchedulePost(t, p) PROVE UNCHANGED Tracking!vars
    BY <2>5, QuietTracking DEF SchedulePost
  <2> QED BY <1>3, <2>1, <2>2, <2>3, <2>4, <2>5 DEF ClientStep
<1>4. ASSUME NEW t \in Threads, ImportStep(t) PROVE [Tracking!Next]_(Tracking!vars)
  <2>1. CASE ImportBegin(t) \/ ImportThrow(t)
    <3>1. UNCHANGED <<revision, result, flags>>
      BY <2>1, NothingToRegenerate DEF ImportBegin, ImportThrow, UploadInv
    <3> QED BY <3>1, QuietTracking
  <2>2. CASE ImportFinish(t)
    <3>1. PICK p \in Problems, ok \in BOOLEAN :
            p = call[t].id /\ ok = call[t].ok /\ call[t].revision \in Revisions
      BY <2>2, CallFields DEF ImportFinish, WriteResult, FinishCalls
    <3>2. /\ revision' = revision /\ revision[p] = call[t].revision
          /\ result' = [result EXCEPT ![p] = [revision |-> revision[p], ok |-> ok]]
      BY <2>2, <3>1 DEF ImportFinish, WriteResult
    <3>3. /\ PENDING_IMPORT \notin flags'[p]
          /\ \A q \in Problems : q # p => flags'[q] = flags[q]
      BY <2>2, <3>1 DEF ImportFinish, TypeOK
    <3>4. {q \in Problems : PENDING_IMPORT \in flags'[q]}
            = {q \in Problems : PENDING_IMPORT \in flags[q]} \ {p}
      BY <3>3
    <3>5. revision[p] # NoRevision
      BY <3>1, <3>2, AbsentAssumption
    <3> QED BY <3>1, <3>2, <3>4, <3>5 DEF Tracking!Next, Tracking!Complete
  <2>3. CASE \/ ImportMissing(t) \/ ConvertReject(t) \/ ConvertStart(t)
             \/ \E ok \in BOOLEAN : ConvertEnd(t, ok)
             \/ ImportChanged(t) \/ ImportUnreadable(t)
    BY <2>3, QuietTracking DEF ImportMissing, ConvertReject, ConvertStart,
       ConvertEnd, ImportChanged, ImportUnreadable
  <2> QED BY <1>4, <2>1, <2>2, <2>3 DEF ImportStep
<1>5. CASE RunPosted \/ Restart \/ UNCHANGED vars
  BY <1>5, QuietTracking DEF RunPosted, Restart, vars
<1>6. ASSUME NEW c \in Pollers, status_all_if_changed(c) PROVE UNCHANGED Tracking!vars
  BY <1>6, QuietTracking DEF status_all_if_changed
<1> QED BY <1>1, <1>2, <1>3, <1>4, <1>5, <1>6
        DEF Next, UploadCrash, FinishCrash, Crash

\* As long as uploads neither fail nor are killed, what clients see of uploads,
\* schedules and imports is what ArchiveTracking promises: an outcome is always
\* that of the stored revision, and an import clears only what it carried out.
\* (repository_impl.cpp:104, :485, :548)
THEOREM TracksImports ==
  ASSUME ~MayFail, ~MayCrash
  PROVE  Spec => ImplementsTracking
<1>1. Init => UploadInv /\ Tracking!Init
  BY DEF Init, UploadInv, UploadAtomic, ImportResultReadable, Tracking!Init, has_flag
<1> QED BY <1>1, UploadStep, TrackingStep, TypeCorrect, PTL
        DEF Spec, ImplementsTracking, Tracking!Spec

=============================================================================
