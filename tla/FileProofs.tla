------------------------------ MODULE FileProofs ------------------------------
(***************************************************************************)
(* Proofs about FileLock, FileGuard, Tempfile and UtilityTools.            *)
(*                                                                         *)
(* The threads of a process share one mutex, and the lock excludes, for    *)
(* any processes, threads and bounds.  However values are made, moved and  *)
(* removed, and processes killed, each file has one owner.  A task of the  *)
(* tools makes what it is asked for where it is asked for, and changes     *)
(* nothing else.                                                           *)
(***************************************************************************)
EXTENDS FileLock, OwnedFiles, UtilityTools, FiniteSetTheorems, SequenceTheorems, TLAPS

----------------------------------------------------------------------------
(* The file lock *)


(* Threads that have their mutex, and threads that count on the file.        *)
HasM == {"tryF", "tryLockF", "timedF", "held", "unlockM"}
CountsOnF == {"held", "tryM"}
NoHandle == {"none", "insert"}

LocksTyped ==
  /\ m_instances \in [Processes -> Mutexes \cup {NoMutex}]
  /\ created \in [Processes -> 0..MaxMutexes]
  /\ m_mutex \in [Threads -> Mutexes \cup {NoMutex}]
  /\ mlock \in [Mutexes -> Threads \cup {Nobody}]
  /\ DOMAIN pcLock = Threads
  /\ stolen \in BOOLEAN

OwnMutexes ==
  \A p \in Processes : m_instances[p] # NoMutex => m_instances[p][1] = p

HandlesPoint == \A t \in Threads : pcLock[t] \notin NoHandle => m_mutex[t] # NoMutex

MutexIsTheirs == \A t \in Threads : pcLock[t] \in HasM => mlock[m_mutex[t]] = t

FileIsTheirs ==
  \A t \in Threads : pcLock[t] \in CountsOnF => flock = ProcessOf[t] \/ stolen

LockInv ==
  /\ LocksTyped /\ OwnMutexes /\ OneMutexPerFile /\ HandlesPoint
  /\ MutexIsTheirs /\ FileIsTheirs

----------------------------------------------------------------------------

(* Whoever is past get() points at the one mutex of its process, which is    *)
(* not another process's.                                                    *)
LEMMA Pointing ==
  ASSUME LockInv, NEW t \in Threads, pcLock[t] \notin NoHandle
  PROVE  /\ m_mutex[t] = m_instances[ProcessOf[t]]
         /\ m_mutex[t] \in Mutexes
         /\ m_mutex[t][1] = ProcessOf[t]
  BY ProcessesAssumption
     DEF LockInv, LocksTyped, OwnMutexes, OneMutexPerFile, HandlesPoint

(* The first state has the invariant. *)
LEMMA LockInvInit == LockInit => LockInv
<1> SUFFICES ASSUME LockInit PROVE LockInv OBVIOUS
<1> USE DEF LockInit
<1>1. 0 \in 0..MaxMutexes BY LockBoundsAssumption
<1>2. LocksTyped BY <1>1 DEF LocksTyped
<1>3. OwnMutexes BY DEF OwnMutexes
<1>4. OneMutexPerFile BY DEF OneMutexPerFile
<1>5. HandlesPoint BY DEF HandlesPoint, NoHandle
<1>6. MutexIsTheirs BY DEF MutexIsTheirs, HasM
<1>7. FileIsTheirs BY DEF FileIsTheirs, CountsOnF
<1> QED BY <1>2, <1>3, <1>4, <1>5, <1>6, <1>7 DEF LockInv

(* A step of one thread that leaves the handles alone, and whose place,      *)
(* mutex and file go together, keeps the invariant.                          *)
LEMMA HandlesKept ==
  ASSUME LockInv, NEW t \in Threads, UNCHANGED factoryVars,
         pcLock[t] \notin NoHandle, stolen' \in BOOLEAN, stolen => stolen',
         NEW to, pcLock' = [pcLock EXCEPT ![t] = to], to \notin NoHandle,
         \/ UNCHANGED mlock
         \/ mlock[m_mutex[t]] \in {t, Nobody} /\ TakeM(t)
         \/ mlock[m_mutex[t]] = t /\ GiveM(t),
         to \in HasM => mlock'[m_mutex[t]] = t,
         \A u \in Threads \ {t} :
           pcLock[u] \in CountsOnF /\ ~stolen' /\ flock = ProcessOf[u]
             => flock' = ProcessOf[u],
         to \in CountsOnF => flock' = ProcessOf[t] \/ stolen'
  PROVE  LockInv'
<1>1. m_mutex[t] \in Mutexes BY Pointing
<1>2. LocksTyped'
  BY <1>1 DEF LockInv, LocksTyped, factoryVars, TakeM, GiveM
<1>3. OwnMutexes' /\ OneMutexPerFile'
  BY DEF LockInv, OwnMutexes, OneMutexPerFile, factoryVars
<1>4. HandlesPoint'
  BY Pointing, NoMutexAssumption DEF LockInv, LocksTyped, HandlesPoint, factoryVars
<1>5. MutexIsTheirs'
  <2> SUFFICES ASSUME NEW u \in Threads, u # t, pcLock[u] \in HasM
               PROVE  mlock'[m_mutex[u]] = u
    BY DEF LockInv, LocksTyped, MutexIsTheirs, factoryVars
  <2>1. mlock[m_mutex[u]] = u /\ u # Nobody
    BY ProcessesAssumption DEF LockInv, MutexIsTheirs
  <2>2. m_mutex[u] \in Mutexes BY Pointing DEF HasM, NoHandle
  <2> QED BY <1>1, <2>1, <2>2 DEF LockInv, LocksTyped, TakeM, GiveM
<1>6. FileIsTheirs'
  BY DEF LockInv, LocksTyped, FileIsTheirs
<1> QED BY <1>2, <1>3, <1>4, <1>5, <1>6 DEF LockInv

----------------------------------------------------------------------------
(* The steps of the factory *)

(* A handle found or made points at its process's mutex. *)
LEMMA GetKeeps ==
  ASSUME LockInv, NEW t \in Threads, Find(t) \/ Insert(t)
  PROVE  LockInv'
<1> DEFINE p == ProcessOf[t]
<1> USE DEF Find, Insert, Goto, lockVars
<1>0. p \in Processes BY ProcessesAssumption
<1>1. /\ m_mutex' = [m_mutex EXCEPT ![t] = m_instances'[p]]
      /\ pcLock[t] \in NoHandle
      /\ pcLock' = [pcLock EXCEPT ![t] = IF m_instances'[p] = NoMutex THEN "insert" ELSE "idle"]
      /\ \/ UNCHANGED <<m_instances, created>>
         \/ m_instances[p] = NoMutex /\ Create(p)
      /\ UNCHANGED lockVars
  <2>1. CASE Find(t) BY <2>1 DEF NoHandle
  <2>2. CASE Insert(t)
    <3>1. m_instances'[p] # NoMutex
      <4>1. CASE m_instances[p] = NoMutex /\ Create(p)
        <5>1. created'[p] \in 1..MaxMutexes
          BY <1>0, <4>1, LockBoundsAssumption DEF LockInv, LocksTyped, Create
        <5> QED BY <1>0, <4>1, <5>1, NoMutexAssumption
              DEF LockInv, LocksTyped, Create, Mutexes
      <4> QED BY <2>2, <4>1
    <3> QED BY <2>2, <3>1 DEF NoHandle
  <2> QED BY <2>1, <2>2
<1>2. /\ m_instances' \in [Processes -> Mutexes \cup {NoMutex}]
      /\ created' \in [Processes -> 0..MaxMutexes]
      /\ OwnMutexes'
  <2>1. CASE UNCHANGED <<m_instances, created>>
    BY <2>1 DEF LockInv, LocksTyped, OwnMutexes
  <2>2. CASE Create(p)
    <3>0. created[p] \in 0..MaxMutexes /\ created[p] < MaxMutexes
          /\ created' = [created EXCEPT ![p] = created[p] + 1]
      BY <1>0, <2>2 DEF LockInv, LocksTyped, Create
    <3>a. created'[p] = created[p] + 1 BY <1>0, <3>0 DEF LockInv, LocksTyped
    <3>1. created'[p] \in 1..MaxMutexes
      BY <3>0, <3>a, LockBoundsAssumption
    <3>b. created' = [created EXCEPT ![p] = created'[p]] BY <3>0, <3>a
    <3>2. <<p, created'[p]>> \in Mutexes BY <1>0, <3>1 DEF Mutexes
    <3>3. m_instances' = [m_instances EXCEPT ![p] = <<p, created'[p]>>]
      BY <2>2 DEF Create
    <3>4. 1..MaxMutexes \subseteq 0..MaxMutexes BY LockBoundsAssumption
    <3>5. created' \in [Processes -> 0..MaxMutexes]
      BY <3>1, <3>4, <3>b DEF LockInv, LocksTyped
    <3> QED BY <1>0, <3>2, <3>3, <3>5 DEF LockInv, LocksTyped, OwnMutexes
  <2> QED BY <1>1, <2>1, <2>2
<1>3. LocksTyped'
  BY <1>0, <1>1, <1>2 DEF LockInv, LocksTyped
<1>4. \A u \in Threads \ {t} : m_mutex'[u] = m_mutex[u] /\ pcLock'[u] = pcLock[u]
  BY <1>1 DEF LockInv, LocksTyped
<1>5. m_mutex'[t] = m_instances'[p]
  BY <1>1 DEF LockInv, LocksTyped
<1>6. pcLock'[t] = IF m_instances'[p] = NoMutex THEN "insert" ELSE "idle"
  BY <1>1 DEF LockInv, LocksTyped
<1>7. OneMutexPerFile'
  <2> SUFFICES ASSUME NEW u \in Threads, m_mutex'[u] # NoMutex, u # t
               PROVE  m_mutex'[u] = m_instances'[ProcessOf[u]]
    BY <1>5 DEF OneMutexPerFile
  <2>1. m_mutex[u] = m_instances[ProcessOf[u]] /\ m_mutex[u] # NoMutex
    BY <1>4 DEF LockInv, OneMutexPerFile
  <2>2. CASE UNCHANGED <<m_instances, created>> BY <1>4, <2>1, <2>2
  <2>3. CASE m_instances[p] = NoMutex /\ Create(p)
    <3>1. ProcessOf[u] # p /\ ProcessOf[u] \in Processes
      BY <2>1, <2>3, ProcessesAssumption
    <3> QED BY <1>4, <2>1, <2>3, <3>1 DEF Create, LockInv, LocksTyped
  <2> QED BY <1>1, <2>2, <2>3
<1>8. HandlesPoint'
  BY <1>4, <1>5, <1>6 DEF LockInv, HandlesPoint, NoHandle
<1>9. MutexIsTheirs'
  BY <1>1, <1>4, <1>6 DEF LockInv, MutexIsTheirs, HasM
<1>10. FileIsTheirs'
  BY <1>1, <1>4, <1>6 DEF LockInv, FileIsTheirs, CountsOnF
<1> QED BY <1>2, <1>3, <1>7, <1>8, <1>9, <1>10 DEF LockInv

(* A handle is let go of, and with the last one the mutex: no other thread   *)
(* has a handle of that mutex then, so none counts on it.                    *)
LEMMA ReleaseKeeps ==
  ASSUME LockInv, NEW t \in Threads, Erase(t) \/ Drop(t)
  PROVE  LockInv'
<1> DEFINE p == ProcessOf[t]
<1> USE DEF Erase, Drop, Goto, lockVars
<1>0. p \in Processes BY ProcessesAssumption
<1>1. /\ pcLock[t] \notin NoHandle
      /\ pcLock' = [pcLock EXCEPT ![t] = "none"]
      /\ m_mutex' = [m_mutex EXCEPT ![t] = NoMutex]
      /\ UNCHANGED <<created, mlock, stolen>>
  BY DEF NoHandle
<1>2. \/ UNCHANGED <<m_instances, flock>>
      \/ /\ Handles(m_mutex[t]) = {t} /\ CloseFile(p)
         /\ m_instances' = [m_instances EXCEPT ![p] = NoMutex]
  OBVIOUS
<1>3. LocksTyped' /\ OwnMutexes'
  <2>1. CASE UNCHANGED m_instances
    BY <1>1, <2>1 DEF LockInv, LocksTyped, OwnMutexes
  <2>2. CASE m_instances' = [m_instances EXCEPT ![p] = NoMutex]
    BY <1>0, <1>1, <2>2 DEF LockInv, LocksTyped, OwnMutexes
  <2> QED BY <1>2, <2>1, <2>2
<1>4. \A u \in Threads \ {t} : m_mutex'[u] = m_mutex[u] /\ pcLock'[u] = pcLock[u]
  BY <1>1 DEF LockInv, LocksTyped
<1>5. m_mutex'[t] = NoMutex /\ pcLock'[t] = "none"
  BY <1>1 DEF LockInv, LocksTyped
<1>6. ASSUME NEW u \in Threads \ {t}, m_mutex[u] # NoMutex, ProcessOf[u] = p
      PROVE  UNCHANGED <<m_instances, flock>>
  <2>1. m_mutex[u] = m_mutex[t]
    BY <1>1, <1>6, Pointing DEF LockInv, OneMutexPerFile
  <2> QED BY <1>2, <2>1 DEF Handles
<1>7. OneMutexPerFile'
  <2> SUFFICES ASSUME NEW u \in Threads \ {t}, m_mutex[u] # NoMutex
               PROVE  m_mutex[u] = m_instances'[ProcessOf[u]]
    BY <1>4, <1>5 DEF OneMutexPerFile
  <2>1. m_mutex[u] = m_instances[ProcessOf[u]] /\ ProcessOf[u] \in Processes
    BY ProcessesAssumption DEF LockInv, OneMutexPerFile
  <2>2. CASE ProcessOf[u] = p BY <1>6, <2>1, <2>2
  <2>3. CASE ProcessOf[u] # p BY <1>2, <2>1, <2>3 DEF LockInv, LocksTyped
  <2> QED BY <2>2, <2>3
<1>8. HandlesPoint' /\ MutexIsTheirs'
  BY <1>1, <1>4, <1>5 DEF LockInv, HandlesPoint, MutexIsTheirs, NoHandle, HasM
<1>9. FileIsTheirs'
  <2> SUFFICES ASSUME NEW u \in Threads \ {t}, pcLock[u] \in CountsOnF
               PROVE  flock' = ProcessOf[u] \/ stolen'
    BY <1>4, <1>5 DEF FileIsTheirs, CountsOnF
  <2>1. flock = ProcessOf[u] \/ stolen BY DEF LockInv, FileIsTheirs
  <2>2. m_mutex[u] # NoMutex
    BY DEF LockInv, HandlesPoint, CountsOnF, NoHandle
  <2>3. CASE ProcessOf[u] = p BY <1>1, <1>6, <2>1, <2>2, <2>3
  <2>4. CASE ProcessOf[u] # p BY <1>1, <1>2, <2>1, <2>4 DEF CloseFile
  <2> QED BY <2>3, <2>4
<1> QED BY <1>3, <1>7, <1>8, <1>9 DEF LockInv

----------------------------------------------------------------------------
(* The steps of the two locks *)

(* Waiting for the mutex or the file, trying it, and giving it back.         *)
LEMMA LockStepKeeps ==
  ASSUME LockInv, NEW t \in Threads,
         LockStep(t) \/ Destroy(t) \/ \E to \in {"waitM", "tryLock", "timedM"} : Call(t, to)
  PROVE  LockInv'
<1> USE DEF factoryVars, lockVars, Goto, NoHandle, HasM, CountsOnF
<1>0. m_mutex[t] \in Mutexes \/ pcLock[t] \in NoHandle BY Pointing
<1>1. DOMAIN mlock = Mutexes /\ stolen \in BOOLEAN /\ t # Nobody
      /\ (pcLock[t] \in HasM => mlock[m_mutex[t]] = t)
  BY ProcessesAssumption DEF LockInv, LocksTyped, MutexIsTheirs
<1> DEFINE Goes(to) ==
       /\ pcLock[t] \notin NoHandle /\ to \notin NoHandle
       /\ pcLock' = [pcLock EXCEPT ![t] = to]
       /\ UNCHANGED factoryVars
<1>2. CASE Destroy(t)
  <2>1. PICK to \in {"erase", "drop"} : Goes(to) BY <1>2 DEF Destroy
  <2> QED BY <1>1, <1>2, <2>1, HandlesKept DEF Destroy
<1>3. CASE \E to \in {"waitM", "tryLock", "timedM"} : Call(t, to)
  <2>1. PICK to \in {"waitM", "tryLock", "timedM"} : Call(t, to) BY <1>3
  <2>2. Goes(to) BY <2>1 DEF Call
  <2> QED BY <1>1, <2>1, <2>2, HandlesKept DEF Call
<1>4. ASSUME NEW from \in {"waitM", "tryLock", "timedM"},
             NEW to \in {"tryF", "tryLockF", "timedF"}, WaitM(t, from, to)
      PROVE  LockInv'
  <2>1. mlock[m_mutex[t]] = Nobody /\ TakeM(t) /\ Goes(to) BY <1>4 DEF WaitM, MFree
  <2>2. mlock'[m_mutex[t]] = t BY <1>0, <1>1, <2>1 DEF TakeM
  <2>3. UNCHANGED <<flock, stolen>> BY <1>4 DEF WaitM
  <2> QED BY <1>1, <2>1, <2>2, <2>3, HandlesKept
<1>5. ASSUME NEW from \in {"tryF", "tryLockF"}, NEW else \in {"waitF", "idle"},
             TryF(t, from, else)
      PROVE  LockInv'
  <2>0. pcLock[t] \in HasM /\ UNCHANGED stolen BY <1>5 DEF TryF
  <2>1. CASE Goto(t, from, "held") /\ FFree(t) /\ TakeF(t) /\ UNCHANGED mlock
    <3>1. Goes("held") /\ flock' = ProcessOf[t] /\ flock \in {Nobody, ProcessOf[t]}
      BY <1>5, <2>1 DEF TryF, FFree, TakeF
    <3>2. \A u \in Threads : ProcessOf[u] # Nobody BY ProcessesAssumption
    <3> QED BY <1>1, <2>0, <2>1, <3>1, <3>2, HandlesKept
  <2>2. CASE Goto(t, from, else) /\ ~FFree(t) /\ GiveM(t) /\ UNCHANGED flock
    <3>1. Goes(else) BY <1>5, <2>2 DEF TryF
    <3> QED BY <1>1, <2>0, <2>2, <3>1, HandlesKept
  <2> QED BY <1>5, <2>1, <2>2 DEF TryF
<1>6. ASSUME NEW to \in {"tryM", "held"}, NEW from \in {"waitF", "timedF"},
             WaitF(t, from, to), to \in HasM => from \in HasM
      PROVE  LockInv'
  <2>1. Goes(to) /\ flock' = ProcessOf[t] /\ flock \in {Nobody, ProcessOf[t]}
        /\ UNCHANGED <<mlock, stolen>> /\ pcLock[t] = from
    BY <1>6 DEF WaitF, FFree, TakeF
  <2>2. \A u \in Threads : ProcessOf[u] # Nobody BY ProcessesAssumption
  <2>3. to \in HasM => mlock'[m_mutex[t]] = t BY <1>1, <1>6, <2>1
  <2> QED BY <1>1, <2>1, <2>2, <2>3, HandlesKept
<1>7. CASE TryM(t)
  <2>1. mlock[m_mutex[t]] = Nobody /\ TakeM(t) /\ Goes("held") /\ UNCHANGED <<flock, stolen>>
    BY <1>7 DEF TryM, MFree
  <2>2. mlock'[m_mutex[t]] = t BY <1>0, <1>1, <2>1 DEF TakeM
  <2>3. flock = ProcessOf[t] \/ stolen BY <1>7 DEF TryM, LockInv, FileIsTheirs
  <2> QED BY <1>1, <2>1, <2>2, <2>3, HandlesKept
<1>8. ASSUME NEW to \in {"waitM", "unlockM"}, GiveF(t), Goes(to), UNCHANGED mlock,
             to \in HasM => pcLock[t] \in HasM
      PROVE  LockInv'
  <2>1. stolen' \in BOOLEAN /\ (stolen => stolen') BY <1>1, <1>8 DEF GiveF
  <2>2. \A u \in Threads \ {t} :
          pcLock[u] \in CountsOnF /\ ~stolen' /\ flock = ProcessOf[u]
             => flock' = ProcessOf[u]
    BY <1>8 DEF GiveF, CloseFile
  <2> QED BY <1>1, <1>8, <2>1, <2>2, HandlesKept
<1>9. CASE BackOff(t)
  <2>1. GiveF(t) /\ Goes("waitM") /\ UNCHANGED mlock BY <1>9 DEF BackOff
  <2> QED BY <1>8, <2>1
<1>10. CASE UnlockF(t)
  <2>1. GiveF(t) /\ Goes("unlockM") /\ UNCHANGED mlock /\ pcLock[t] \in HasM
    BY <1>10 DEF UnlockF
  <2> QED BY <1>8, <2>1
<1>11. CASE UnlockM(t)
  <2>1. GiveM(t) /\ Goes("idle") /\ UNCHANGED <<flock, stolen>> /\ pcLock[t] \in HasM
    BY <1>11 DEF UnlockM
  <2> QED BY <1>1, <2>1, HandlesKept
<1>12. CASE TryLockFails(t) \/ TimeOut(t)
  <2>1. Goes("idle") /\ UNCHANGED <<mlock, flock, stolen>>
    BY <1>12 DEF TryLockFails, TimeOut
  <2> QED BY <1>1, <2>1, HandlesKept
<1> QED BY <1>2, <1>3, <1>4, <1>5, <1>6, <1>7, <1>9, <1>10, <1>11, <1>12 DEF LockStep

(* A killed process takes its mutexes with it, and only its own.             *)
LEMMA KillKeeps ==
  ASSUME LockInv, NEW p \in Processes, KillProcess(p)
  PROVE  LockInv'
<1> USE DEF KillProcess
<1>1. LocksTyped' /\ OwnMutexes'
  BY DEF LockInv, LocksTyped, OwnMutexes
<1>2. ASSUME NEW t \in Threads, pcLock'[t] # "none" \/ m_mutex'[t] # NoMutex
      PROVE  /\ ProcessOf[t] # p /\ ProcessOf[t] \in Processes
             /\ pcLock'[t] = pcLock[t] /\ m_mutex'[t] = m_mutex[t]
             /\ m_instances'[ProcessOf[t]] = m_instances[ProcessOf[t]]
  BY <1>2, ProcessesAssumption DEF LockInv, LocksTyped
<1>3. OneMutexPerFile' BY <1>2 DEF LockInv, OneMutexPerFile
<1>4. HandlesPoint' BY <1>2 DEF LockInv, HandlesPoint, NoHandle
<1>5. MutexIsTheirs'
  <2> SUFFICES ASSUME NEW t \in Threads, pcLock'[t] \in HasM
               PROVE  mlock'[m_mutex'[t]] = t
    BY DEF MutexIsTheirs
  <2>1. ProcessOf[t] # p /\ pcLock[t] \in HasM /\ m_mutex'[t] = m_mutex[t]
    BY <1>2 DEF HasM
  <2>2. m_mutex[t] \in Mutexes /\ m_mutex[t][1] # p
    BY <2>1, Pointing DEF HasM, NoHandle
  <2> QED BY <2>1, <2>2 DEF LockInv, LocksTyped, MutexIsTheirs
<1>6. FileIsTheirs'
  BY <1>2 DEF LockInv, FileIsTheirs, CountsOnF, CloseFile
<1> QED BY <1>1, <1>3, <1>4, <1>5, <1>6 DEF LockInv

----------------------------------------------------------------------------
(* The theorems *)

(* The invariant is one: what threads hold, and count on, is theirs.         *)
THEOREM LockInvariant == LockSpec => []LockInv
<1>1. LockInv /\ [LockNext]_fileLockVars => LockInv'
  <2> SUFFICES ASSUME LockInv, [LockNext]_fileLockVars PROVE LockInv' OBVIOUS
  <2>1. CASE UNCHANGED fileLockVars
    BY <2>1 DEF fileLockVars, factoryVars, lockVars, LockInv, LocksTyped, OwnMutexes,
                OneMutexPerFile, HandlesPoint, MutexIsTheirs, FileIsTheirs
  <2>2. CASE LockNext
    BY <2>2, GetKeeps, ReleaseKeeps, LockStepKeeps, KillKeeps DEF LockNext
  <2> QED BY <2>1, <2>2
<1> QED BY <1>1, LockInvInit, PTL DEF LockSpec

(* All handles of a process share the mutex its factory knows                *)
(* (file_lock.cpp:37, :50).                                                  *)
THEOREM HandlesShare == LockSpec => []OneMutexPerFile
<1>1. LockInv => OneMutexPerFile BY DEF LockInv
<1> QED BY <1>1, LockInvariant, PTL

(* The lock excludes the threads of a process always, and all threads until  *)
(* one has released the file of another (file_lock.cpp:113, :137).           *)
THEOREM LockExcludes == LockSpec => []ExclusiveUnlessStolen
<1>1. LockInv => ExclusiveUnlessStolen
  <2> SUFFICES ASSUME LockInv, NEW t \in Threads, NEW u \in Threads,
                      Holding(t), Holding(u),
                      ProcessOf[t] = ProcessOf[u] \/ ~stolen
               PROVE  t = u
    BY DEF ExclusiveUnlessStolen
  <2>1. ProcessOf[t] = ProcessOf[u]
    BY DEF LockInv, FileIsTheirs, CountsOnF, Holding
  <2>2. m_mutex[t] = m_mutex[u] BY <2>1, Pointing DEF Holding, NoHandle
  <2> QED BY <2>2 DEF LockInv, MutexIsTheirs, HasM, Holding
<1> QED BY <1>1, LockInvariant, PTL


----------------------------------------------------------------------------
(* Lock files *)

Guarded(path) == \E g \in Guards : m_path[g] = path

GuardInv ==
  /\ GuardTypeOK
  /\ \A g, h \in Guards : m_path[g] = m_path[h] /\ m_path[g] # NoPath => g = h
  /\ \A path \in Paths : path \in files <=> Guarded(path) \/ path \in left
  /\ \A path \in left : ~Guarded(path)

(* The invariant says what GuardedExactlyOnce does, without cardinalities.   *)
LEMMA GuardInvImplies == GuardInv => GuardedExactlyOnce
<1> SUFFICES ASSUME GuardInv, NEW path \in Paths
             PROVE  LET guards == {g \in Guards : m_path[g] = path} IN
                    /\ Cardinality(guards) <= 1
                    /\ path \in files <=> guards # {} \/ path \in left
                    /\ guards = {} \/ path \notin left
  BY DEF GuardedExactlyOnce
<1> DEFINE guards == {g \in Guards : m_path[g] = path}
<1>1. Cardinality(guards) <= 1
  <2>1. CASE guards = {} BY <2>1, FS_EmptySet
  <2>2. CASE guards # {}
    <3>1. PICK g \in guards : TRUE BY <2>2
    <3>2. guards = {g} BY <3>1, NoPathAssumption DEF GuardInv
    <3>3. Cardinality({g}) = 1 BY FS_Singleton
    <3> QED BY <3>2, <3>3
  <2> QED BY <2>1, <2>2
<1>2. guards # {} <=> Guarded(path) BY DEF Guarded
<1> QED BY <1>1, <1>2 DEF GuardInv

(* The invariant holds at first. *)
LEMMA GuardInvInit == GuardInit => GuardInv
<1> SUFFICES ASSUME GuardInit PROVE GuardInv OBVIOUS
<1>1. GuardTypeOK BY DEF GuardInit, GuardTypeOK
<1>2. \A path \in Paths : ~Guarded(path)
  BY NoPathAssumption DEF GuardInit, Guarded
<1> QED BY <1>1, <1>2 DEF GuardInit, GuardInv

(* Each step of a guard, a kill or an operator keeps the invariant.          *)
LEMMA GuardInvNext == GuardInv /\ [GuardNext]_guardVars => GuardInv'
<1> SUFFICES ASSUME GuardInv, [GuardNext]_guardVars PROVE GuardInv' OBVIOUS
<1> USE NoPathAssumption DEF GuardInv, GuardTypeOK, Guarded
<1>1. ASSUME NEW g \in Guards, NEW path \in Paths, CreateFile(g, path) PROVE GuardInv'
  BY <1>1 DEF CreateFile
<1>2. ASSUME NEW g \in Guards, Remove(g) PROVE GuardInv'
  BY <1>2 DEF Remove
<1>3. ASSUME NEW g \in Guards, NEW h \in Guards, Move(g, h) PROVE GuardInv'
  <2>1. CASE g = h
    <3>1. m_path' = [m_path EXCEPT ![h] = NoPath] /\ files' = files \ {m_path[h]}
          /\ UNCHANGED left /\ m_path[h] # NoPath
      BY <1>3, <2>1 DEF Move
    <3> QED BY <3>1
  <2>2. CASE g # h
    <3>1. m_path' \in [Guards -> Paths \cup {NoPath}] /\ files' = files \ {m_path[g]}
          /\ UNCHANGED left /\ m_path[h] # NoPath
          /\ m_path'[g] = m_path[h] /\ m_path'[h] = NoPath
          /\ \A x \in Guards \ {g, h} : m_path'[x] = m_path[x]
      BY <1>3, <2>2 DEF Move
    <3>2. \A x, y \in Guards : m_path'[x] = m_path'[y] /\ m_path'[x] # NoPath => x = y
      BY <2>2, <3>1
    <3>3. \A path \in Paths : Guarded(path)' <=> Guarded(path) /\ path # m_path[g]
      BY <2>2, <3>1
    <3> QED BY <3>1, <3>2, <3>3
  <2> QED BY <2>1, <2>2
<1>4. ASSUME NEW p \in {OwnerOf[g] : g \in Guards}, KillOwner(p) PROVE GuardInv'
  BY <1>4 DEF KillOwner
<1>5. ASSUME NEW path \in Paths, CleanUp(path) PROVE GuardInv'
  BY <1>5 DEF CleanUp
<1>6. CASE UNCHANGED guardVars
  BY <1>6 DEF guardVars
<1> QED BY <1>1, <1>2, <1>3, <1>4, <1>5, <1>6 DEF GuardNext

(* A lock file exists exactly while it is guarded or was left by a kill      *)
(* (file_guard.cpp:30-44).                                                   *)
THEOREM FilesAreGuarded == GuardSpec => []GuardedExactlyOnce
  BY GuardInvInit, GuardInvNext, GuardInvImplies, PTL DEF GuardSpec

----------------------------------------------------------------------------
(* Temporary files *)

TempInv ==
  /\ tempPath \in [Temps -> Names \cup {NoName}]
  /\ autoRemove \in [Temps -> BOOLEAN]
  /\ DOMAIN entries \subseteq Names
  /\ \A t \in Temps : tempPath[t] # NoName => tempPath[t] \in DOMAIN entries \cup clashed
  /\ \A t, u \in Temps : tempPath[t] = tempPath[u] /\ tempPath[t] # NoName /\ t # u
                           => tempPath[t] \in clashed

(* Each step keeps the invariant; entries matter only for their names.       *)
LEMMA TempInvNext == TempInv /\ [TempNext]_tempVars => TempInv'
<1> SUFFICES ASSUME TempInv, [TempNext]_tempVars PROVE TempInv' OBVIOUS
<1> USE NoNameAssumption DEF TempInv
<1>1. ASSUME NEW t \in Temps, NEW n \in Names, Made(t, n) PROVE TempInv'
  <2>1. DOMAIN entries' = DOMAIN entries \cup {n} BY <1>1 DEF Made, With
  <2> QED BY <1>1, <2>1 DEF Made, Existing
<1>2. ASSUME NEW t \in Temps, NEW n \in Names, Clash(t, n) PROVE TempInv'
  <2>1. DOMAIN entries' = DOMAIN entries \ {n} BY <1>2 DEF Clash, Without
  <2> QED BY <1>2, <2>1 DEF Clash
<1>3. ASSUME NEW t \in Temps, DestroyTemp(t) PROVE TempInv'
  <2>1. DOMAIN entries' = IF autoRemove[t] THEN DOMAIN entries \ {tempPath[t]}
                          ELSE DOMAIN entries
    BY <1>3 DEF DestroyTemp, Removed, Without
  <2> QED BY <1>3, <2>1 DEF DestroyTemp
<1>4. ASSUME NEW t \in Temps, NEW u \in Temps, MoveConstruct(t, u) PROVE TempInv'
  BY <1>4 DEF MoveConstruct
<1>5. ASSUME NEW t \in Temps, NEW u \in Temps, SwapTemps(t, u) PROVE TempInv'
  BY <1>5 DEF SwapTemps
<1>6. ASSUME NEW t \in Temps, Keep(t) PROVE TempInv'
  BY <1>6 DEF Keep
<1>7. CASE UNCHANGED <<entries, tempPath, autoRemove, clashed>>
  BY <1>7
<1> QED BY <1>1, <1>2, <1>3, <1>4, <1>5, <1>6, <1>7
        DEF TempNext, StartMaking, Taken, GiveUp, tempVars

(* A temporary file is removed by the only value that has its path           *)
(* (tempfile.cpp:56, :83).                                                   *)
THEOREM TempsAreOwned == TempSpec => []TempOwned
<1>1. TempInit => TempInv BY DEF TempInit, TempInv
<1>2. TempInv => TempOwned BY DEF TempInv, TempOwned
<1> QED BY <1>1, <1>2, TempInvNext, PTL DEF TempSpec

(* A program that uses both has no file that two values remove.              *)
THEOREM FilesHaveOneOwner == GuardSpec /\ TempSpec => []OwnedExactlyOnce
<1>1. GuardedExactlyOnce /\ TempOwned => OwnedExactlyOnce BY DEF OwnedExactlyOnce
<1> QED BY <1>1, FilesAreGuarded, TempsAreOwned, PTL

----------------------------------------------------------------------------
(* The tools: builders, archivers, fetchers *)

Places == Seq(FileNames)

(* Where a task may write: below its destination, and where it builds. *)
Touched(t, place) ==
  \/ Below(Target(t), place)
  \/ t.op = "build" /\ Below(In(Cwd, t.bin), place)

Kept == \A place \in DOMAIN before :
          \/ Touched(task, place)
          \/ place \in DOMAIN disk /\ disk[place] = before[place]

Input(t) == In(Cwd, t.from)
(* The source as it was is at a place now. *)
Copied(place) ==
  /\ Input(task) \in DOMAIN before /\ place \in DOMAIN disk
  /\ disk[place] = before[Input(task)]

(* How far the disk is with so many programs to run. *)
Total == Len(ProgramsOf(task))
Left == Len(programs)
Progress ==
  /\ Left = Total => disk = before
  /\ task.op = "build" =>
       /\ Left = 4 /\ Input(task) \in DOMAIN disk => Copied(Input(task))
       /\ Left \in {2, 3} => Copied(In(Cwd, BuildDir(task)))
       /\ Left = 1 /\ ~Misplaced(task) => Copied(In(Cwd, RootDir(task)))

Exes ==
  {"reset_dir", "tar", "7z", "make", "ninja", "cmake", "meson", "copy", "curl", "wget"}
ProgramType == [exe : Exes, cwd : Places, from : ToolPaths, to : ToolPaths]
StillToRun ==
  /\ task \in ToolTasks
  /\ programs \in Seq(ProgramType) /\ Left \in 1..Total
  /\ \A i \in 1..Left : programs[i] = ProgramsOf(task)[Total - Left + i]

DisksTyped ==
  /\ DOMAIN disk \subseteq Places /\ DOMAIN before \subseteq Places
  /\ \A x \in DOMAIN disk : disk[x] \in Contents

TasksTyped ==
  /\ task \in ToolTasks \cup {NoTask} /\ resolver \in Resolvers \cup {NoTask}
  /\ toolOutcome \in {"none", "running", "ok", "failed"}
  /\ looking # NoTask => looking \in used
  /\ tasks \in 0..MaxTasks
  /\ toolOutcome = "none" => task = NoTask
  /\ ~Busy => programs = <<>>

ToolInv ==
  /\ DisksTyped /\ TasksTyped
  /\ task # NoTask => Kept
  /\ task # NoTask /\ toolOutcome = "ok" /\ ~Misplaced(task) /\ ~Stale(task) =>
       Copied(Target(task))
  /\ Busy => StillToRun /\ Progress

----------------------------------------------------------------------------
(* Of places *)

(* A place is below a directory when it goes on from its names. *)
LEMMA BelowMeans ==
  ASSUME NEW dir \in Places, NEW place \in Places
  PROVE  Below(dir, place) <=>
           Len(place) >= Len(dir) /\ \A i \in 1..Len(dir) : place[i] = dir[i]
<1>1. Len(dir) \in Nat /\ Len(place) \in Nat BY LenProperties DEF Places
<1>2. ASSUME Len(place) >= Len(dir)
      PROVE  /\ SubSeq(place, 1, Len(dir)) \in Places
             /\ Len(SubSeq(place, 1, Len(dir))) = Len(dir)
             /\ \A i \in 1..Len(dir) : SubSeq(place, 1, Len(dir))[i] = place[i]
  <2>1. \A i \in 1..Len(dir) : place[i] \in FileNames
    BY <1>1, <1>2, ElementOfSeq DEF Places
  <2>2. /\ SubSeq(place, 1, Len(dir)) \in Seq(FileNames)
        /\ Len(SubSeq(place, 1, Len(dir))) =
             IF 1 <= Len(dir) THEN Len(dir) - 1 + 1 ELSE 0
        /\ \A i \in 1..(Len(dir) - 1 + 1) :
             SubSeq(place, 1, Len(dir))[i] = place[1 + i - 1]
    BY <1>1, <2>1, SubSeqProperties
  <2> QED BY <1>1, <2>2 DEF Places
<1>3. ASSUME Below(dir, place)
      PROVE  Len(place) >= Len(dir) /\ \A i \in 1..Len(dir) : place[i] = dir[i]
  BY <1>2, <1>3 DEF Below
<1>4. ASSUME Len(place) >= Len(dir), \A i \in 1..Len(dir) : place[i] = dir[i]
      PROVE  Below(dir, place)
  <2>1. SubSeq(place, 1, Len(dir)) = dir
    BY <1>2, <1>4, SeqEqual DEF Places
  <2> QED BY <1>4, <2>1 DEF Below
<1> QED BY <1>3, <1>4

(* A place is below itself.                                                  *)
LEMMA BelowItself == ASSUME NEW dir \in Places PROVE Below(dir, dir)
BY BelowMeans, LenProperties DEF Places

(* A place below a place below a directory is below it.                      *)
LEMMA BelowBelow ==
  ASSUME NEW a \in Places, NEW b \in Places, NEW c \in Places,
         Below(a, b), Below(b, c)
  PROVE  Below(a, c)
<1>1. Len(a) \in Nat /\ Len(b) \in Nat /\ Len(c) \in Nat
  BY LenProperties DEF Places
<1> QED BY <1>1, BelowMeans

(* Whatever is added to a place is below it.                                 *)
LEMMA BelowMore ==
  ASSUME NEW dir \in Places, NEW more \in Places
  PROVE  dir \o more \in Places /\ Below(dir, dir \o more)
<1>1. Len(dir) \in Nat /\ Len(more) \in Nat BY LenProperties DEF Places
<1>2. /\ dir \o more \in Places /\ Len(dir \o more) = Len(dir) + Len(more)
      /\ \A i \in 1..Len(dir) + Len(more) :
           (dir \o more)[i] = IF i <= Len(dir) THEN dir[i] ELSE more[i - Len(dir)]
  BY ConcatProperties DEF Places
<1>3. Len(dir \o more) >= Len(dir) /\ \A i \in 1..Len(dir) : (dir \o more)[i] = dir[i]
  BY <1>1, <1>2
<1> QED BY <1>2, <1>3, BelowMeans

(* So is a place with one name more, which it ends with.                     *)
LEMMA BelowOneMore ==
  ASSUME NEW dir \in Places, NEW n \in FileNames
  PROVE  /\ Append(dir, n) \in Places /\ Len(Append(dir, n)) = Len(dir) + 1
         /\ Append(dir, n)[Len(dir) + 1] = n
         /\ Below(dir, Append(dir, n))
<1>1. Len(dir) \in Nat BY LenProperties DEF Places
<1>2. /\ Append(dir, n) \in Places /\ Len(Append(dir, n)) = Len(dir) + 1
      /\ \A i \in 1..Len(dir) : Append(dir, n)[i] = dir[i]
      /\ Append(dir, n)[Len(dir) + 1] = n
  BY AppendProperties DEF Places
<1>3. Len(Append(dir, n)) >= Len(dir) BY <1>1, <1>2
<1> QED BY <1>2, <1>3, BelowMeans

(* Where a path leads. *)
LEMMA PathsLead ==
  ASSUME NEW dir \in Places, NEW p \in ToolPaths
  PROVE  /\ In(dir, p) \in Places
         /\ absolute(p) \in ToolPaths /\ In(dir, absolute(p)) = In(Cwd, p)
         /\ ~p.abs => Below(dir, In(dir, p))
<1>1. p.names \in Places /\ p.abs \in BOOLEAN BY DEF ToolPaths, Places
<1>2. Cwd \in Places
  <2>1. "cwd" \in FileNames BY FileNamesAssumption
  <2> QED BY <2>1 DEF Cwd, Places
<1>3. ASSUME NEW d \in Places PROVE In(d, p) \in Places BY <1>1, <1>3, BelowMore DEF In
<1>4. absolute(p) \in ToolPaths
  BY <1>2, <1>3 DEF absolute, Path, ToolPaths, Places
<1>5. In(dir, absolute(p)) = In(Cwd, p) BY DEF In, absolute, Path
<1>6. ~p.abs => Below(dir, In(dir, p)) BY <1>1, BelowMore DEF In
<1> QED BY <1>3, <1>4, <1>5, <1>6

(* A name may be added before or after the directory is put in front.        *)
LEMMA AddedLast ==
  ASSUME NEW dir \in Places, NEW more \in Places, NEW n \in FileNames
  PROVE  dir \o Append(more, n) = Append(dir \o more, n)
<1>1. dir \in Seq(FileNames) /\ more \in Seq(FileNames) BY DEF Places
<1>2. <<n>> \in Seq(FileNames) OBVIOUS
<1>3. Append(more, n) = more \o <<n>> BY <1>1, AppendIsConcat
<1>4. Append(dir \o more, n) = (dir \o more) \o <<n>>
  <2>1. dir \o more \in Seq(FileNames) BY <1>1, ConcatProperties
  <2> QED BY <2>1, AppendIsConcat
<1>5. (dir \o more) \o <<n>> = dir \o (more \o <<n>>)
  BY <1>1, <1>2, ConcatAssociative
<1> QED BY <1>3, <1>4, <1>5

(* A path inside another leads to a place inside the other's.                *)
LEMMA InsideLeads ==
  ASSUME NEW dir \in Places, NEW p \in ToolPaths, NEW n \in FileNames
  PROVE  /\ Inside(p, n) \in ToolPaths /\ Inside(p, n).abs = p.abs
         /\ In(dir, Inside(p, n)) = Append(In(dir, p), n)
<1>1. p.names \in Places /\ p.abs \in BOOLEAN BY DEF ToolPaths, Places
<1>2. Append(p.names, n) \in Places BY <1>1, BelowOneMore
<1>3. Inside(p, n) \in ToolPaths /\ Inside(p, n).abs = p.abs
  BY <1>1, <1>2 DEF Inside, Path, ToolPaths, Places
<1>4. dir \o Append(p.names, n) = Append(dir \o p.names, n) BY <1>1, AddedLast
<1> QED BY <1>3, <1>4 DEF In, Inside, Path

(* The directory of a place is a place.                                      *)
LEMMA ParentIs ==
  ASSUME NEW place \in Places
  PROVE  /\ parent_path(place) \in Places
         /\ place # <<>> =>
              /\ Len(parent_path(place)) = Len(place) - 1
              /\ \A i \in 1..(Len(place) - 1) : parent_path(place)[i] = place[i]
<1>1. Len(place) \in Nat /\ place \in [1..Len(place) -> FileNames]
  BY LenProperties DEF Places
<1>2. \A i \in 1..(Len(place) - 1) : place[i] \in FileNames BY <1>1
<1>3. Len(place) - 1 \in Int BY <1>1
<1> DEFINE last == Len(place) - 1
<1>4. /\ SubSeq(place, 1, last) \in Seq(FileNames)
      /\ Len(SubSeq(place, 1, last)) = IF 1 <= last THEN last - 1 + 1 ELSE 0
      /\ \A i \in 1..(last - 1 + 1) : SubSeq(place, 1, last)[i] = place[1 + i - 1]
  <2> HIDE DEF last
  <2> QED BY <1>2, <1>3, SubSeqProperties DEF last
<1>5. place # <<>> => Len(place) >= 1 BY <1>1, EmptySeq DEF Places
<1> QED BY <1>1, <1>4, <1>5 DEF parent_path, Places

(* A file name in the directory of a file leads to the file.                 *)
LEMMA FileLeads ==
  ASSUME NEW place \in Places, place # <<>>
  PROVE  filename(place) \in ToolPaths /\ In(parent_path(place), filename(place)) = place
<1> DEFINE n == place[Len(place)]
           dir == parent_path(place)
<1>1. Len(place) \in Nat /\ Len(place) >= 1 BY LenProperties, EmptySeq DEF Places
<1>2. n \in FileNames BY <1>1, ElementOfSeq DEF Places
<1>3. <<n>> \in Places /\ Len(<<n>>) = 1 /\ <<n>>[1] = n BY <1>2 DEF Places
<1>4. /\ dir \in Places /\ Len(dir) = Len(place) - 1
      /\ \A i \in 1..(Len(place) - 1) : dir[i] = place[i]
  BY ParentIs
<1>5. filename(place) = Path(FALSE, <<n>>) BY DEF filename
<1>6. filename(place) \in ToolPaths BY <1>3, <1>5 DEF Path, ToolPaths, Places
<1>7. In(dir, filename(place)) = dir \o <<n>> BY <1>5 DEF In, Path
<1> DEFINE more == <<n>>
<1>8. more \in Places /\ Len(more) = 1 /\ more[1] = n BY <1>3
<1>9. In(dir, filename(place)) = dir \o more BY <1>7
<1> HIDE DEF n, dir, more
<1>10. /\ dir \o more \in Places /\ Len(dir \o more) = Len(place)
       /\ \A i \in 1..Len(place) : (dir \o more)[i] = IF i <= Len(dir) THEN dir[i] ELSE more[i - Len(dir)]
  <2>1. /\ dir \o more \in Places /\ Len(dir \o more) = Len(dir) + Len(more)
        /\ \A i \in 1..Len(dir) + Len(more) :
             (dir \o more)[i] = IF i <= Len(dir) THEN dir[i] ELSE more[i - Len(dir)]
    BY <1>4, <1>8, ConcatProperties DEF Places
  <2> QED BY <1>1, <1>4, <1>8, <2>1
<1>11. ASSUME NEW i \in 1..Len(place) PROVE (dir \o more)[i] = place[i]
  <2>1. CASE i <= Len(dir) BY <1>1, <1>4, <1>10, <2>1
  <2>2. CASE ~(i <= Len(dir))
    <3>1. i = Len(place) /\ i - Len(dir) = 1 BY <1>1, <1>4, <2>2
    <3> QED BY <1>8, <1>10, <2>2, <3>1 DEF n
  <2> QED BY <2>1, <2>2
<1>12. dir \o more = place BY <1>10, <1>11, SeqEqual DEF Places
<1> QED BY <1>6, <1>9, <1>12 DEF dir

(* "." leads to the directory it is looked up in.                            *)
LEMMA DotLeads ==
  ASSUME NEW dir \in Places
  PROVE  Dot \in ToolPaths /\ In(dir, Dot) = dir
<1>1. dir \o <<>> = dir BY ConcatEmptySeq DEF Places
<1> QED BY <1>1 DEF Dot, Path, In, ToolPaths
----------------------------------------------------------------------------
(* Of tasks *)

(* What a task is. *)
LEMMA TaskIs ==
  ASSUME NEW t \in ToolTasks
  PROVE  /\ t.from \in ToolPaths /\ t.to \in ToolPaths
         /\ \/ t.op = "build" /\ t \in Builds /\ t.bin \in ToolPaths
               /\ t.tool \in {"cmake", "meson"} /\ t.archiver \in {"tar", "7z"}
               /\ ~Below(In(Cwd, t.bin), Input(t))
            \/ t.op \in {"pack", "unpack"} /\ t.tool \in {"tar", "7z"}
            \/ t.op = "fetch" /\ t.tool \in {"copy", "curl", "wget"}
BY ToolTasksAssumption DEF Builds, Moves, Input

(* The one program of a task that does not build. *)
LEMMA OneProgram ==
  ASSUME NEW t \in ToolTasks, t.op # "build"
  PROVE  \E p \in ProgramType :
           /\ ProgramsOf(t) = <<p>>
           /\ Source(p) = Input(t) /\ Place(p) = Target(t)
           /\ p.exe = t.tool
<1>1. /\ t.from \in ToolPaths /\ t.to \in ToolPaths
      /\ \/ t.op \in {"pack", "unpack"} /\ t.tool \in {"tar", "7z"}
         \/ t.op = "fetch" /\ t.tool \in {"copy", "curl", "wget"}
  BY TaskIs
<1>2. Cwd \in Places BY FileNamesAssumption DEF Cwd, Places
<1>3. \A d \in Places : /\ In(d, absolute(t.from)) = Input(t)
                        /\ In(d, absolute(t.to)) = Target(t)
  BY <1>1, PathsLead DEF Input, Target
<1>4. absolute(t.from) \in ToolPaths /\ absolute(t.to) \in ToolPaths
      /\ Input(t) \in Places
  BY <1>1, <1>2, PathsLead DEF Input
<1>5. parent_path(Input(t)) \in Places BY <1>4, ParentIs
<1> DEFINE p == ProgramsOf(t)[1]
<1>6. CASE t.op = "pack"
  <2>1. ProgramsOf(t) = <<pack(t.tool, t.to, t.from)>> BY <1>1, <1>6 DEF ProgramsOf
  <2>2. pack(t.tool, t.to, t.from) =
          Program(t.tool, parent_path(Input(t)), filename(Input(t)), absolute(t.to))
    BY <1>1, <1>6 DEF pack, pack_from, tar_pack_from, _7z_pack_from, Input
  <2>3. Input(t) # <<>> BY <1>6, ToolTasksAssumption DEF Moves, Builds, Input
  <2>4. /\ filename(Input(t)) \in ToolPaths
        /\ In(parent_path(Input(t)), filename(Input(t))) = Input(t)
    BY <1>4, <2>3, FileLeads
  <2> QED BY <1>1, <1>3, <1>4, <1>5, <1>6, <2>1, <2>2, <2>4
          DEF Program, ProgramType, Exes, Source, Place
<1>7. CASE t.op = "unpack"
  <2>1. ProgramsOf(t) = <<unpack(t.tool, t.from, t.to)>> BY <1>1, <1>7 DEF ProgramsOf
  <2> QED BY <1>1, <1>2, <1>3, <1>4, <1>7, <2>1
          DEF unpack, tar_unpack, _7z_unpack, Program, ProgramType, Exes, Source, Place,
              Input, Target
<1>8. CASE t.op = "fetch"
  <2>1. \/ t.tool = "copy" /\ ProgramsOf(t) = <<copy(t.from, t.to)>>
        \/ t.tool = "curl" /\ ProgramsOf(t) = <<curl(t.from, t.to)>>
        \/ t.tool = "wget" /\ ProgramsOf(t) = <<wget(t.from, t.to)>>
    BY <1>1, <1>8 DEF ProgramsOf
  <2> QED BY <1>1, <1>2, <1>3, <1>4, <1>8, <2>1
          DEF copy, curl, wget, Program, ProgramType, Exes, Source, Place, Input, Target
<1> QED BY <1>1, <1>6, <1>7, <1>8

(* Where pack builds and installs. *)
LEMMA BuildDirs ==
  ASSUME NEW t \in ToolTasks, t.op = "build"
  PROVE  LET bin == In(Cwd, t.bin) IN
         /\ bin \in Places
         /\ BuildDir(t) \in ToolPaths /\ RootDir(t) \in ToolPaths
         /\ BuildDir(t).abs = t.bin.abs /\ RootDir(t).abs = t.bin.abs
         /\ In(Cwd, BuildDir(t)) = Append(bin, "bin")
         /\ In(Cwd, RootDir(t)) = Append(bin, "root")
         /\ In(Cwd, BuildDir(t)) \in Places /\ In(Cwd, RootDir(t)) \in Places
         /\ In(Cwd, BuildDir(t)) # In(Cwd, RootDir(t))
         /\ Below(bin, In(Cwd, BuildDir(t))) /\ Below(bin, In(Cwd, RootDir(t)))
<1> DEFINE bin == In(Cwd, t.bin)
<1>1. t.bin \in ToolPaths BY TaskIs
<1>2. Cwd \in Places BY FileNamesAssumption DEF Cwd, Places
<1>3. bin \in Places BY <1>1, <1>2, PathsLead
<1>4. "bin" \in FileNames /\ "root" \in FileNames BY FileNamesAssumption
<1>5. /\ BuildDir(t) \in ToolPaths /\ RootDir(t) \in ToolPaths
      /\ BuildDir(t).abs = t.bin.abs /\ RootDir(t).abs = t.bin.abs
      /\ In(Cwd, BuildDir(t)) = Append(bin, "bin")
      /\ In(Cwd, RootDir(t)) = Append(bin, "root")
  BY <1>1, <1>2, <1>4, InsideLeads DEF BuildDir, RootDir
<1>6. /\ Append(bin, "bin") \in Places /\ Append(bin, "root") \in Places
      /\ Append(bin, "bin")[Len(bin) + 1] = "bin"
      /\ Append(bin, "root")[Len(bin) + 1] = "root"
      /\ Below(bin, Append(bin, "bin")) /\ Below(bin, Append(bin, "root"))
  BY <1>3, <1>4, BelowOneMore
<1> HIDE DEF bin
<1>7. Append(bin, "bin") # Append(bin, "root") BY <1>6
<1> QED BY <1>3, <1>5, <1>6, <1>7 DEF bin

(* One thing, three and one are five. *)
LEMMA FiveInARow ==
  ASSUME NEW a, NEW b, NEW c, NEW d, NEW e
  PROVE  <<a>> \o <<b, c, d>> \o <<e>> = <<a, b, c, d, e>>
<1> DEFINE S == {a, b, c, d, e}
           x == <<a>>
           y == <<b, c, d>>
           z == <<e>>
           w == <<a, b, c, d, e>>
<1>1. x \in Seq(S) /\ y \in Seq(S) /\ z \in Seq(S) /\ w \in Seq(S) OBVIOUS
<1>2. Len(x) = 1 /\ Len(y) = 3 /\ Len(z) = 1 /\ Len(w) = 5 OBVIOUS
<1>3. /\ x \o y \in Seq(S) /\ Len(x \o y) = 4
      /\ \A i \in 1..4 : (x \o y)[i] = IF i <= 1 THEN x[i] ELSE y[i - 1]
  <2> HIDE DEF S, x, y, z
  <2>1. /\ x \o y \in Seq(S) /\ Len(x \o y) = Len(x) + Len(y)
        /\ \A i \in 1..Len(x) + Len(y) :
             (x \o y)[i] = IF i <= Len(x) THEN x[i] ELSE y[i - Len(x)]
    BY <1>1, ConcatProperties
  <2> QED BY <1>2, <2>1
<1>4. /\ (x \o y) \o z \in Seq(S) /\ Len((x \o y) \o z) = 5
      /\ \A i \in 1..5 : ((x \o y) \o z)[i] = IF i <= 4 THEN (x \o y)[i] ELSE z[i - 4]
  <2> DEFINE v == x \o y
  <2>1. v \in Seq(S) /\ Len(v) = 4 BY <1>3
  <2> HIDE DEF S, x, y, z, v
  <2>2. /\ v \o z \in Seq(S) /\ Len(v \o z) = Len(v) + Len(z)
        /\ \A i \in 1..Len(v) + Len(z) :
             (v \o z)[i] = IF i <= Len(v) THEN v[i] ELSE z[i - Len(v)]
    BY <1>1, <2>1, ConcatProperties
  <2> QED BY <1>2, <2>1, <2>2 DEF v
<1>5. ASSUME NEW i \in 1..5 PROVE ((x \o y) \o z)[i] = w[i]
  <2>1. i = 1 \/ i = 2 \/ i = 3 \/ i = 4 \/ i = 5 OBVIOUS
  <2>2. x[1] = a /\ y[1] = b /\ y[2] = c /\ y[3] = d /\ z[1] = e OBVIOUS
  <2>3. w[1] = a /\ w[2] = b /\ w[3] = c /\ w[4] = d /\ w[5] = e OBVIOUS
  <2> HIDE DEF S, x, y, z, w
  <2> QED BY <1>3, <1>4, <2>1, <2>2, <2>3
<1>6. (x \o y) \o z = w
  <2> HIDE DEF S, x, y, z, w
  <2> QED BY <1>1, <1>2, <1>4, <1>5, SeqEqual
<1> QED BY <1>6

(* The five programs of a task that builds. *)
LEMMA FivePrograms ==
  ASSUME NEW t \in ToolTasks, t.op = "build"
  PROVE  LET ps == ProgramsOf(t) IN
         /\ Len(ps) = 5 /\ ps \in Seq(ProgramType)
         /\ ps[1].exe = "reset_dir" /\ Place(ps[1]) = In(Cwd, t.bin)
         /\ \A k \in 2..5 : ps[k].exe \notin {"reset_dir", "curl"}
         /\ Source(ps[2]) = Input(t) /\ Place(ps[2]) = In(Cwd, BuildDir(t))
         /\ Source(ps[3]) = In(Cwd, BuildDir(t)) /\ Place(ps[3]) = In(Cwd, BuildDir(t))
         /\ Source(ps[4]) = In(Cwd, BuildDir(t))
         /\ Place(ps[4]) \in Places /\ Below(In(Cwd, t.bin), Place(ps[4]))
         /\ ~Misplaced(t) => Place(ps[4]) = In(Cwd, RootDir(t))
         /\ Source(ps[5]) = In(Cwd, RootDir(t)) /\ Place(ps[5]) = Target(t)
<1> DEFINE b == BuildDir(t)
           r == RootDir(t)
           bin == In(Cwd, t.bin)
<1>1. /\ t.from \in ToolPaths /\ t.to \in ToolPaths /\ t.bin \in ToolPaths
      /\ t.tool \in {"cmake", "meson"} /\ t.archiver \in {"tar", "7z"}
  BY TaskIs
<1>2. Cwd \in Places BY FileNamesAssumption DEF Cwd, Places
<1>3. /\ bin \in Places /\ b \in ToolPaths /\ r \in ToolPaths
      /\ b.abs = t.bin.abs /\ r.abs = t.bin.abs
      /\ In(Cwd, b) \in Places /\ In(Cwd, r) \in Places
      /\ Below(bin, In(Cwd, b)) /\ Below(bin, In(Cwd, r))
  BY BuildDirs
<1> HIDE DEF b, r, bin
<1>4. /\ absolute(t.from) \in ToolPaths /\ absolute(t.to) \in ToolPaths
      /\ absolute(b) \in ToolPaths /\ absolute(r) \in ToolPaths
  BY <1>1, <1>2, <1>3, PathsLead
<1>5. \A d \in Places :
        /\ In(d, absolute(t.from)) = Input(t) /\ In(d, absolute(t.to)) = Target(t)
        /\ In(d, absolute(b)) = In(Cwd, b) /\ In(d, absolute(r)) = In(Cwd, r)
  BY <1>1, <1>3, PathsLead DEF Input, Target
<1> DEFINE p1 == Program("reset_dir", Cwd, t.bin, t.bin)
           p2 == Program(t.tool, In(Cwd, b), absolute(t.from), absolute(b))
           maker == IF t.tool = "cmake" THEN "make" ELSE "ninja"
           p3 == Program(maker, In(Cwd, b), absolute(b), absolute(b))
           p4 == Program(maker, In(Cwd, b), absolute(b),
                         IF t.tool = "cmake" THEN absolute(r) ELSE r)
           p5 == pack_contents(t.archiver, t.to, r)
<1>6. ProgramsOf(t) = <<p1>> \o <<p2, p3, p4>> \o <<p5>>
  <2>1. ProgramsOf(t) = PackPrograms(t) BY <1>1 DEF ProgramsOf
  <2>2. PackPrograms(t) = <<p1>> \o install(t.tool, t.from, b, r) \o <<p5>>
    BY DEF PackPrograms, b, r
  <2>3. install(t.tool, t.from, b, r) = <<p2, p3, p4>>
    BY <1>1 DEF install, cmake, meson, make_exec, ninja_exec
  <2> QED BY <2>1, <2>2, <2>3
<1>7. /\ p1 \in ProgramType /\ Place(p1) = bin /\ p1.exe = "reset_dir"
      /\ p2 \in ProgramType /\ Source(p2) = Input(t) /\ Place(p2) = In(Cwd, b)
      /\ p2.exe \notin {"reset_dir", "curl"}
      /\ p3 \in ProgramType /\ Source(p3) = In(Cwd, b) /\ Place(p3) = In(Cwd, b)
      /\ p3.exe \notin {"reset_dir", "curl"}
      /\ p4 \in ProgramType /\ Source(p4) = In(Cwd, b)
      /\ p4.exe \notin {"reset_dir", "curl"}
  BY <1>1, <1>2, <1>3, <1>4, <1>5 DEF Program, ProgramType, Exes, Source, Place, bin
<1>8. Place(p4) \in Places /\ Below(bin, Place(p4))
      /\ (~Misplaced(t) => Place(p4) = In(Cwd, r))
  <2>1. CASE t.tool = "cmake"
    BY <1>3, <1>5, <2>1 DEF Program, Place
  <2>2. CASE t.tool # "cmake" /\ t.bin.abs
    BY <1>3, <2>2 DEF Program, Place, In
  <2>3. CASE t.tool # "cmake" /\ ~t.bin.abs
    <3>1. Place(p4) = In(In(Cwd, b), r) BY <2>3 DEF Program, Place
    <3>2. Place(p4) \in Places /\ Below(In(Cwd, b), Place(p4))
      BY <1>3, <2>3, <3>1, PathsLead
    <3>3. Below(bin, Place(p4)) BY <1>3, <3>2, BelowBelow
    <3>4. Misplaced(t) BY <1>1, <2>3 DEF Misplaced
    <3> QED BY <3>2, <3>3, <3>4
  <2> QED BY <2>1, <2>2, <2>3
<1>9. /\ p5 \in ProgramType /\ Source(p5) = In(Cwd, r) /\ Place(p5) = Target(t)
      /\ p5.exe \notin {"reset_dir", "curl"}
  <2>1. p5 = Program(t.archiver, In(Cwd, r), Dot, absolute(t.to))
    BY <1>1 DEF pack_contents, pack_from, tar_pack_from, _7z_pack_from
  <2>2. Dot \in ToolPaths /\ In(In(Cwd, r), Dot) = In(Cwd, r) BY <1>3, DotLeads
  <2> QED BY <1>1, <1>3, <1>4, <1>5, <2>1, <2>2
          DEF Program, ProgramType, Exes, Source, Place
<1> HIDE DEF p1, p2, p3, p4, p5
<1>10. ProgramsOf(t) = <<p1, p2, p3, p4, p5>> BY <1>6, FiveInARow
<1>11. /\ ProgramsOf(t) \in Seq(ProgramType) /\ Len(ProgramsOf(t)) = 5
       /\ ProgramsOf(t)[1] = p1 /\ ProgramsOf(t)[2] = p2 /\ ProgramsOf(t)[3] = p3
       /\ ProgramsOf(t)[4] = p4 /\ ProgramsOf(t)[5] = p5
  BY <1>7, <1>9, <1>10
<1>12. \A k \in 2..5 : k = 2 \/ k = 3 \/ k = 4 \/ k = 5 OBVIOUS
<1> QED BY <1>7, <1>8, <1>9, <1>11, <1>12 DEF b, r, bin

(* Every program writes where its task may, and the last one writes what is asked. *)
LEMMA ProgramsAre ==
  ASSUME NEW t \in ToolTasks
  PROVE  LET ps == ProgramsOf(t) IN
         /\ ps \in Seq(ProgramType) /\ Len(ps) \in 1..5
         /\ \A k \in 1..Len(ps) : Place(ps[k]) \in Places /\ Touched(t, Place(ps[k]))
         /\ Place(ps[Len(ps)]) = Target(t) /\ Target(t) \in Places
<1>0. t.to \in ToolPaths BY TaskIs
<1>1. Cwd \in Places BY FileNamesAssumption DEF Cwd, Places
<1>2. Target(t) \in Places BY <1>0, <1>1, PathsLead DEF Target
<1>3. Touched(t, Target(t))
  <2>1. Below(Target(t), Target(t)) BY <1>2, BelowItself
  <2> QED BY <2>1 DEF Touched
<1>4. CASE t.op # "build"
  <2>1. PICK p \in ProgramType : ProgramsOf(t) = <<p>> /\ Place(p) = Target(t)
    BY <1>4, OneProgram
  <2> QED BY <1>2, <1>3, <2>1
<1>5. CASE t.op = "build"
  <2> DEFINE bin == In(Cwd, t.bin)
  <2>1. /\ bin \in Places /\ In(Cwd, BuildDir(t)) \in Places
        /\ Below(bin, In(Cwd, BuildDir(t)))
    BY <1>5, BuildDirs
  <2>2. Below(bin, bin) BY <2>1, BelowItself
  <2> DEFINE ps == ProgramsOf(t)
  <2>3. /\ Len(ps) = 5 /\ ps \in Seq(ProgramType)
        /\ Place(ps[1]) = bin /\ Place(ps[2]) = In(Cwd, BuildDir(t))
        /\ Place(ps[3]) = In(Cwd, BuildDir(t))
        /\ Place(ps[4]) \in Places /\ Below(bin, Place(ps[4]))
        /\ Place(ps[5]) = Target(t)
    BY <1>5, FivePrograms
  <2> HIDE DEF ps
  <2>4. ASSUME NEW k \in 1..5 PROVE Place(ps[k]) \in Places /\ Touched(t, Place(ps[k]))
    <3>1. k = 1 \/ k = 2 \/ k = 3 \/ k = 4 \/ k = 5 OBVIOUS
    <3>2. \A x : Below(bin, x) => Touched(t, x) BY <1>5 DEF Touched
    <3> HIDE DEF bin
    <3> QED BY <1>2, <1>3, <2>1, <2>2, <2>3, <3>1, <3>2
  <2> QED BY <1>2, <2>3, <2>4 DEF ps
<1> QED BY <1>4, <1>5

----------------------------------------------------------------------------
(* Of the disk *)

(* Where there is something after a file is written, and what.                *)
LEMMA Filling ==
  ASSUME NEW d, NEW place, NEW content
  PROVE  /\ DOMAIN Filled(d, place, content) = DOMAIN d \cup {place}
         /\ Filled(d, place, content)[place] = content
         /\ \A x \in DOMAIN d : x # place => Filled(d, place, content)[x] = d[x]
BY DEF Filled

(* What is left after a directory is removed.                                *)
LEMMA Clearing ==
  ASSUME NEW d, NEW dir
  PROVE  /\ DOMAIN Cleared(d, dir) = {x \in DOMAIN d : ~Below(dir, x)}
         /\ \A x \in DOMAIN d : ~Below(dir, x) => Cleared(d, dir)[x] = d[x]
BY DEF Cleared, Restrict

(* What changes is below place. *)
OnlyBelow(place) ==
  /\ DOMAIN disk' \subseteq Places
  /\ \A x \in DOMAIN disk' : disk'[x] \in Contents
  /\ \A x \in DOMAIN disk : ~Below(place, x) => x \in DOMAIN disk' /\ disk'[x] = disk[x]
  /\ \A x \in DOMAIN disk' : ~Below(place, x) => x \in DOMAIN disk

(* A program that writes where its task may leaves the rest as it was. *)
LEMMA KeptBelow ==
  ASSUME NEW place \in Places, OnlyBelow(place), Touched(task, place), DisksTyped, Kept,
         task \in ToolTasks, task' = task, before' = before
  PROVE  Kept' /\ DisksTyped'
<1>1. ASSUME NEW x \in DOMAIN before, Below(place, x) PROVE Touched(task, x)
  <2>1. x \in Places BY DEF DisksTyped
  <2>2. Target(task) \in Places BY ProgramsAre
  <2>3. ASSUME task.op = "build" PROVE In(Cwd, task.bin) \in Places
    BY <2>3, BuildDirs
  <2>4. CASE Below(Target(task), place)
    <3>1. Below(Target(task), x) BY <1>1, <2>1, <2>2, <2>4, BelowBelow
    <3> QED BY <3>1 DEF Touched
  <2>5. CASE task.op = "build" /\ Below(In(Cwd, task.bin), place)
    <3>1. Below(In(Cwd, task.bin), x) BY <1>1, <2>1, <2>3, <2>5, BelowBelow
    <3> QED BY <2>5, <3>1 DEF Touched
  <2> QED BY <2>4, <2>5 DEF Touched
<1>2. ASSUME NEW x \in DOMAIN before, ~Touched(task, x)
      PROVE  x \in DOMAIN disk' /\ disk'[x] = before[x]
  BY <1>1, <1>2 DEF OnlyBelow, Kept
<1>3. Kept' BY <1>2 DEF Kept, Touched, Target
<1> QED BY <1>3 DEF OnlyBelow, DisksTyped

(* Writing to a place, after it was cleared or not, changes only what is below it. *)
LEMMA WritesBelow ==
  ASSUME NEW p, Place(p) \in Places, DisksTyped, NEW content \in Contents,
         disk' = Filled(Prepared(p), Place(p), content)
  PROVE  /\ OnlyBelow(Place(p))
         /\ Place(p) \in DOMAIN disk' /\ disk'[Place(p)] = content
<1>1. /\ DOMAIN Prepared(p) \subseteq DOMAIN disk
      /\ \A x \in DOMAIN Prepared(p) : Prepared(p)[x] = disk[x]
      /\ \A x \in DOMAIN disk : ~Below(Place(p), x) => x \in DOMAIN Prepared(p)
  BY Clearing DEF Prepared
<1>2. Below(Place(p), Place(p)) BY BelowItself
<1>3. /\ DOMAIN disk' = DOMAIN Prepared(p) \cup {Place(p)}
      /\ disk'[Place(p)] = content
      /\ \A x \in DOMAIN Prepared(p) : x # Place(p) => disk'[x] = Prepared(p)[x]
  BY DEF Filled
<1> QED BY <1>1, <1>2, <1>3 DEF OnlyBelow, DisksTyped

(* What a failed program leaves is below its place. *)
LEMMA FailsBelow ==
  ASSUME NEW p, Place(p) \in Places, DisksTyped,
         disk' \in {disk, Cleared(disk, Place(p)), Prepared(p),
                    Filled(Prepared(p), Place(p), Part)}
  PROVE  OnlyBelow(Place(p))
<1>1. Part \in Contents BY DEF Contents
<1>2. CASE disk' = Filled(Prepared(p), Place(p), Part) BY <1>1, <1>2, WritesBelow
<1>3. CASE disk' = disk BY <1>3 DEF OnlyBelow, DisksTyped
<1>4. CASE disk' = Cleared(disk, Place(p))
  BY <1>4, Clearing DEF OnlyBelow, DisksTyped
<1>5. CASE disk' = Prepared(p)
  BY <1>3, <1>4, <1>5 DEF Prepared
<1> QED BY <1>2, <1>3, <1>4, <1>5

(* The directories of pack are made anew. *)
LEMMA ResetsBelow ==
  ASSUME NEW dir \in Places, DisksTyped,
         "bin" \in FileNames, "root" \in FileNames,
         disk' = Filled(Filled(Cleared(disk, dir), Append(dir, "bin"), Empty),
                        Append(dir, "root"), Empty)
  PROVE  OnlyBelow(dir)
<1> DEFINE c == Cleared(disk, dir)
           b == Append(dir, "bin")
           r == Append(dir, "root")
           f == Filled(c, b, Empty)
<1>1. Empty \in Contents BY DEF Contents
<1>2. b \in Places /\ r \in Places /\ Below(dir, b) /\ Below(dir, r) BY BelowOneMore
<1>3. /\ DOMAIN c = {x \in DOMAIN disk : ~Below(dir, x)}
      /\ \A x \in DOMAIN c : c[x] = disk[x]
  BY Clearing
<1>4. /\ DOMAIN f = DOMAIN c \cup {b} /\ f[b] = Empty
      /\ \A x \in DOMAIN c : x # b => f[x] = c[x]
  BY DEF Filled
<1>5. /\ DOMAIN disk' = DOMAIN f \cup {r} /\ disk'[r] = Empty
      /\ \A x \in DOMAIN f : x # r => disk'[x] = f[x]
  BY DEF Filled
<1> HIDE DEF c, b, r, f
<1> QED BY <1>1, <1>2, <1>3, <1>4, <1>5 DEF OnlyBelow, DisksTyped

----------------------------------------------------------------------------
(* The steps *)

(* The programs of a task are run from the first to the last. *)
LEMMA NextIs ==
  ASSUME StillToRun
  PROVE  LET k == Total - Left + 1 IN
         /\ k \in 1..Total /\ Head(programs) = ProgramsOf(task)[k]
         /\ Total \in 1..5 /\ Head(programs) \in ProgramType
         /\ Place(Head(programs)) \in Places /\ Touched(task, Place(Head(programs)))
<1>1. /\ task \in ToolTasks /\ programs \in Seq(ProgramType) /\ Left \in 1..Total
      /\ \A i \in 1..Left : programs[i] = ProgramsOf(task)[Total - Left + i]
  BY DEF StillToRun
<1>2. Total \in 1..5 /\ \A k \in 1..Total : /\ Place(ProgramsOf(task)[k]) \in Places
                                            /\ Touched(task, Place(ProgramsOf(task)[k]))
  BY <1>1, ProgramsAre DEF Total
<1>3. programs # <<>> /\ Head(programs) = programs[1] BY <1>1, EmptySeq DEF Left
<1>4. Head(programs) \in ProgramType BY <1>1, <1>3, HeadTailProperties
<1>5. Head(programs) = ProgramsOf(task)[Total - Left + 1] BY <1>1, <1>2, <1>3
<1>6. Total - Left + 1 \in 1..Total BY <1>1, <1>2
<1> QED BY <1>2, <1>4, <1>5, <1>6

(* After a program the next is to be run, or the task has succeeded.         *)
LEMMA Advances ==
  ASSUME TasksTyped, StillToRun, Busy, Advance
  PROVE  /\ TasksTyped' /\ task' = task /\ before' = before
         /\ Left = 1 => toolOutcome' = "ok"
         /\ Left # 1 => /\ toolOutcome' = "running" /\ StillToRun'
                        /\ Left' = Left - 1 /\ Total' = Total
<1>1. task' = task /\ before' = before /\ tasks' = tasks /\ resolver' = resolver
  BY DEF Advance, Done, resolverVars
<1>2. /\ task \in ToolTasks /\ programs \in Seq(ProgramType) /\ Left \in 1..Total
      /\ \A i \in 1..Left : programs[i] = ProgramsOf(task)[Total - Left + i]
      /\ Total \in 1..5
  BY NextIs DEF StillToRun
<1>3. CASE Left = 1
  BY <1>1, <1>3 DEF Advance, Done, TasksTyped, Busy, Left
<1>4. CASE Left # 1
  <2>1. programs' = Tail(programs)
        /\ toolOutcome' = toolOutcome /\ looking' = looking /\ used' = used
    BY <1>4 DEF Advance, Left, resolverVars
  <2>2. programs # <<>> BY <1>2 DEF Left
  <2>3. /\ Tail(programs) \in Seq(ProgramType) /\ Len(Tail(programs)) = Left - 1
        /\ \A i \in 1..Len(Tail(programs)) : Tail(programs)[i] = programs[i + 1]
    BY <1>2, <2>2, HeadTailProperties DEF Left
  <2>4. Left' = Left - 1 BY <2>1, <2>3 DEF Left
  <2>5. Total' = Total BY <1>1 DEF Total
  <2>6. ASSUME NEW i \in 1..(Left - 1)
        PROVE  Tail(programs)[i] = ProgramsOf(task)[Total - (Left - 1) + i]
    <3>1. i + 1 \in 1..Left /\ Total - Left + (i + 1) = Total - (Left - 1) + i
      BY <1>2
    <3>2. Tail(programs)[i] = programs[i + 1] BY <2>3
    <3> QED BY <1>2, <3>1, <3>2
  <2>7. StillToRun'
    BY <1>1, <1>2, <1>4, <2>1, <2>3, <2>4, <2>5, <2>6 DEF StillToRun
  <2>8. TasksTyped' BY <1>1, <2>1 DEF TasksTyped, Busy
  <2> QED BY <1>1, <1>4, <2>1, <2>4, <2>5, <2>7, <2>8 DEF Busy
<1> QED BY <1>3, <1>4

(* The invariant holds at first.                                             *)
LEMMA ToolInvInit == ToolInit => ToolInv
<1> SUFFICES ASSUME ToolInit PROVE ToolInv OBVIOUS
<1>1. disk = Sources /\ before = Sources /\ task = NoTask /\ toolOutcome = "none"
  BY DEF ToolInit
<1>2. DisksTyped
  BY <1>1, SourcesAssumption DEF DisksTyped, Places, Contents, Range
<1>3. TasksTyped BY MaxTasksAssumption DEF ToolInit, TasksTyped, Busy
<1> QED BY <1>1, <1>2, <1>3 DEF ToolInv, Busy

(* A task that is asked for has all its programs to run. *)
LEMMA AskKeeps ==
  ASSUME ToolInv, NEW t \in ToolTasks, NEW r \in Resolvers, Ask(t, r)
  PROVE  ToolInv'
<1>1. /\ ~Busy /\ tasks < MaxTasks /\ tasks' = tasks + 1 /\ task' = t /\ resolver' = r
      /\ toolOutcome' = "running" /\ before' = disk /\ looking' = NoTask
      /\ programs' = ProgramsOf(t) /\ disk' = disk
  BY DEF Ask
<1>2. DisksTyped /\ TasksTyped BY DEF ToolInv
<1>3. DisksTyped' BY <1>1, <1>2 DEF DisksTyped
<1>4. TasksTyped' BY <1>1, <1>2, MaxTasksAssumption DEF TasksTyped, Busy
<1>5. Kept' BY <1>1 DEF Kept
<1>6. Total' = Len(ProgramsOf(t)) /\ Left' = Len(ProgramsOf(t))
  BY <1>1 DEF Total, Left
<1>7. ProgramsOf(t) \in Seq(ProgramType) /\ Len(ProgramsOf(t)) \in 1..5
  BY ProgramsAre
<1>8. StillToRun'
  <2>1. \A i \in 1..Left' : Total' - Left' + i = i BY <1>6, <1>7
  <2> QED BY <1>1, <1>6, <1>7, <2>1 DEF StillToRun
<1>9. Progress'
  <2>1. t.op = "build" => Left' = 5 BY <1>6, FivePrograms
  <2> QED BY <1>1, <2>1 DEF Progress
<1> QED BY <1>1, <1>3, <1>4, <1>5, <1>8, <1>9 DEF ToolInv

(* Looking for executables leaves the disk and the programs alone. *)
LEMMA StaysKeeps ==
  ASSUME ToolInv, looking' # NoTask => looking' \in used',
         UNCHANGED <<disk, task, resolver, programs, toolOutcome, before, tasks>>
  PROVE  ToolInv'
<1>1. DisksTyped' /\ TasksTyped' BY DEF ToolInv, DisksTyped, TasksTyped, Busy
<1>2. (task # NoTask => Kept)' BY DEF ToolInv, Kept, Touched, Target
<1>3. (task # NoTask /\ toolOutcome = "ok" /\ ~Misplaced(task) /\ ~Stale(task) =>
         Copied(Target(task)))'
  BY DEF ToolInv, Copied, Misplaced, Stale, Target, Input
<1>4. (Busy => StillToRun /\ Progress)'
  BY DEF ToolInv, Busy, StillToRun, Progress, Left, Total, Copied, Misplaced, Input
<1> QED BY <1>1, <1>2, <1>3, <1>4 DEF ToolInv

(* A task that fails has written where it may. *)
LEMMA FailKeeps ==
  ASSUME ToolInv, Busy, Done("failed"), disk' = disk \/ (Kept' /\ DisksTyped')
  PROVE  ToolInv'
<1>1. /\ task' = task /\ before' = before /\ toolOutcome' = "failed" /\ programs' = <<>>
      /\ looking' = NoTask /\ tasks' = tasks /\ resolver' = resolver
  BY DEF Done
<1>2. task \in ToolTasks BY DEF ToolInv, StillToRun
<1>3. Kept' /\ DisksTyped'
  <2>1. CASE disk' = disk
    <3>1. Kept /\ DisksTyped BY <1>2, ToolTasksAssumption DEF ToolInv
    <3> QED BY <1>1, <2>1, <3>1 DEF Kept, DisksTyped, Touched, Target
  <2> QED BY <2>1
<1>4. TasksTyped' BY <1>1 DEF ToolInv, TasksTyped, Busy
<1> QED BY <1>1, <1>3, <1>4 DEF ToolInv, Busy

(* So does whatever happens before the first program.                        *)
LEMMA LookingKeeps ==
  ASSUME ToolInv, StartLooking \/ apply_alias \/ find_executable \/ UnknownGenerator
  PROVE  ToolInv'
<1>1. CASE StartLooking
  <2>1. looking' \in used' BY <1>1 DEF StartLooking
  <2>2. UNCHANGED <<disk, task, resolver, programs, toolOutcome, before, tasks>>
    BY <1>1 DEF StartLooking
  <2> QED BY <2>1, <2>2, StaysKeeps
<1>2. CASE apply_alias
  <2>1. CASE resolver.alias[looking] \in used
    <3>1. Busy /\ Done("failed") /\ disk' = disk BY <1>2, <2>1 DEF apply_alias
    <3> QED BY <3>1, FailKeeps
  <2>2. CASE resolver.alias[looking] \notin used
    <3>1. looking' \in used' BY <1>2, <2>2 DEF apply_alias
    <3>2. UNCHANGED <<disk, task, resolver, programs, toolOutcome, before, tasks>>
      BY <1>2, <2>2 DEF apply_alias
    <3> QED BY <3>1, <3>2, StaysKeeps
  <2> QED BY <2>1, <2>2
<1>3. CASE find_executable
  <2>1. CASE looking \in resolver.path \ (resolver.absolute \cup Installed)
    <3>1. Busy /\ Done("failed") /\ disk' = disk BY <1>3, <2>1 DEF find_executable
    <3> QED BY <3>1, FailKeeps
  <2>2. CASE looking \notin resolver.path \ (resolver.absolute \cup Installed)
    <3>1. /\ looking' = NoTask
          /\ UNCHANGED <<disk, task, resolver, programs, toolOutcome, before, tasks>>
      BY <1>3, <2>2 DEF find_executable
    <3> QED BY <3>1, StaysKeeps
  <2> QED BY <2>1, <2>2
<1>4. CASE UnknownGenerator
  <2>1. Busy /\ Done("failed") /\ disk' = disk BY <1>4 DEF UnknownGenerator, Ready
  <2> QED BY <2>1, FailKeeps
<1> QED BY <1>1, <1>2, <1>3, <1>4

(* A step that has one program less to run, and has copied what it should. *)
LEMMA StepKeeps ==
  ASSUME ToolInv, Ready, Advance, NEW place \in Places, OnlyBelow(place), Touched(task, place),
         Left = 1 => (~Misplaced(task) /\ ~Stale(task) => Copied(Target(task))'),
         Left # 1 => task.op = "build" /\ Progress'
  PROVE  ToolInv'
<1>1. Busy /\ DisksTyped /\ TasksTyped /\ StillToRun BY DEF ToolInv, Ready
<1>2. task \in ToolTasks /\ task # NoTask BY <1>1, ToolTasksAssumption DEF StillToRun
<1>3. Kept BY <1>2 DEF ToolInv
<1>4. /\ TasksTyped' /\ task' = task /\ before' = before
      /\ Left = 1 => toolOutcome' = "ok"
      /\ Left # 1 => toolOutcome' = "running" /\ StillToRun'
  BY <1>1, Advances
<1>5. Kept' /\ DisksTyped' BY <1>1, <1>2, <1>3, <1>4, KeptBelow
<1>6. Misplaced(task)' = Misplaced(task) /\ Stale(task)' = Stale(task)
  BY <1>4 DEF Misplaced, Stale, Target
<1>7. CASE Left = 1
  BY <1>4, <1>5, <1>6, <1>7 DEF ToolInv, Busy
<1>8. CASE Left # 1
  BY <1>4, <1>5, <1>8 DEF ToolInv, Busy
<1> QED BY <1>7, <1>8

(* pack begins with its directories. *)
LEMMA ResetKeeps == ASSUME ToolInv, ResetBin PROVE ToolInv'
<1> DEFINE p == Head(programs)
           bin == In(Cwd, task.bin)
<1>1. /\ Ready /\ p.exe = "reset_dir" /\ Advance
      /\ disk' = Filled(Filled(Cleared(disk, bin), Append(bin, "bin"), Empty),
                        Append(bin, "root"), Empty)
  BY DEF ResetBin
<1>2. Busy /\ DisksTyped /\ TasksTyped /\ StillToRun /\ Progress
  BY <1>1 DEF ToolInv, Ready
<1>3. task \in ToolTasks BY <1>2 DEF StillToRun
<1>4. /\ p = ProgramsOf(task)[Total - Left + 1] /\ Total - Left + 1 \in 1..Total
      /\ Total \in 1..5 /\ Left \in 1..Total
  BY <1>2, NextIs DEF StillToRun
<1>5. task.op = "build"
  <2>1. SUFFICES ASSUME task.op # "build" PROVE FALSE OBVIOUS
  <2>2. PICK q \in ProgramType : ProgramsOf(task) = <<q>> /\ q.exe = task.tool
    BY <1>3, <2>1, OneProgram
  <2>3. p = q BY <1>4, <2>2 DEF Total
  <2>4. task.tool # "reset_dir" BY <1>3, <2>1, TaskIs
  <2> QED BY <1>1, <2>2, <2>3, <2>4
<1>6. /\ Total = 5 /\ Place(ProgramsOf(task)[1]) = bin
      /\ \A k \in 2..5 : ProgramsOf(task)[k].exe # "reset_dir"
  BY <1>3, <1>5, FivePrograms DEF Total
<1>7. Left = 5
  <2>1. SUFFICES ASSUME Left # 5 PROVE FALSE OBVIOUS
  <2>2. Total - Left + 1 \in 2..5 BY <1>4, <1>6, <2>1
  <2> HIDE DEF p
  <2> QED BY <1>1, <1>4, <1>6, <2>2
<1>8. bin \in Places BY <1>3, <1>5, BuildDirs
<1>9. "bin" \in FileNames /\ "root" \in FileNames BY FileNamesAssumption
<1>10. OnlyBelow(bin)
  <2> HIDE DEF bin
  <2> QED BY <1>1, <1>2, <1>8, <1>9, ResetsBelow
<1>11. Touched(task, bin)
  <2>1. Below(bin, bin) BY <1>8, BelowItself
  <2> QED BY <1>5, <2>1 DEF Touched
<1>12. task' = task /\ before' = before /\ Left' = 4 /\ Total' = 5
  BY <1>1, <1>2, <1>6, <1>7, Advances
<1>13. disk = before BY <1>2, <1>6, <1>7 DEF Progress
<1>14. Progress'
  <2>1. ASSUME Input(task) \in DOMAIN disk' PROVE Copied(Input(task))'
    <3>1. ~Below(bin, Input(task)) BY <1>3, <1>5, TaskIs
    <3>2. Input(task) \in DOMAIN disk /\ disk'[Input(task)] = disk[Input(task)]
      BY <1>10, <2>1, <3>1 DEF OnlyBelow
    <3> QED BY <1>12, <1>13, <2>1, <3>2 DEF Copied, Input
  <2> QED BY <1>12, <2>1 DEF Progress, Input
<1> QED BY <1>1, <1>5, <1>7, <1>8, <1>10, <1>11, <1>14, StepKeeps

(* A program copies its source to its place, with the exception of curl. *)
LEMMA ProgramKeeps == ASSUME ToolInv, RunProgram PROVE ToolInv'
<1> DEFINE p == Head(programs)
           ps == ProgramsOf(task)
<1>1. /\ Ready /\ p.exe # "reset_dir" /\ Advance /\ Source(p) \in DOMAIN disk
  BY DEF RunProgram
<1>2. PICK content \in Results(p) : disk' = Filled(Prepared(p), Place(p), content)
  BY DEF RunProgram
<1>3. Busy /\ DisksTyped /\ TasksTyped /\ StillToRun /\ Progress
  BY <1>1 DEF ToolInv, Ready
<1>4. task \in ToolTasks BY <1>3 DEF StillToRun
<1>5. /\ p = ps[Total - Left + 1] /\ Total - Left + 1 \in 1..Total
      /\ Total \in 1..5 /\ Left \in 1..Total
      /\ Place(p) \in Places /\ Touched(task, Place(p))
  BY <1>3, NextIs DEF StillToRun
<1>6. content \in Contents BY <1>1, <1>3 DEF Results, DisksTyped
<1>7. /\ OnlyBelow(Place(p))
      /\ Place(p) \in DOMAIN disk' /\ disk'[Place(p)] = content
  <2> HIDE DEF p
  <2> QED BY <1>2, <1>3, <1>5, <1>6, WritesBelow
<1>8. /\ task' = task /\ before' = before
      /\ Left # 1 => Left' = Left - 1 /\ Total' = Total
  BY <1>1, <1>3, Advances
<1> HIDE DEF p
<1>9. CASE task.op # "build"
  <2>1. PICK q \in ProgramType :
          /\ ps = <<q>> /\ Source(q) = Input(task) /\ Place(q) = Target(task)
          /\ q.exe = task.tool
    BY <1>4, <1>9, OneProgram
  <2>2. Total = 1 /\ p = q BY <1>5, <2>1 DEF Total
  <2>3. Left = 1 BY <1>5, <2>2
  <2>4. disk = before BY <1>3, <2>2, <2>3 DEF Progress
  <2>5. ASSUME ~Stale(task) PROVE content = before[Input(task)]
    BY <1>2, <2>1, <2>2, <2>4, <2>5 DEF Results, Stale, Input
  <2>6. ~Stale(task) => Copied(Target(task))'
    BY <1>1, <1>7, <1>8, <2>1, <2>2, <2>4, <2>5 DEF Copied, Input, Target
  <2> QED BY <1>1, <1>5, <1>7, <2>3, <2>6, StepKeeps
<1>10. CASE task.op = "build"
  <2> DEFINE b == In(Cwd, BuildDir(task))
             r == In(Cwd, RootDir(task))
  <2>1. /\ Total = 5 /\ ps[1].exe = "reset_dir"
        /\ \A k \in 2..5 : ps[k].exe # "curl"
        /\ Source(ps[2]) = Input(task) /\ Place(ps[2]) = b
        /\ Source(ps[3]) = b /\ Place(ps[3]) = b
        /\ Source(ps[4]) = b /\ (~Misplaced(task) => Place(ps[4]) = r)
        /\ Source(ps[5]) = r /\ Place(ps[5]) = Target(task)
    BY <1>4, <1>10, FivePrograms DEF Total
  <2>2. Left # 5 BY <1>1, <1>5, <2>1
  <2>3. Left \in 1..4 /\ p = ps[6 - Left] /\ 6 - Left \in 2..5 BY <1>5, <2>1, <2>2
  <2>4. content = disk[Source(p)]
    <3>1. p.exe # "curl" BY <2>1, <2>3
    <3> QED BY <1>2, <3>1 DEF Results
  <2>5. ASSUME Copied(Source(p))
        PROVE  /\ Input(task) \in DOMAIN before /\ Place(p) \in DOMAIN disk'
               /\ disk'[Place(p)] = before[Input(task)]
    BY <1>7, <2>4, <2>5 DEF Copied
  <2>6. /\ Left = 4 => Copied(Input(task))
        /\ Left \in {2, 3} => Copied(b)
        /\ Left = 1 /\ ~Misplaced(task) => Copied(r)
    <3>1. Left = 4 => Input(task) \in DOMAIN disk BY <1>1, <2>1, <2>3
    <3> QED BY <1>3, <1>10, <3>1 DEF Progress
  <2>7. Input(task)' = Input(task) /\ Target(task)' = Target(task) /\ b' = b /\ r' = r
        /\ Misplaced(task)' = Misplaced(task)
    BY <1>8 DEF Input, Target, Misplaced
  <2> HIDE DEF ps, b, r
  <2>8. CASE Left \in {3, 4}
    <3>1. Place(p) = b BY <2>1, <2>3, <2>8
    <3>2. Copied(Source(p)) BY <2>1, <2>3, <2>6, <2>8
    <3>3. Copied(b)' BY <1>8, <2>5, <2>7, <3>1, <3>2 DEF Copied
    <3>4. Left' \in {2, 3} /\ Total' = 5 BY <1>8, <2>1, <2>8
    <3>5. Progress' BY <3>3, <3>4 DEF Progress, b
    <3> QED BY <1>1, <1>5, <1>7, <1>10, <2>8, <3>5, StepKeeps
  <2>9. CASE Left = 2
    <3>1. ASSUME ~Misplaced(task) PROVE Copied(r)'
      <4>1. Place(p) = r /\ Copied(Source(p)) BY <2>1, <2>3, <2>6, <2>9, <3>1
      <4> QED BY <1>8, <2>5, <2>7, <4>1 DEF Copied
    <3>2. Left' = 1 /\ Total' = 5 BY <1>8, <2>1, <2>9
    <3>3. Progress' BY <2>7, <3>1, <3>2 DEF Progress, r
    <3> QED BY <1>1, <1>5, <1>7, <1>10, <2>9, <3>3, StepKeeps
  <2>10. CASE Left = 1
    <3>1. ASSUME ~Misplaced(task) PROVE Copied(Target(task))'
      <4>1. Place(p) = Target(task) /\ Copied(Source(p)) BY <2>1, <2>3, <2>6, <2>10, <3>1
      <4> QED BY <1>8, <2>5, <2>7, <4>1 DEF Copied
    <3> QED BY <1>1, <1>5, <1>7, <2>10, <3>1, StepKeeps
  <2> QED BY <2>3, <2>8, <2>9, <2>10
<1> QED BY <1>9, <1>10

(* A program that fails leaves a part of its output at most. *)
LEMMA FailureKeeps == ASSUME ToolInv, ProgramFails PROVE ToolInv'
<1> DEFINE p == Head(programs)
<1>1. /\ Ready /\ Done("failed")
      /\ disk' \in {disk, Cleared(disk, Place(p)), Prepared(p),
                    Filled(Prepared(p), Place(p), Part)}
  BY DEF ProgramFails
<1>2. Busy /\ DisksTyped /\ StillToRun BY <1>1 DEF ToolInv, Ready
<1>3. task \in ToolTasks /\ task # NoTask
  BY <1>2, ToolTasksAssumption DEF StillToRun
<1>4. Kept BY <1>3 DEF ToolInv
<1>5. Place(p) \in Places /\ Touched(task, Place(p)) BY <1>2, NextIs
<1> HIDE DEF p
<1>6. OnlyBelow(Place(p)) BY <1>1, <1>2, <1>5, FailsBelow
<1>7. task' = task /\ before' = before BY <1>1 DEF Done
<1>8. Kept' /\ DisksTyped' BY <1>2, <1>3, <1>4, <1>5, <1>6, <1>7, KeptBelow
<1> QED BY <1>1, <1>2, <1>8, FailKeeps

(* Every step of the tools. *)
LEMMA ToolInvNext == ToolInv /\ [ToolNext]_toolVars => ToolInv'
<1> SUFFICES ASSUME ToolInv, [ToolNext]_toolVars PROVE ToolInv' OBVIOUS
<1>1. ASSUME NEW t \in ToolTasks, NEW r \in Resolvers, Ask(t, r) PROVE ToolInv'
  BY <1>1, AskKeeps
<1>2. CASE StartLooking \/ apply_alias \/ find_executable \/ UnknownGenerator
  BY <1>2, LookingKeeps
<1>3. CASE ResetBin BY <1>3, ResetKeeps
<1>4. CASE RunProgram BY <1>4, ProgramKeeps
<1>5. CASE ProgramFails BY <1>5, FailureKeeps
<1>6. CASE UNCHANGED toolVars
  <2>1. looking' # NoTask => looking' \in used'
    BY <1>6 DEF toolVars, resolverVars, ToolInv, TasksTyped
  <2>2. UNCHANGED <<disk, task, resolver, programs, toolOutcome, before, tasks>>
    BY <1>6 DEF toolVars, resolverVars
  <2> QED BY <2>1, <2>2, StaysKeeps
<1> QED BY <1>1, <1>2, <1>3, <1>4, <1>5, <1>6 DEF ToolNext

(* The inductive invariant of the tools: at every moment of a task, the rest  *)
(* of the disk is as it was, and what the programs run so far were to copy   *)
(* is where the next one looks for it. (builder.cpp:10, cwd_split.cpp:21)    *)
THEOREM ToolInvariant == ToolSpec => []ToolInv
BY ToolInvInit, ToolInvNext, PTL DEF ToolSpec

(* The tools' variables keep their types. (builder.cpp:10)                   *)
THEOREM ToolTypes == ToolSpec => []ToolTypeOK
<1>1. ToolInv => ToolTypeOK
  <2> SUFFICES ASSUME ToolInv PROVE ToolTypeOK OBVIOUS
  <2>1. DisksTyped /\ TasksTyped BY DEF ToolInv
  <2>2. Len(programs) <= 5
    <3>1. CASE Busy
      <4>1. StillToRun BY <3>1 DEF ToolInv
      <4>2. Left \in 1..Total /\ Total \in 1..5 BY <4>1, NextIs DEF StillToRun
      <4> QED BY <4>2 DEF Left
    <3>2. CASE ~Busy
      <4>1. programs = <<>> BY <2>1, <3>2 DEF TasksTyped
      <4> QED BY <4>1
    <3> QED BY <3>1, <3>2
  <2>3. Range(disk) \subseteq Contents BY <2>1 DEF DisksTyped, Range
  <2> QED BY <2>1, <2>2, <2>3 DEF TasksTyped, ToolTypeOK
<1> QED BY <1>1, ToolInvariant, PTL

(* Whatever the directories of the programs, what a task that succeeds was   *)
(* asked for is where its caller means, and no task changes anything else:   *)
(* for any tasks, paths, resolvers and failures. (builder.cpp:10,            *)
(* cwd_split.cpp:21)                                                         *)
THEOREM ToolsBuildWhereAsked == ToolSpec => []BuiltWhereAsked
<1>1. ToolInv => BuiltWhereAsked
  <2> SUFFICES ASSUME ToolInv, task # NoTask, ~Busy PROVE BuiltWhereAsked
    BY DEF BuiltWhereAsked
  <2>1. ASSUME toolOutcome = "ok", ~Misplaced(task), ~Stale(task)
        PROVE  Target(task) \in DOMAIN disk
               /\ disk[Target(task)] = before[In(Cwd, task.from)]
    BY <2>1 DEF ToolInv, Copied, Input
  <2>2. ASSUME NEW place \in DOMAIN before
        PROVE  \/ Below(Target(task), place)
               \/ task.op = "build" /\ Below(In(Cwd, task.bin), place)
               \/ place \in DOMAIN disk /\ disk[place] = before[place]
    BY <2>2 DEF ToolInv, Kept, Touched
  <2> QED BY <2>1, <2>2 DEF BuiltWhereAsked
<1> QED BY <1>1, ToolInvariant, PTL

=============================================================================
