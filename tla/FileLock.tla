------------------------------ MODULE FileLock ------------------------------
(***************************************************************************)
(* bunsan::interprocess::file_lock: a mutex of the threads of several      *)
(* processes, made of an in-process mutex (mlock) and a lock of a file     *)
(* (flock).                                                                *)
(*                                                                         *)
(* The file lock is a record lock of the operating system.  It belongs to  *)
(* a process, not to a thread: any thread of the process that has it gets  *)
(* it again, and loses it for all of them.  So the threads of a process    *)
(* must share one mlock, which file_lock_factory looks up by path.  One    *)
(* path is modelled; every handle is on it.                                *)
(***************************************************************************)
EXTENDS Naturals, FiniteSets

CONSTANTS
  Processes, Threads,
  ProcessOf,     \* the process of each thread
  MaxMutexes,    \* bound on the mutexes a process creates
  MaxCalls,      \* bound on locking calls and kills together
  NoMutex, Nobody

ASSUME ProcessesAssumption ==
  ProcessOf \in [Threads -> Processes] /\ Nobody \notin Threads \cup Processes
ASSUME LockBoundsAssumption == MaxMutexes \in Nat /\ MaxCalls \in Nat

(* file_lock_factory::mutex objects: the n-th that process p makes *)
Mutexes == Processes \X (1..MaxMutexes)
ASSUME NoMutexAssumption == NoMutex \notin Mutexes

VARIABLES
  m_instances, \* per process: the mutex of the path in its factory
  created,     \* per process: mutexes made so far
  m_mutex,     \* per thread: the mutex of its handle
  mlock,       \* per mutex: the thread that has it
  flock,       \* the process that has the file
  pcLock,      \* per thread: where it is
  calls,       \* locking calls and kills so far
  stolen       \* history: a thread released the file while another thread
               \* of its process counted on having it

factoryVars == <<m_instances, created, m_mutex>>
lockVars == <<mlock, flock, stolen>>
fileLockVars == <<factoryVars, lockVars, pcLock, calls>>

LockInit ==
  /\ m_instances = [p \in Processes |-> NoMutex]
  /\ created = [p \in Processes |-> 0]
  /\ m_mutex = [t \in Threads |-> NoMutex]
  /\ mlock = [m \in Mutexes |-> Nobody]
  /\ flock = Nobody
  /\ pcLock = [t \in Threads |-> "none"]
  /\ calls = 0
  /\ stolen = FALSE

Goto(t, from, to) == pcLock[t] = from /\ pcLock' = [pcLock EXCEPT ![t] = to]

----------------------------------------------------------------------------
(* file_lock_factory *)

(* get(): look under the shared lock ... *)
Find(t) ==
  LET found == m_instances[ProcessOf[t]] IN
  /\ Goto(t, "none", IF found = NoMutex THEN "insert" ELSE "idle")
  /\ m_mutex' = [m_mutex EXCEPT ![t] = found]
  /\ UNCHANGED <<m_instances, created, lockVars, calls>>

Create(p) ==
  /\ created[p] < MaxMutexes
  /\ created' = [created EXCEPT ![p] = @ + 1]
  /\ m_instances' = [m_instances EXCEPT ![p] = <<p, created'[p]>>]

(* Mutant of Insert: nobody looks again under the unique lock. *)
InsertBlindly(t) ==
  /\ Goto(t, "insert", "idle")
  /\ Create(ProcessOf[t])
  /\ m_mutex' = [m_mutex EXCEPT ![t] = m_instances'[ProcessOf[t]]]
  /\ UNCHANGED <<lockVars, calls>>

(* ... and again under the unique lock before a mutex is made. *)
Insert(t) ==
  /\ Goto(t, "insert", "idle")
  /\ \/ m_instances[ProcessOf[t]] = NoMutex /\ Create(ProcessOf[t])
     \/ m_instances[ProcessOf[t]] # NoMutex /\ UNCHANGED <<m_instances, created>>
  /\ m_mutex' = [m_mutex EXCEPT ![t] = m_instances'[ProcessOf[t]]]
  /\ UNCHANGED <<lockVars, calls>>

Handles(m) == {t \in Threads : m_mutex[t] = m}

(* ~file_lock() and try_erase(): the number of pointers is read without a    *)
(* lock; whoever has the last handle goes on to erase the mutex.             *)
Destroy(t) ==
  /\ Goto(t, "idle", IF Handles(m_mutex[t]) = {t} THEN "erase" ELSE "drop")
  /\ UNCHANGED <<factoryVars, lockVars, calls>>

(* Closing any descriptor of a file gives up the locks its process has on it. *)
CloseFile(p) == flock' = IF flock = p THEN Nobody ELSE flock

(* Under the unique lock: erased if no handle has been made meanwhile. *)
Erase(t) ==
  LET p == ProcessOf[t] IN
  /\ Goto(t, "erase", "none")
  /\ IF Handles(m_mutex[t]) = {t}
       THEN m_instances' = [m_instances EXCEPT ![p] = NoMutex] /\ CloseFile(p)
       ELSE UNCHANGED <<m_instances, flock>>
  /\ m_mutex' = [m_mutex EXCEPT ![t] = NoMutex]
  /\ UNCHANGED <<created, mlock, stolen, calls>>

(* The pointer goes: at the end of the destructor if nothing was erased, and *)
(* in reset() and in a move into the handle, which erase nothing.            *)
Drop(t) ==
  /\ pcLock[t] \in {"drop", "idle"}
  /\ pcLock' = [pcLock EXCEPT ![t] = "none"]
  /\ m_mutex' = [m_mutex EXCEPT ![t] = NoMutex]
  /\ UNCHANGED <<m_instances, created, lockVars, calls>>

----------------------------------------------------------------------------
(* The two locks *)

MFree(t) == mlock[m_mutex[t]] = Nobody
TakeM(t) == mlock' = [mlock EXCEPT ![m_mutex[t]] = t]
GiveM(t) == mlock' = [mlock EXCEPT ![m_mutex[t]] = Nobody]

FFree(t) == flock \in {Nobody, ProcessOf[t]}
TakeF(t) == flock' = ProcessOf[t]
GiveF(t) ==
  /\ CloseFile(ProcessOf[t])
  /\ stolen' = (stolen \/ \E u \in Threads \ {t} :
       ProcessOf[u] = ProcessOf[t] /\ pcLock[u] \in {"held", "tryM"})

(* A locking call begins. *)
Call(t, to) ==
  /\ calls < MaxCalls
  /\ Goto(t, "idle", to)
  /\ calls' = calls + 1
  /\ UNCHANGED <<factoryVars, lockVars>>

(* lock() is boost::lock(mlock, flock): wait for one and try the other; if   *)
(* that fails, let go of the first and start with the other.                 *)
WaitM(t, from, to) ==
  /\ Goto(t, from, to)
  /\ MFree(t) /\ TakeM(t)
  /\ UNCHANGED <<factoryVars, flock, stolen, calls>>

TryF(t, from, else) ==
  /\ \/ Goto(t, from, "held") /\ FFree(t) /\ TakeF(t) /\ UNCHANGED mlock
     \/ Goto(t, from, else) /\ ~FFree(t) /\ GiveM(t) /\ UNCHANGED flock
  /\ UNCHANGED <<factoryVars, stolen, calls>>

WaitF(t, from, to) ==
  /\ Goto(t, from, to)
  /\ FFree(t) /\ TakeF(t)
  /\ UNCHANGED <<factoryVars, mlock, stolen, calls>>

TryM(t) ==
  /\ Goto(t, "tryM", "held")
  /\ MFree(t) /\ TakeM(t)
  /\ UNCHANGED <<factoryVars, flock, stolen, calls>>

Holding(t) == pcLock[t] = "held"

BackOff(t) ==
  /\ Goto(t, "tryM", "waitM")
  /\ ~MFree(t) /\ GiveF(t)
  /\ UNCHANGED <<factoryVars, mlock, calls>>

(* try_lock() is boost::try_lock(mlock, flock). *)
TryLockFails(t) ==
  /\ Goto(t, "tryLock", "idle")
  /\ ~MFree(t)
  /\ UNCHANGED <<factoryVars, lockVars, calls>>

(* timed_lock(): a call that times out on the file keeps mlock, as the       *)
(* clean-up has copies of the two flags, from before either was set.         *)
TimeOut(t) ==
  /\ pcLock[t] \in {"timedM", "timedF"}
  /\ pcLock' = [pcLock EXCEPT ![t] = "idle"]
  /\ UNCHANGED <<factoryVars, lockVars, calls>>

(* Mutant of UnlockF: mlock goes first, and with it the order of the two. *)
UnlockBoth(t) ==
  /\ Goto(t, "held", "unlockM")
  /\ GiveM(t)
  /\ UNCHANGED <<factoryVars, flock, stolen, calls>>

UnlockF(t) ==
  /\ Goto(t, "held", "unlockM")
  /\ GiveF(t)
  /\ UNCHANGED <<factoryVars, mlock, calls>>

UnlockM(t) ==
  /\ Goto(t, "unlockM", "idle")
  /\ GiveM(t)
  /\ UNCHANGED <<factoryVars, flock, stolen, calls>>

LockStep(t) ==
  \/ WaitM(t, "waitM", "tryF") \/ TryF(t, "tryF", "waitF")
  \/ WaitF(t, "waitF", "tryM") \/ TryM(t) \/ BackOff(t)
  \/ WaitM(t, "tryLock", "tryLockF") \/ TryLockFails(t)
  \/ TryF(t, "tryLockF", "idle")
  \/ WaitM(t, "timedM", "timedF") \/ WaitF(t, "timedF", "held") \/ TimeOut(t)
  \/ UnlockF(t) \/ UnlockM(t)

----------------------------------------------------------------------------
(* A process dies: the system lets go of the file. *)
KillProcess(p) ==
  LET Of(t) == ProcessOf[t] = p IN
  /\ calls < MaxCalls /\ calls' = calls + 1
  /\ m_instances' = [m_instances EXCEPT ![p] = NoMutex]
  /\ m_mutex' = [t \in Threads |-> IF Of(t) THEN NoMutex ELSE m_mutex[t]]
  /\ mlock' = [m \in Mutexes |-> IF m[1] = p THEN Nobody ELSE mlock[m]]
  /\ CloseFile(p)
  /\ pcLock' = [t \in Threads |-> IF Of(t) THEN "none" ELSE pcLock[t]]
  /\ UNCHANGED <<created, stolen>>

LockNext ==
  \/ \E t \in Threads :
       \/ Find(t) \/ Insert(t) \/ Destroy(t) \/ Erase(t) \/ Drop(t)
       \/ \E to \in {"waitM", "tryLock", "timedM"} : Call(t, to)
       \/ LockStep(t)
  \/ \E p \in Processes : KillProcess(p)

LockSpec == LockInit /\ [][LockNext]_fileLockVars

(* Threads run, and whoever has the lock lets go of it. *)
LockFairness == \A t \in Threads : WF_fileLockVars(LockStep(t))

----------------------------------------------------------------------------
(* Properties *)

LockTypeOK ==
  /\ m_instances \in [Processes -> Mutexes \cup {NoMutex}]
  /\ created \in [Processes -> 0..MaxMutexes]
  /\ m_mutex \in [Threads -> Mutexes \cup {NoMutex}]
  /\ mlock \in [Mutexes -> Threads \cup {Nobody}]
  /\ flock \in Processes \cup {Nobody}
  /\ pcLock \in [Threads -> {"none", "insert", "idle", "erase", "drop", "waitM",
       "tryF", "waitF", "tryM", "tryLock", "tryLockF", "timedM", "timedF",
       "held", "unlockM"}]
  /\ calls \in 0..MaxCalls
  /\ stolen \in BOOLEAN

(* All handles of a process on the path share the mutex its factory knows,   *)
(* however getting a lock and destroying the last one interleave: two        *)
(* mutexes would let two threads in, as the file does not tell threads       *)
(* apart. (file_lock.cpp:37, :50)                                            *)
OneMutexPerFile ==
  \A t \in Threads :
    m_mutex[t] # NoMutex => m_mutex[t] = m_instances[ProcessOf[t]]

(* What the package manager's cache lock is for: one thread at a time, of    *)
(* all processes. (config.hpp:125, "lock file for synchronization")          *)
MutualExclusion ==
  \A t, u \in Threads : Holding(t) /\ Holding(u) => t = u

(* Threads of one process exclude each other always, and those of several    *)
(* until a thread that unlocks, or backs off in lock(), has released the     *)
(* file while another thread of its process had it too or was about to have  *)
(* the lock. (file_lock.cpp:113, :137)                                       *)
ExclusiveUnlessStolen ==
  \A t, u \in Threads :
    /\ Holding(t) /\ Holding(u)
    /\ ProcessOf[t] = ProcessOf[u] \/ ~stolen
    => t = u

(* Every lock() returns, as long as no timed_lock() of the same process has  *)
(* timed out on the file and left mlock locked. (file_lock.cpp:113, :124)    *)
Abandoned(m) ==
  /\ mlock[m] # Nobody
  /\ pcLock[mlock[m]] \notin {"tryF", "held", "tryLockF", "timedF", "unlockM"}
LockReturns ==
  \A t \in Threads :
    pcLock[t] \in {"waitM", "tryF", "waitF", "tryM"} ~>
      \/ pcLock[t] \in {"held", "none"}
      \/ \E m \in Mutexes : Abandoned(m)

=============================================================================
