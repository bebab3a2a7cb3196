----------------------------- MODULE FileGuard ------------------------------
(***************************************************************************)
(* bunsan::interprocess::file_guard: a file whose existence is the lock,   *)
(* as the archive server takes one on its location.  Guards are move-only  *)
(* values; the file outlives a process that is killed, until an operator   *)
(* removes it.                                                             *)
(***************************************************************************)
EXTENDS Naturals, FiniteSets

CONSTANTS
  Paths, Guards,
  OwnerOf,      \* the process each guard is a variable of
  NoPath

ASSUME NoPathAssumption == NoPath \notin Paths

VARIABLES
  files,        \* the lock files that exist
  m_path,       \* per guard: the path it guards
  left          \* history: files of processes that have been killed

guardVars == <<files, m_path, left>>

GuardInit ==
  /\ files = {}
  /\ m_path = [g \in Guards |-> NoPath]
  /\ left = {}

(* file_guard(path): the file is created unless it exists. *)
CreateFile(g, path) ==
  /\ m_path[g] = NoPath
  /\ path \notin files
  /\ files' = files \cup {path}
  /\ m_path' = [m_path EXCEPT ![g] = path]
  /\ UNCHANGED left

(* remove(), also of ~file_guard() *)
Remove(g) ==
  /\ m_path[g] # NoPath
  /\ files' = files \ {m_path[g]}
  /\ m_path' = [m_path EXCEPT ![g] = NoPath]
  /\ UNCHANGED left

(* The move constructor and assignment: swap, then the source, which has     *)
(* what the target had, removes it.  A guard moved to itself is removed.     *)
Move(g, h) ==
  /\ OwnerOf[g] = OwnerOf[h]
  /\ m_path[h] # NoPath
  /\ m_path' = [m_path EXCEPT ![g] = m_path[h], ![h] = NoPath]
  /\ files' = files \ {m_path[g]}
  /\ UNCHANGED left

KillOwner(p) ==
  /\ left' = left \cup {m_path[g] : g \in {h \in Guards :
                          OwnerOf[h] = p /\ m_path[h] # NoPath}}
  /\ m_path' = [g \in Guards |-> IF OwnerOf[g] = p THEN NoPath ELSE m_path[g]]
  /\ UNCHANGED files

(* The operator removes what a killed process has left, and nothing else. *)
CleanUp(path) ==
  /\ path \in left
  /\ files' = files \ {path}
  /\ left' = left \ {path}
  /\ UNCHANGED m_path

GuardNext ==
  \/ \E g \in Guards, path \in Paths : CreateFile(g, path)
  \/ \E g \in Guards : Remove(g)
  \/ \E g, h \in Guards : Move(g, h)
  \/ \E p \in {OwnerOf[g] : g \in Guards} : KillOwner(p)
  \/ \E path \in Paths : CleanUp(path)

GuardSpec == GuardInit /\ [][GuardNext]_guardVars

----------------------------------------------------------------------------
(* Properties *)

GuardTypeOK ==
  /\ files \subseteq Paths
  /\ m_path \in [Guards -> Paths \cup {NoPath}]
  /\ left \subseteq files

(* A lock file exists exactly while one guard guards it or a killed process  *)
(* has left it: moving guards around loses no file, removes no other guard's *)
(* and leaves none behind. (file_guard.cpp:30-44)                            *)
GuardedExactlyOnce ==
  \A path \in Paths :
    LET guards == {g \in Guards : m_path[g] = path} IN
    /\ Cardinality(guards) <= 1
    /\ path \in files <=> guards # {} \/ path \in left
    /\ guards = {} \/ path \notin left

=============================================================================
