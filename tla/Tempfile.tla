------------------------------ MODULE Tempfile ------------------------------
(***************************************************************************)
(* bunsan::tempfile: a move-only value that owns a file or directory with  *)
(* a random name and removes it at the end.  Several processes make such   *)
(* names in the same temporary directory.                                  *)
(***************************************************************************)
EXTENDS Naturals, FiniteSets

CONSTANTS
  Names,        \* the names unique_path() may give
  Temps,        \* tempfile variables, of all threads
  Tries,        \* how often a name is tried (32 in the code)
  NoName

ASSUME NoNameAssumption == NoName \notin Names
ASSUME TriesAssumption == Tries \in Nat \ {0}

VARIABLES
  entries,      \* what exists in the directory: name -> kind and maker
  tempPath,     \* per tempfile: its path
  autoRemove,   \* per tempfile: m_do_auto_remove
  making,       \* per tempfile: the kind it is to become, and tries left
  clashed       \* history: names of a file that was met by a directory

tempVars == <<entries, tempPath, autoRemove, making, clashed>>

Kinds == {"regular_file", "directory"}
NotMaking == [kind |-> "none", left |-> 0]

TempInit ==
  /\ entries = [n \in {} |-> [kind |-> "directory", maker |-> NoName]]
  /\ tempPath = [t \in Temps |-> NoName]
  /\ autoRemove = [t \in Temps |-> FALSE]
  /\ making = [t \in Temps |-> NotMaking]
  /\ clashed = {}

Existing(n) == n \in DOMAIN entries
With(n, entry) == [m \in DOMAIN entries \cup {n} |-> IF m = n THEN entry ELSE entries[m]]
Without(n) == [m \in DOMAIN entries \ {n} |-> entries[m]]

(* ~tempfile(), also of the temporary in a failed try *)
Removed(t) ==
  IF autoRemove[t] /\ tempPath[t] # NoName THEN Without(tempPath[t]) ELSE entries

(* TYPE_from_model(): the result is not a variable yet. *)
StartMaking(t, kind) ==
  /\ tempPath[t] = NoName /\ making[t] = NotMaking
  /\ making' = [making EXCEPT ![t] = [kind |-> kind, left |-> Tries]]
  /\ UNCHANGED <<entries, tempPath, autoRemove, clashed>>

(* create_TYPE(): opening with "x" and making a directory both fail if the   *)
(* name is taken, and the next name is tried, without removing anything.     *)
Made(t, n) ==
  /\ making[t].kind \in Kinds /\ making[t].left > 0
  /\ ~Existing(n)
  /\ entries' = With(n, [kind |-> making[t].kind, maker |-> t])
  /\ tempPath' = [tempPath EXCEPT ![t] = n]
  /\ autoRemove' = [autoRemove EXCEPT ![t] = TRUE]
  /\ making' = [making EXCEPT ![t] = NotMaking]
  /\ UNCHANGED clashed

(* Mutant of Taken: the try's tempfile removes what it has found. *)
TakenRemoves(t, n) ==
  /\ making[t].left > 0 /\ Existing(n)
  /\ making[t].kind = "regular_file" \/ entries[n].kind = "directory"
  /\ making' = [making EXCEPT ![t].left = @ - 1]
  /\ entries' = Without(n)
  /\ UNCHANGED <<tempPath, autoRemove, clashed>>

Taken(t, n) ==
  /\ making[t].left > 0 /\ Existing(n)
  /\ making[t].kind = "regular_file" \/ entries[n].kind = "directory"
  /\ making' = [making EXCEPT ![t].left = @ - 1]
  /\ UNCHANGED <<entries, tempPath, autoRemove, clashed>>

(* create_directory() throws when the name is a file's, past auto_remove(): *)
(* the try's tempfile removes that file.                                     *)
Clash(t, n) ==
  /\ making[t].kind = "directory" /\ making[t].left > 0
  /\ Existing(n) /\ entries[n].kind = "regular_file"
  /\ entries' = Without(n)
  /\ clashed' = clashed \cup {n}
  /\ making' = [making EXCEPT ![t] = NotMaking]
  /\ UNCHANGED <<tempPath, autoRemove>>

GiveUp(t) ==
  /\ making[t].kind \in Kinds /\ making[t].left = 0
  /\ making' = [making EXCEPT ![t] = NotMaking]
  /\ UNCHANGED <<entries, tempPath, autoRemove, clashed>>

(* auto_remove(FALSE): the file is kept for good. *)
Keep(t) ==
  /\ tempPath[t] # NoName /\ autoRemove[t]
  /\ autoRemove' = [autoRemove EXCEPT ![t] = FALSE]
  /\ UNCHANGED <<entries, tempPath, making, clashed>>

(* The move constructor swaps with m_do_auto_remove, which it has not set. *)
MoveConstruct(t, u) ==
  /\ t # u /\ making[t] = NotMaking /\ making[u] = NotMaking
  /\ tempPath[t] = NoName
  /\ tempPath' = [tempPath EXCEPT ![t] = tempPath[u], ![u] = NoName]
  /\ \E unset \in BOOLEAN :
       autoRemove' = [autoRemove EXCEPT ![t] = autoRemove[u], ![u] = unset]
  /\ UNCHANGED <<entries, making, clashed>>

(* Assignment swaps. *)
SwapTemps(t, u) ==
  /\ t # u /\ making[t] = NotMaking /\ making[u] = NotMaking
  /\ tempPath' = [tempPath EXCEPT ![t] = tempPath[u], ![u] = tempPath[t]]
  /\ autoRemove' = [autoRemove EXCEPT ![t] = autoRemove[u], ![u] = autoRemove[t]]
  /\ UNCHANGED <<entries, making, clashed>>

DestroyTemp(t) ==
  /\ tempPath[t] # NoName
  /\ entries' = Removed(t)
  /\ tempPath' = [tempPath EXCEPT ![t] = NoName]
  /\ autoRemove' = [autoRemove EXCEPT ![t] = FALSE]
  /\ UNCHANGED <<making, clashed>>

TempNext ==
  \/ \E t \in Temps :
       \/ \E kind \in Kinds : StartMaking(t, kind)
       \/ \E n \in Names : Made(t, n) \/ Taken(t, n) \/ Clash(t, n)
       \/ GiveUp(t) \/ Keep(t) \/ DestroyTemp(t)
  \/ \E t, u \in Temps : MoveConstruct(t, u) \/ SwapTemps(t, u)

TempSpec == TempInit /\ [][TempNext]_tempVars

----------------------------------------------------------------------------
(* Properties *)

TempTypeOK ==
  /\ DOMAIN entries \subseteq Names
  /\ \A n \in DOMAIN entries : entries[n].kind \in Kinds /\ entries[n].maker \in Temps
  /\ tempPath \in [Temps -> Names \cup {NoName}]
  /\ autoRemove \in [Temps -> BOOLEAN]
  /\ making \in [Temps -> [kind : Kinds \cup {"none"}, left : 0..Tries]]
  /\ clashed \subseteq Names

(* A tempfile that removes its file at the end is the only one with its      *)
(* path, and the file is there, however often names clash, unless it was a   *)
(* file whose name was drawn for a directory. (tempfile.cpp:56, :83)         *)
TempOwned ==
  \A t \in Temps :
    autoRemove[t] /\ tempPath[t] # NoName =>
      /\ tempPath[t] \in DOMAIN entries \cup clashed
      /\ tempPath[t] \notin clashed =>
           \A u \in Temps \ {t} : tempPath[u] # tempPath[t]

=============================================================================
