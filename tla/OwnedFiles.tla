----------------------------- MODULE OwnedFiles -----------------------------
(* The two kinds of move-only values that remove a file at their end. *)
EXTENDS FileGuard, Tempfile

(* A file that some value removes at its end is no other value's, neither a  *)
(* lock file nor a temporary one. (file_guard.cpp:31, tempfile.cpp:81)       *)
OwnedExactlyOnce == GuardedExactlyOnce /\ TempOwned

=============================================================================
