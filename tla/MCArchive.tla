----------------------------- MODULE MCArchive -----------------------------
(* Small instances of Archive. *)
EXTENDS Archive, TLC

CONSTANTS p1, p2, c1, c2, broken, r1, r2, r3

\* Two good contents and a half-written one, all with different hashes.
MCHash == c1 :> r1 @@ c2 :> r2 @@ broken :> r3

\* Client calls that edit the user's flags.
UserFlagSets == {{LOCKED}, {READ_ONLY}, {IGNORE}}
LockFlagSets == {{LOCKED}}
PendingFlagSets == {{PENDING_IMPORT}}

\* The lock flag, for set_flag and unset_flag.
LockArgs == {LOCKED}
IgnoreArgs == {IGNORE}
NoArgs == {}

=============================================================================
