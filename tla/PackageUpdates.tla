--------------------------- MODULE PackageUpdates ---------------------------
(***************************************************************************)
(* What the package manager promises of an update, without files, caches,  *)
(* walks of dependencies, crashes or cleaning.  While packages are         *)
(* published, an update picks one release of each package it comes to, the *)
(* one that is then current.  It installs exactly what the imports of      *)
(* these releases call for, with a snapshot that says so, or nothing.      *)
(* Once a release has been published a second time, only the snapshot is   *)
(* promised.                                                               *)
(***************************************************************************)
EXTENDS Naturals, Sequences

CONSTANTS Packages,
          Releases,  \* per package: its releases, in the order of publication
          None

VARIABLES published,  \* per package: the number of its current release
          updating,   \* the package that is updated
          picked,     \* per package: the release the update has picked
          installed   \* what the update has installed: an entry, or nothing yet

updatesVars == <<published, updating, picked, installed>>

----------------------------------------------------------------------------
(* What an installation is made of *)

Items == Packages \X {"installation", "source"}
Only(ps, kind) == {<<p, kind>> : p \in ps}

\* What an item needs, as far as is known of the release of its package.
Needs(x) ==
  IF picked[x[1]] = None THEN {<<x[1], "source">>} ELSE
  LET i == picked[x[1]].index IN
  IF x[2] = "source"
    THEN Only(i.source_package, "installation") \cup Only(i.source_source, "source")
    ELSE Only(i.package_package, "installation") \cup Only(i.package_source, "source")
           \cup {<<x[1], "source">>}

\* The least set with p's installation and all that its members need.
Parts(p) ==
  {q \in Packages : \A xs \in SUBSET Items :
     <<p, "installation">> \in xs /\ (\A x \in xs : Needs(x) \subseteq xs)
       => <<q, "source">> \in xs}

Whole(p) == {<<q, picked[q]>> : q \in Parts(p)}

----------------------------------------------------------------------------

NothingPicked == [p \in Packages |-> None]

Init ==
  /\ published = [p \in Packages |-> 1]
  /\ updating = None /\ picked = NothingPicked /\ installed = {}

Publish(p) ==
  /\ published[p] < Len(Releases[p])
  /\ published' = [published EXCEPT ![p] = @ + 1]
  /\ UNCHANGED <<updating, picked, installed>>

Begin(p) ==
  /\ updating = None
  /\ updating' = p
  /\ UNCHANGED <<published, picked, installed>>

Pick(p) ==
  /\ updating # None /\ installed = {}
  /\ picked[p] = None
  /\ picked' = [picked EXCEPT ![p] = Releases[p][published[p]]]
  /\ UNCHANGED <<published, updating, installed>>

\* A package is again at a release that it had left.
Republished ==
  \E p \in Packages : \E m, n \in 1..published[p] :
    m < n /\ Releases[p][m] = Releases[p][n]

\* A step that installs nothing need not have the closure computed.
Install ==
  /\ updating # None /\ installed = {} /\ installed' # {}
  /\ \A q \in Parts(updating) : picked[q] # None
  /\ \E entry \in installed' :
       /\ installed' = {entry}
       /\ entry.snapshot = Whole(updating)
       /\ Republished \/ entry.archive = Whole(updating)
  /\ UNCHANGED <<published, updating, picked>>

End ==
  /\ updating # None
  /\ updating' = None /\ picked' = NothingPicked /\ installed' = {}
  /\ UNCHANGED published

Next == (\E p \in Packages : Publish(p) \/ Begin(p) \/ Pick(p)) \/ Install \/ End

Spec == Init /\ [][Next]_updatesVars

=============================================================================
