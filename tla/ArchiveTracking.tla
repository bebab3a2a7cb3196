-------------------------- MODULE ArchiveTracking --------------------------
(***************************************************************************)
(* What the archive promises about imports, without threads, locks, queues *)
(* or packages.  A problem has the revision that was stored last, may have *)
(* an import pending, and shows the outcome of the last import; an outcome *)
(* is always that of the stored revision.  Under Fairness every pending    *)
(* import is completed.                                                    *)
(***************************************************************************)
CONSTANTS Problems, Revisions, NoRevision, NoResult

VARIABLES stored, pending, outcome

vars == <<stored, pending, outcome>>

Init ==
  /\ stored = [p \in Problems |-> NoRevision]
  /\ pending = {}
  /\ outcome = [p \in Problems |-> NoResult]

\* A new version of p arrives: what was known about the old one is void.
Store(p) ==
  /\ \E r \in Revisions : stored' = [stored EXCEPT ![p] = r]
  /\ pending' = pending \cup {p}
  /\ outcome' = [outcome EXCEPT ![p] = NoResult]

Request(p) ==
  /\ stored[p] # NoRevision
  /\ pending' = pending \cup {p}
  /\ UNCHANGED <<stored, outcome>>

Complete(p) ==
  /\ stored[p] # NoRevision
  /\ pending' = pending \ {p}
  /\ \E ok \in BOOLEAN :
        outcome' = [outcome EXCEPT ![p] = [revision |-> stored[p], ok |-> ok]]
  /\ UNCHANGED stored

Next == \E p \in Problems : Store(p) \/ Request(p) \/ Complete(p)

Spec == Init /\ [][Next]_vars

Fairness == \A p \in Problems : WF_vars(p \in pending /\ Complete(p))

FairSpec == Spec /\ Fairness

=============================================================================
